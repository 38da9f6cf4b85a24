\* The peer in use, a candidate, and a third offer that is always refused; drops, one reconnect recording, a failing step.
SPECIFICATION FairSpec
CONSTANTS
    p0 = p0
    p1 = p1
    p2 = p2
    None = None
    Peers = {p0, p1, p2}
    FirstPeer = p0
    Config <- MCConfig
    Backfills = {b1}
    b1 = b1
    RetryLimit = 2
    FirstTries = 1
    MaxDrops = 1
    MaxFaults = 1
CHECK_DEADLOCK FALSE
INVARIANTS PeersAreAccounted SwitchIsAtomic
PROPERTIES GraceSparesLiveCalls CallSettles
