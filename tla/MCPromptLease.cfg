\* One call, two preparations or previews, and an eviction.
SPECIFICATION FairSpec
CONSTANTS
    v1 = v1
    k1 = k1
    k2 = k2
    r1 = r1
    r2 = r2
    e1 = e1
    None = None
    Calls = {c1}
    Requests = {r1, r2}
    Evictions = {e1}
    Prompts <- OneEditedVoice
    Wants <- EitherContent
    ReleaseLimit = 1
    TerminalLimit = 1
    Movers = {c1}
    MaxLosses = 1
CHECK_DEADLOCK FALSE
INVARIANTS NoLeaseIsOrphaned
PROPERTIES PromptIsOwn LeasesSettle
