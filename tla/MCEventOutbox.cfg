\* An event of each kind, two changes of the channel, one send that raises.
SPECIFICATION FairSpec
CONSTANTS
    mute = mute
    final = final
    done = done
    fault = fault
    Emitted = {mute, final, done, fault}
    Kind <- MCKind
    Ended = Ended
    Failed = Failed
    MaxChannel = 2
    MaxFaults = 1
    None = None
CHECK_DEADLOCK FALSE
INVARIANTS EndIsLast
PROPERTIES ImplementsLog EmittersReturn
