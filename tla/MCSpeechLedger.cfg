\* Two turns, two requests, a cancellation of one turn, an interrupt and an end.
SPECIFICATION FairSpec
CONSTANTS
    a = a
    b = b
    Turns = {a, b}
    r1 = r1
    r2 = r2
    Requests = {r1, r2}
    Submissions <- TwoTurns
    Dropped = {a}
    Interrupters = {i1}
    Closer = Closer
    MaxOrdinal = 1
    MaxChunks = 1
    Capacity = 1
    None = None
CHECK_DEADLOCK FALSE
INVARIANTS SingleSpeaker LedgerIsSound
PROPERTIES CancellationIsExact SpeakIsAnswered
