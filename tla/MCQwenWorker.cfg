\* Two streams, a cancel and two controls over at most two processes.
CONSTANTS
    None = None
    o1 = o1
    o2 = o2
    Requests = {r1, r2}
    Controls = {o1, o2}
    Does <- PrepareAndEvict
    Cancels = {c1}
    Voices = {v1}
    MaxWorkers = 2
    MaxChunks = 1
    MaxEvents = 5
    PendingLimit = 1
SPECIFICATION FairSpec
CHECK_DEADLOCK FALSE
INVARIANTS OneGeneration PipesAreSound
PROPERTIES ReturnsAreHonest CallsReturn
