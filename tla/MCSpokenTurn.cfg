\* Replies of up to three requests with two chunks each, a queue of one, a track that
\* holds less than two chunks, two cancellations of the stream.
SPECIFICATION SpokenFair
CONSTANTS
    QueueCapacity = 1
    MaxSegments = 2
    MaxCancels = 2
    Credit = 3
    FrameSize = 3
    ChunkSize = 2
    MaxChunks = 2
    StartChunks = 2
    None = None
CHECK_DEADLOCK FALSE
INVARIANTS WholeReplySpoken ReplyIsHeard
PROPERTIES TurnEndsClean StoppedIsQuiet ReplyEnds
