SPECIFICATION CallReplySpec
CONSTANTS
    MaxAttempts = 2
    MaxPrefix = 4
    MinVisible = 2
    MaxWords = 3
    MinWords = 2
    MaxText = 7
    MaxChunk = 2
    Margin = 4
    MaxTokens = 2
    Limits = {20}
    Overhead = 1
    Lengths = {2, 7}
    MaxHistory = 3
    MaxExamples = 2
    Correction = 4
    NoThink = 2
    OfferMessages = 5
    OfferLength = 8
CHECK_DEADLOCK FALSE
INVARIANTS PromptIsRight GuardHolds PhrasesCutTheReply
