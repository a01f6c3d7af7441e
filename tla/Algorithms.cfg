\* Messages on both sides of every limit, and up to three frames in a buffer.
CONSTANTS
    Base = 4
    ChallengeSize = 2
    Single <- AllMessages
    Several <- FewMessages
    MaxMessages = 3
    CoordinateSize = 2
    MinKeySize = 4
SPECIFICATION AlgorithmsSpec
INVARIANTS
    DiffFollows
    KeyParsed
    ExactLimits
    StreamIntact
\* The buffer is complete.
CHECK_DEADLOCK FALSE
