\* A token takes one tick and a half; the cache holds one path.
CONSTANTS
    Burst = 2
    Unit = 3
    Rate = 2
    MaxTime = 2
    Links = {l1, l2}
    CacheLimit = 1
    MaxChallenges = 2
    MaxMessages = 3
SPECIFICATION IntentSpec
INVARIANTS
    WindowBound
    NoCreditLost
    OneVerdictPerChallenge
    AssertionsJudged
PROPERTY RequestsAnswered
\* All messages have been sent.
CHECK_DEADLOCK FALSE
