\* The host of Go: a blocked callback stops the event loop.
CONSTANTS
    QueueSize = 2
    BlockedCallbackStopsEvents = TRUE
    MaxIntents = 1
    MaxLosses = 1
    MaxLives = 1
SPECIFICATION FairSpec
PROPERTY ReconnectDecides
\* The user may stop, and the client may have given up.
CHECK_DEADLOCK FALSE
