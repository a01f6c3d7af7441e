\* Two lost connections, one reload; the host that reconnect expects.
CONSTANTS
    QueueSize = 2
    BlockedCallbackStopsEvents = FALSE
    MaxIntents = 5
    MaxLosses = 2
    MaxLives = 2
SPECIFICATION Spec
INVARIANTS
    FirstOutageInOrder
    IntentsAccounted
\* The user may stop, and the client may have given up.
CHECK_DEADLOCK FALSE
