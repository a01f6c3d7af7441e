\* A goroutine runs beside the handlers; one signal is changed by both.
CONSTANTS
    Nodes = {n1, n2}
    Background = {ticker}
    Reader = reader
    Sets <- OneForHandlers
    MaxVersion = 2
    MaxIntents = 2
SPECIFICATION FairSpec
INVARIANTS
    NoLostUpdate
    UnflushedOnlyAfterPanic
PROPERTY HandlerUpdateArrives
\* The user may do nothing more.
CHECK_DEADLOCK FALSE
