\* All orders of four changes and flushes, and a second connection.
CONSTANTS
    Page <- MCPage
    Top = "page"
    Signals = {"show", "detail"}
    Values = {"", "a", "b"}
    Start <- MCStart
    MaxChanges = 4
    MaxConnections = 2
SPECIFICATION Spec
INVARIANTS
    NothingMissing
    NoCopies
    OnlyTextsLeak
    BindingsFollow
\* All changes have been made.
CHECK_DEADLOCK FALSE
