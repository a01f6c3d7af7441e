\* Two goroutines, and an observer that changes the list itself.
CONSTANTS
    Goroutines = {g1, g2}
    Observers = {o1, o2}
    Setters = {o1}
    Values = {0, 1}
    MaxChanges = 2
SPECIFICATION FairSpec
INVARIANTS
    EveryChangeToldOnce
    LastToldIsCurrent
PROPERTY CallsReturn
\* All changes have been made.
CHECK_DEADLOCK FALSE
