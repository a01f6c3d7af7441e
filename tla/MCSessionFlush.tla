-------------------------- MODULE MCSessionFlush --------------------------
\* Model checking of SessionFlush: the signals each goroutine changes.
EXTENDS SessionFlush

\* The handlers change every signal, the other goroutines all but one.
OneForHandlers ==
    LET own == CHOOSE n \in Nodes : TRUE
    IN  [g \in Goroutines |-> IF g = Reader THEN Nodes ELSE Nodes \ {own}]
=============================================================================
