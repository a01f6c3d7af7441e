--------------------------- MODULE MCKeyedList ---------------------------
\* Model checking of KeyedList: the first page shows an empty list.
EXTENDS KeyedList

NoItems == <<>>

\* From the empty list on the keys are interchangeable.
Symmetry == Permutations(Keys)
=============================================================================
