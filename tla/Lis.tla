-------------------------------- MODULE Lis --------------------------------
(***************************************************************************)
(* lisIndices of pkg/dom/reactive.go: which of the surviving items of a    *)
(* keyed list stay where they are.  Indices count from 1 here and from 0 in*)
(* the code; 0 stands for the code's -1.                                   *)
(***************************************************************************)
EXTENDS Integers, Sequences, FiniteSets

\* The binary search for the leftmost tail that is not below val: how many
\* tails are.
LowerBound(tails, val) ==
    LET search[r \in (0 .. Len(tails)) \X (0 .. Len(tails))] ==
            LET lo == r[1]  hi == r[2]  mid == (lo + hi) \div 2
            IN  IF lo >= hi THEN lo
                ELSE IF tails[mid + 1] < val THEN search[<<mid + 1, hi>>]
                ELSE search[<<lo, mid>>]
    IN  search[<<0, Len(tails)>>]

\* The sequence s with val at index l, which may be one past its end.
Put(s, l, val) == [m \in 1 .. (IF l > Len(s) THEN l ELSE Len(s)) |->
                      IF m = l THEN val ELSE s[m]]

\* Mutant: a tail that is replaced keeps its old index.
PlaceTailOldIndex(st, i, val) ==
    LET lo == LowerBound(st.tails, val)
    IN  [tails   |-> Put(st.tails, lo + 1, val),
         tailIdx |-> IF lo = Len(st.tails) THEN Append(st.tailIdx, i) ELSE st.tailIdx,
         prev    |-> Append(st.prev, IF lo > 0 THEN st.tailIdx[lo] ELSE 0)]

\* One iteration of the loop, for the value at index i.  tails[l] is the
\* smallest tail of an increasing subsequence of length l, tailIdx[l] the
\* index of that value, and prev[i] the index before i in the subsequence.
PlaceTail(st, i, val) ==
    LET lo == LowerBound(st.tails, val)
    IN  [tails   |-> Put(st.tails, lo + 1, val),
         tailIdx |-> Put(st.tailIdx, lo + 1, i),
         prev    |-> Append(st.prev, IF lo > 0 THEN st.tailIdx[lo] ELSE 0)]

\* The loop: what is known after the first i values.
Tails(positions) ==
    LET after[i \in 0 .. Len(positions)] ==
            IF i = 0 THEN [tails |-> <<>>, tailIdx |-> <<>>, prev |-> <<>>]
            ELSE PlaceTail(after[i - 1], i, positions[i])
    IN  after[Len(positions)]

\* The indices that inLIS marks: the last tail and its predecessors.
lisIndices(positions) ==
    LET st == Tails(positions)
        chain[k \in 0 .. Len(positions)] ==
            IF k = 0 THEN {} ELSE {k} \cup chain[st.prev[k]]
    IN  IF positions = <<>> THEN {} ELSE chain[st.tailIdx[Len(st.tailIdx)]]

-----------------------------------------------------------------------------
\* The reference: the sets of indices whose values increase.
Increasing(positions, S) ==
    \A i, j \in S : i < j => positions[i] < positions[j]

IncreasingSets(positions) ==
    {S \in SUBSET (1 .. Len(positions)) : Increasing(positions, S)}
=============================================================================
