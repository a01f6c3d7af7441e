-------------------------- MODULE KeyedListProofs --------------------------
(***************************************************************************)
(* Proofs about Lis and KeyedList: for every list of numbers, and for any  *)
(* keys, any bulk threshold, and any number of changes before a flush.     *)
(***************************************************************************)
EXTENDS KeyedList, WellFoundedInduction, FiniteSetTheorems, SequenceTheorems, TLAPS

(***************************************************************************)
(* Numbers, sequences, and the longest increasing subsequence.             *)
(***************************************************************************)

\* A set of natural numbers has a least element, and a bounded one a greatest.
LEMMA LeastNumber ==
  ASSUME NEW T, T \subseteq Nat, T # {}
  PROVE  \E x \in T : \A y \in T : x <= y
<1>1. PICK x \in T : \A y \in T : ~(<<y, x>> \in OpToRel(<, Nat))
  <2>1. IsWellFoundedOn(OpToRel(<, Nat), Nat)
    BY NatLessThanWellFounded
  <2>2. QED
    BY <2>1, WFMin
<1>2. ASSUME NEW y \in T PROVE x <= y
  <2>1. <<y, x>> \in Nat \X Nat /\ x \in Nat /\ y \in Nat
    OBVIOUS
  <2>2. ~(y < x)
    BY <1>1, <2>1 DEF OpToRel
  <2>3. QED
    BY <2>1, <2>2
<1>3. QED
  BY <1>2

\* Induction: a set of numbers with 0 and the successor of each of its elements.
LEMMA AllNumbers ==
  ASSUME NEW T, 0 \in T, \A n \in Nat : n \in T => n + 1 \in T
  PROVE  \A n \in Nat : n \in T
<1> SUFFICES ASSUME Nat \ T # {} PROVE FALSE
  OBVIOUS
<1>1. PICK n \in Nat \ T : \A m \in Nat \ T : n <= m
  BY LeastNumber
<1>2. n - 1 \in Nat /\ n - 1 \in T
  BY <1>1
<1>3. QED
  BY <1>1, <1>2

\* A bounded set of natural numbers has a greatest element.
LEMMA GreatestNumber ==
  ASSUME NEW n \in Nat, NEW T, T \subseteq 0 .. n, T # {}
  PROVE  \E x \in T : \A y \in T : y <= x
<1> DEFINE U == {n - x : x \in T}
<1>1. U \subseteq Nat /\ U # {}
  <2>1. PICK z : z \in T
    OBVIOUS
  <2>2. n - z \in U
    BY <2>1
  <2>3. \A x \in T : n - x \in Nat
    OBVIOUS
  <2>4. QED
    BY <2>2, <2>3
<1> HIDE DEF U
<1>2. PICK u \in U : \A v \in U : u <= v
  BY <1>1, LeastNumber
<1>3. PICK x \in T : u = n - x
  BY DEF U
<1>4. ASSUME NEW y \in T PROVE y <= x
  <2>1. n - y \in U
    BY DEF U
  <2>2. n - x <= n - y /\ x \in Int /\ y \in Int
    BY <1>2, <1>3, <2>1
  <2>3. QED
    BY <2>2
<1>5. QED
  BY <1>4

(***************************************************************************)
(* The binary search.                                                      *)
(***************************************************************************)

\* The tails increase.
Sorted(tails) == \A l, m \in 1 .. Len(tails) : l < m => tails[l] < tails[m]

\* The binary search over lo and hi, as an equation.
Ranges(tails) == (0 .. Len(tails)) \X (0 .. Len(tails))
IsSearch(tails, val, f) ==
    f = [r \in Ranges(tails) |->
            LET lo == r[1]  hi == r[2]  mid == (lo + hi) \div 2
            IN  IF lo >= hi THEN lo
                ELSE IF tails[mid + 1] < val THEN f[<<mid + 1, hi>>]
                ELSE f[<<lo, mid>>]]

\* There are b tails below val.
Below(tails, val, b) ==
    /\ b \in 0 .. Len(tails)
    /\ \A m \in 1 .. Len(tails) : tails[m] < val <=> m <= b

\* One step of the binary search: it goes on in the half that mid leaves.
LEMMA SearchEquation ==
  ASSUME NEW tails, Len(tails) \in Nat, NEW val, NEW f, IsSearch(tails, val, f),
         NEW lo \in 0 .. Len(tails), NEW hi \in 0 .. Len(tails)
  PROVE  f[<<lo, hi>>] =
             IF lo >= hi THEN lo
             ELSE IF tails[(lo + hi) \div 2 + 1] < val
                  THEN f[<<(lo + hi) \div 2 + 1, hi>>]
             ELSE f[<<lo, (lo + hi) \div 2>>]
BY DEF IsSearch, Ranges

\* The middle of a range lies in it, so that both halves are shorter.
LEMMA Middle ==
  ASSUME NEW lo \in Nat, NEW hi \in Nat, lo < hi
  PROVE  /\ (lo + hi) \div 2 \in Nat
         /\ lo <= (lo + hi) \div 2 /\ (lo + hi) \div 2 + 1 <= hi
OBVIOUS

\* In sorted tails, those below a value are the first ones.
LEMMA BelowExists ==
  ASSUME NEW tails \in Seq(Int), Sorted(tails), NEW val \in Int
  PROVE  \E b : Below(tails, val, b)
<1> DEFINE T == {b \in 0 .. Len(tails) : \A m \in 1 .. b : tails[m] < val}
<1>1. Len(tails) \in Nat /\ \A m \in 1 .. Len(tails) : tails[m] \in Int
  OBVIOUS
<1>2. 0 \in T
  BY <1>1
<1>3. PICK b \in T : \A c \in T : c <= b
  <2>1. T \subseteq 0 .. Len(tails) /\ T # {}
    BY <1>2
  <2> HIDE DEF T
  <2>2. QED
    BY <1>1, <2>1, GreatestNumber
<1>4. ASSUME NEW m \in 1 .. Len(tails), tails[m] < val PROVE m <= b
  <2>1. ASSUME NEW k \in 1 .. m PROVE tails[k] < val
    BY <1>1, <1>4, <2>1 DEF Sorted
  <2>2. m \in T
    BY <1>1, <2>1
  <2>3. QED
    BY <1>3, <2>2
<1>5. ASSUME NEW m \in 1 .. Len(tails), m <= b PROVE tails[m] < val
  BY <1>1, <1>5
<1>6. QED
  BY <1>4, <1>5 DEF Below

\* The equation of the search has a solution.
LEMMA SearchExists ==
  ASSUME NEW tails \in Seq(Int), NEW val \in Int, NEW b, Below(tails, val, b)
  PROVE  \E f : IsSearch(tails, val, f)
<1> DEFINE g == [r \in Ranges(tails) |-> IF r[1] >= r[2] \/ b <= r[1] THEN r[1]
                                         ELSE IF b >= r[2] THEN r[2] ELSE b]
<1>1. Len(tails) \in Nat /\ b \in 0 .. Len(tails)
  BY DEF Below
<1>2. ASSUME NEW r \in Ranges(tails)
      PROVE  g[r] = LET lo == r[1]  hi == r[2]  mid == (lo + hi) \div 2
                    IN  IF lo >= hi THEN lo
                        ELSE IF tails[mid + 1] < val THEN g[<<mid + 1, hi>>]
                        ELSE g[<<lo, mid>>]
  <2>1. PICK lo \in 0 .. Len(tails), hi \in 0 .. Len(tails) : r = <<lo, hi>>
    BY DEF Ranges
  <2>2. CASE lo >= hi
    BY <2>1, <2>2
  <2>3. CASE lo < hi
    <3>1. PICK mid : mid = (lo + hi) \div 2
      OBVIOUS
    <3>2. mid \in Nat /\ lo <= mid /\ mid + 1 <= hi
      BY <2>1, <2>3, <3>1, Middle
    <3>3. <<mid + 1, hi>> \in Ranges(tails) /\ <<lo, mid>> \in Ranges(tails)
      BY <1>1, <3>2 DEF Ranges
    <3>4. tails[mid + 1] < val <=> mid + 1 <= b
      BY <1>1, <3>2 DEF Below
    <3>5. CASE mid + 1 <= b
      BY <1>1, <2>1, <2>3, <3>1, <3>2, <3>3, <3>4, <3>5
    <3>6. CASE ~(mid + 1 <= b)
      <4>1. g[r] = IF b <= lo THEN lo ELSE IF b >= hi THEN hi ELSE b
        BY <2>1, <2>3
      <4>2. g[<<lo, mid>>] = IF lo >= mid \/ b <= lo THEN lo ELSE IF b >= mid THEN mid ELSE b
        BY <3>3
      <4>3. g[r] = g[<<lo, mid>>]
        BY <1>1, <2>1, <2>3, <3>2, <3>6, <4>1, <4>2
      <4> HIDE DEF g
      <4>4. QED
        BY <2>1, <2>3, <3>1, <3>4, <3>6, <4>3
    <3>7. QED
      BY <3>5, <3>6
  <2>4. QED
    BY <1>1, <2>2, <2>3
<1>3. g = [r \in Ranges(tails) |->
             LET lo == r[1]  hi == r[2]  mid == (lo + hi) \div 2
             IN  IF lo >= hi THEN lo
                 ELSE IF tails[mid + 1] < val THEN g[<<mid + 1, hi>>]
                 ELSE g[<<lo, mid>>]]
  BY <1>2
<1>4. IsSearch(tails, val, g)
  BY <1>3 DEF IsSearch
<1>5. QED
  BY <1>4

\* Whatever solves it finds b from every range around it.
LEMMA SearchFinds ==
  ASSUME NEW tails \in Seq(Int), NEW val \in Int, NEW b, Below(tails, val, b),
         NEW f, IsSearch(tails, val, f)
  PROVE  f[<<0, Len(tails)>>] = b
<1> DEFINE T == {d \in Nat : \A lo, hi \in 0 .. Len(tails) :
                                 lo <= b /\ b <= hi /\ hi - lo <= d => f[<<lo, hi>>] = b}
<1>1. Len(tails) \in Nat /\ b \in 0 .. Len(tails)
  BY DEF Below
<1>2. 0 \in T
  <2>1. ASSUME NEW lo \in 0 .. Len(tails), NEW hi \in 0 .. Len(tails),
               lo <= b /\ b <= hi /\ hi - lo <= 0
        PROVE  f[<<lo, hi>>] = b
    <3>1. lo >= hi /\ lo = b
      BY <1>1, <2>1
    <3>2. f[<<lo, hi>>] = lo
      BY <1>1, <3>1, SearchEquation
    <3>3. QED
      BY <3>1, <3>2
  <2>2. QED
    BY <2>1
<1>3. ASSUME NEW d \in Nat, d \in T PROVE d + 1 \in T
  <2>1. ASSUME NEW lo \in 0 .. Len(tails), NEW hi \in 0 .. Len(tails),
               lo <= b /\ b <= hi /\ hi - lo <= d + 1
        PROVE  f[<<lo, hi>>] = b
    <3>1. CASE lo >= hi
      <4>1. f[<<lo, hi>>] = lo
        BY <1>1, <3>1, SearchEquation
      <4>2. QED
        BY <1>1, <2>1, <3>1, <4>1
    <3>2. CASE lo < hi
      <4>1. PICK mid : mid = (lo + hi) \div 2
        OBVIOUS
      <4>2. mid \in Nat /\ lo <= mid /\ mid + 1 <= hi
        BY <3>2, <4>1, Middle
      <4>3. tails[mid + 1] < val <=> mid + 1 <= b
        BY <1>1, <4>2 DEF Below
      <4>4. f[<<lo, hi>>] = IF tails[mid + 1] < val THEN f[<<mid + 1, hi>>] ELSE f[<<lo, mid>>]
        BY <1>1, <3>2, <4>1, SearchEquation
      <4>5. CASE mid + 1 <= b
        <5>1. mid + 1 \in 0 .. Len(tails) /\ hi - (mid + 1) <= d
          BY <1>1, <2>1, <4>2
        <5>2. f[<<mid + 1, hi>>] = b
          BY <1>3, <2>1, <4>5, <5>1
        <5>3. QED
          BY <4>3, <4>4, <4>5, <5>2
      <4>6. CASE ~(mid + 1 <= b)
        <5>1. mid \in 0 .. Len(tails) /\ b <= mid /\ mid - lo <= d
          BY <1>1, <2>1, <4>2, <4>6
        <5>2. f[<<lo, mid>>] = b
          BY <1>3, <2>1, <5>1
        <5>3. QED
          BY <4>3, <4>4, <4>6, <5>2
      <4>7. QED
        BY <4>5, <4>6
    <3>3. QED
      BY <1>1, <3>1, <3>2
  <2>2. QED
    BY <2>1
<1>4. Len(tails) \in T
  <2> HIDE DEF T
  <2>1. \A n \in Nat : n \in T
    BY <1>2, <1>3, AllNumbers
  <2>2. QED
    BY <1>1, <2>1
<1>5. QED
  BY <1>1, <1>4

\* LowerBound is the number of tails below val.
LEMMA LowerBoundExact ==
  ASSUME NEW tails \in Seq(Int), Sorted(tails), NEW val \in Int
  PROVE  Below(tails, val, LowerBound(tails, val))
<1>1. PICK b : Below(tails, val, b)
  BY BelowExists
<1>2. PICK f : IsSearch(tails, val, f) /\ f = CHOOSE g : IsSearch(tails, val, g)
  BY <1>1, SearchExists
<1>3. LowerBound(tails, val) = (CHOOSE g : IsSearch(tails, val, g))[<<0, Len(tails)>>]
  BY DEF LowerBound, IsSearch, Ranges
<1>4. QED
  BY <1>1, <1>2, <1>3, SearchFinds

(***************************************************************************)
(* The loop of lisIndices.                                                 *)
(***************************************************************************)

\* What Put returns.
PutAt(S, s, l, v, new) ==
    /\ new \in Seq(S)
    /\ Len(new) = IF l > Len(s) THEN l ELSE Len(s)
    /\ \A m \in 1 .. Len(new) : new[m] = IF m = l THEN v ELSE s[m]

\* Put replaces one element of a sequence, or appends one.
LEMMA PutFacts ==
  ASSUME NEW S, NEW s \in Seq(S), NEW l \in 1 .. Len(s) + 1, NEW v \in S
  PROVE  PutAt(S, s, l, v, Put(s, l, v))
<1> DEFINE n == IF l > Len(s) THEN l ELSE Len(s)
<1>1. Len(s) \in Nat /\ n \in Nat /\ l \in 1 .. n
  OBVIOUS
<1>2. \A m \in 1 .. n : m # l => m \in 1 .. Len(s) /\ s[m] \in S
  OBVIOUS
<1>3. Put(s, l, v) = [m \in 1 .. n |-> IF m = l THEN v ELSE s[m]]
  BY DEF Put
<1> HIDE DEF n
<1>4. [m \in 1 .. n |-> IF m = l THEN v ELSE s[m]] \in Seq(S)
  BY <1>1, <1>2
<1>5. Len([m \in 1 .. n |-> IF m = l THEN v ELSE s[m]]) = n
  BY <1>1
<1>6. QED
  BY <1>1, <1>3, <1>4, <1>5 DEF n, PutAt

\* The elements of a sequence over S are in S.
LEMMA ElementOf ==
  ASSUME NEW S, NEW s \in Seq(S)
  PROVE  Len(s) \in Nat /\ \A l \in 1 .. Len(s) : s[l] \in S
OBVIOUS

\* The loop over the values, as an equation.
IsTails(p, n, f) ==
    f = [i \in 0 .. n |->
            IF i = 0 THEN [tails |-> <<>>, tailIdx |-> <<>>, prev |-> <<>>]
            ELSE PlaceTail(f[i - 1], i, p[i])]

\* No increasing subsequence of the first i values is longer than the tails, or
\* ends lower than the tail of its length.
Best(p, i, tails) ==
    \A S \in SUBSET (1 .. i) : \A j \in S :
        Increasing(p, S) /\ (\A k \in S : k <= j) =>
            Cardinality(S) <= Len(tails) /\ tails[Cardinality(S)] <= p[j]

\* The links go back, to smaller values.
Linked(p, i, prev) ==
    \A j \in 1 .. i : /\ prev[j] \in 0 .. j - 1
                      /\ prev[j] # 0 => p[prev[j]] < p[j]

\* d is the length of the subsequence that ends at an index; the tail of each
\* length ends one of that length.
Depths(i, st, d) ==
    /\ d \in [0 .. i -> Nat]
    /\ d[0] = 0
    /\ \A j \in 1 .. i : d[j] = d[st.prev[j]] + 1
    /\ \A l \in 1 .. Len(st.tailIdx) : d[st.tailIdx[l]] = l

\* The invariant of the loop, after i values.
LoopInv(p, i, st) ==
    /\ st.tails \in Seq(Int) /\ st.tailIdx \in Seq(1 .. i) /\ st.prev \in Seq(Nat)
    /\ Len(st.prev) = i /\ Len(st.tailIdx) = Len(st.tails)
    /\ i > 0 => Len(st.tails) > 0
    /\ \A l \in 1 .. Len(st.tails) : st.tails[l] = p[st.tailIdx[l]]
    /\ Sorted(st.tails)
    /\ Linked(p, i, st.prev)
    /\ \E d : Depths(i, st, d)
    /\ Best(p, i, st.tails)

\* The loop of lisIndices starts with its invariant.
LEMMA LoopInit ==
  ASSUME NEW p \in Seq(Int)
  PROVE  LoopInv(p, 0, [tails |-> <<>>, tailIdx |-> <<>>, prev |-> <<>>])
<1> DEFINE st == [tails |-> <<>>, tailIdx |-> <<>>, prev |-> <<>>]
<1>1. st.tails = <<>> /\ st.tailIdx = <<>> /\ st.prev = <<>>
  OBVIOUS
<1> HIDE DEF st
<1>2. /\ st.tails \in Seq(Int) /\ st.tailIdx \in Seq(1 .. 0) /\ st.prev \in Seq(Nat)
      /\ Len(st.tails) = 0 /\ Len(st.tailIdx) = 0 /\ Len(st.prev) = 0
  BY <1>1
<1>3. Depths(0, st, [j \in 0 .. 0 |-> 0])
  BY <1>2 DEF Depths
<1>4. Best(p, 0, st.tails)
  BY DEF Best
<1>5. Sorted(st.tails) /\ Linked(p, 0, st.prev)
  BY <1>2 DEF Sorted, Linked
<1>6. LoopInv(p, 0, st)
  BY <1>2, <1>3, <1>4, <1>5 DEF LoopInv
<1>7. QED
  BY <1>6 DEF st

\* A subset of 1 .. n is finite.
LEMMA Indices ==
  ASSUME NEW n \in Nat, NEW S \in SUBSET (1 .. n)
  PROVE  /\ IsFiniteSet(S) /\ Cardinality(S) \in Nat /\ Cardinality(S) <= n
         /\ Cardinality(S) = 0 <=> S = {}
         /\ Cardinality(S) = n => S = 1 .. n
<1>1. IsFiniteSet(1 .. n) /\ Cardinality(1 .. n) = n
  BY FS_Interval
<1>2. IsFiniteSet(S) /\ Cardinality(S) <= Cardinality(1 .. n)
      /\ (Cardinality(1 .. n) = Cardinality(S) => 1 .. n = S)
  BY <1>1, FS_Subset
<1>3. Cardinality(S) \in Nat /\ (Cardinality(S) = 0 <=> S = {})
  BY <1>2, FS_CardinalityType, FS_EmptySet
<1>4. QED
  BY <1>1, <1>2, <1>3

\* What the invariant says of each tail and each link.
TailFacts(p, i, st) ==
    /\ st.tails \in Seq(Int) /\ st.tailIdx \in Seq(1 .. i) /\ st.prev \in Seq(Nat)
    /\ Len(st.tails) \in Nat /\ Len(st.tailIdx) = Len(st.tails) /\ Len(st.prev) = i
    /\ \A l \in 1 .. Len(st.tails) : /\ st.tails[l] \in Int /\ st.tailIdx[l] \in 1 .. i
                                     /\ st.tails[l] = p[st.tailIdx[l]]
    /\ \A j \in 1 .. i : /\ st.prev[j] \in 0 .. j - 1
                         /\ st.prev[j] # 0 => p[st.prev[j]] < p[j]
    /\ Sorted(st.tails)

\* The invariant, spelled out for each tail and each link.
LEMMA LoopFacts ==
  ASSUME NEW p \in Seq(Int), NEW i \in Nat, NEW st, LoopInv(p, i, st)
  PROVE  TailFacts(p, i, st)
<1>1. /\ st.tails \in Seq(Int) /\ st.tailIdx \in Seq(1 .. i) /\ st.prev \in Seq(Nat)
      /\ Len(st.tailIdx) = Len(st.tails) /\ Len(st.prev) = i /\ Sorted(st.tails)
      /\ \A l \in 1 .. Len(st.tails) : st.tails[l] = p[st.tailIdx[l]]
      /\ Linked(p, i, st.prev)
  BY DEF LoopInv
<1>2. Len(st.tails) \in Nat
  BY <1>1
<1>3. \A l \in 1 .. Len(st.tails) : st.tails[l] \in Int /\ st.tailIdx[l] \in 1 .. i
  BY <1>1
<1>4. QED
  BY <1>1, <1>2, <1>3 DEF Linked, TailFacts

\* Append adds one element and keeps the others.
LEMMA AppendFacts ==
  ASSUME NEW S, NEW s \in Seq(S), NEW x \in S
  PROVE  /\ Append(s, x) \in Seq(S) /\ Len(Append(s, x)) = Len(s) + 1
         /\ \A j \in 1 .. Len(s) : Append(s, x)[j] = s[j]
         /\ Append(s, x)[Len(s) + 1] = x
OBVIOUS

\* What the step does.
StepFacts(p, i, st, new, b) ==
         /\ b \in 0 .. Len(st.tails) /\ Below(st.tails, p[i + 1], b)
         /\ new.tails \in Seq(Int) /\ new.tailIdx \in Seq(1 .. i + 1)
         /\ new.prev \in Seq(Nat) /\ Len(new.prev) = i + 1
         /\ Len(new.tails) = IF b = Len(st.tails) THEN b + 1 ELSE Len(st.tails)
         /\ Len(new.tailIdx) = Len(new.tails)
         /\ \A l \in 1 .. Len(new.tails) :
                /\ new.tails[l] = IF l = b + 1 THEN p[i + 1] ELSE st.tails[l]
                /\ new.tailIdx[l] = IF l = b + 1 THEN i + 1 ELSE st.tailIdx[l]
         /\ \A j \in 1 .. i : new.prev[j] = st.prev[j]
         /\ new.prev[i + 1] = IF b > 0 THEN st.tailIdx[b] ELSE 0

\* The step links its index to the tail before the one it puts.
LEMMA PlaceTailLinks ==
  ASSUME NEW p \in Seq(Int), NEW i \in Nat, i + 1 <= Len(p),
         NEW st, LoopInv(p, i, st), NEW new, new = PlaceTail(st, i + 1, p[i + 1]),
         NEW b, b = LowerBound(st.tails, p[i + 1])
  PROVE  StepFacts(p, i, st, new, b)
<1>1. /\ p[i + 1] \in Int /\ Len(st.tails) \in Nat /\ Len(st.tailIdx) = Len(st.tails)
      /\ st.tails \in Seq(Int) /\ Len(st.prev) = i /\ st.prev \in Seq(Nat)
      /\ \A l \in 1 .. Len(st.tails) : st.tailIdx[l] \in 1 .. i
  <2>1. i + 1 \in 1 .. Len(p)
    OBVIOUS
  <2>2. p[i + 1] \in Int
    BY <2>1
  <2>3. /\ st.tails \in Seq(Int) /\ st.tailIdx \in Seq(1 .. i) /\ st.prev \in Seq(Nat)
        /\ Len(st.tailIdx) = Len(st.tails) /\ Len(st.prev) = i
    BY DEF LoopInv
  <2>4. Len(st.tails) \in Nat /\ \A l \in 1 .. Len(st.tailIdx) : st.tailIdx[l] \in 1 .. i
    BY <2>3, ElementOf
  <2>5. QED
    BY <2>2, <2>3, <2>4
<1>2. Below(st.tails, p[i + 1], b)
  BY <1>1, LowerBoundExact DEF LoopInv
<1>3. b \in 0 .. Len(st.tails)
  BY <1>2 DEF Below
<1>4. /\ new.tails = Put(st.tails, b + 1, p[i + 1])
      /\ new.tailIdx = Put(st.tailIdx, b + 1, i + 1)
      /\ new.prev = Append(st.prev, IF b > 0 THEN st.tailIdx[b] ELSE 0)
  BY DEF PlaceTail
<1>5. st.tailIdx \in Seq(1 .. i + 1)
  BY DEF LoopInv
<1>6. b + 1 \in 1 .. Len(st.tails) + 1 /\ b + 1 \in 1 .. Len(st.tailIdx) + 1 /\ i + 1 \in 1 .. i + 1
  BY <1>1, <1>3
<1>7. /\ new.tails \in Seq(Int)
      /\ Len(new.tails) = IF b + 1 > Len(st.tails) THEN b + 1 ELSE Len(st.tails)
      /\ \A l \in 1 .. Len(new.tails) : new.tails[l] = IF l = b + 1 THEN p[i + 1] ELSE st.tails[l]
  <2>1. st.tails \in Seq(Int) /\ b + 1 \in 1 .. Len(st.tails) + 1 /\ p[i + 1] \in Int
    BY <1>1, <1>5, <1>6
  <2>2. PutAt(Int, st.tails, b + 1, p[i + 1], Put(st.tails, b + 1, p[i + 1]))
    BY <2>1, PutFacts
  <2>3. QED
    BY <1>1, <1>4, <2>2 DEF PutAt
<1>8. /\ new.tailIdx \in Seq(1 .. i + 1)
      /\ Len(new.tailIdx) = IF b + 1 > Len(st.tails) THEN b + 1 ELSE Len(st.tails)
      /\ \A l \in 1 .. Len(new.tailIdx) : new.tailIdx[l] = IF l = b + 1 THEN i + 1 ELSE st.tailIdx[l]
  <2>1. st.tailIdx \in Seq(1 .. i + 1) /\ b + 1 \in 1 .. Len(st.tailIdx) + 1 /\ i + 1 \in 1 .. i + 1
    BY <1>1, <1>5, <1>6
  <2>2. PutAt(1 .. i + 1, st.tailIdx, b + 1, i + 1, Put(st.tailIdx, b + 1, i + 1))
    BY <2>1, PutFacts
  <2>3. QED
    BY <1>1, <1>4, <2>2 DEF PutAt
<1>9. (IF b > 0 THEN st.tailIdx[b] ELSE 0) \in Nat
  <2>1. b > 0 => b \in 1 .. Len(st.tails)
    BY <1>1, <1>3
  <2>2. b > 0 => st.tailIdx[b] \in 1 .. i
    BY <1>1, <2>1
  <2>3. QED
    BY <2>2
<1>10. PICK q : q = IF b > 0 THEN st.tailIdx[b] ELSE 0
  OBVIOUS
<1>11. q \in Nat /\ new.prev = Append(st.prev, q)
  BY <1>4, <1>9, <1>10
<1>12. /\ new.prev \in Seq(Nat) /\ Len(new.prev) = i + 1
       /\ \A j \in 1 .. i : new.prev[j] = st.prev[j]
       /\ new.prev[i + 1] = q
  <2>1. /\ Append(st.prev, q) \in Seq(Nat) /\ Len(Append(st.prev, q)) = Len(st.prev) + 1
        /\ \A j \in 1 .. Len(st.prev) : Append(st.prev, q)[j] = st.prev[j]
        /\ Append(st.prev, q)[Len(st.prev) + 1] = q
    BY <1>1, <1>11, AppendFacts
  <2>2. QED
    BY <1>1, <1>11, <2>1
<1>13. Len(new.tails) = IF b = Len(st.tails) THEN b + 1 ELSE Len(st.tails)
  <2>1. Len(new.tails) = IF b + 1 > Len(st.tails) THEN b + 1 ELSE Len(st.tails)
    BY <1>7
  <2>2. b + 1 > Len(st.tails) <=> b = Len(st.tails)
    BY <1>1, <1>3
  <2>3. QED
    BY <2>1, <2>2
<1>14. Len(new.tailIdx) = Len(new.tails)
  BY <1>7, <1>8
<1>15. QED
  BY <1>2, <1>3, <1>7, <1>8, <1>10, <1>12, <1>13, <1>14 DEF StepFacts

\* No increasing subsequence ends lower than the tail of its length.
LEMMA PlaceTailBest ==
  ASSUME NEW p \in Seq(Int), NEW i \in Nat, i + 1 <= Len(p),
         NEW st, LoopInv(p, i, st), NEW new, new = PlaceTail(st, i + 1, p[i + 1])
  PROVE  Best(p, i + 1, new.tails)
<1>1. PICK b : b = LowerBound(st.tails, p[i + 1])
  OBVIOUS
<1>2. /\ b \in 0 .. Len(st.tails) /\ Below(st.tails, p[i + 1], b)
      /\ Len(new.tails) = IF b = Len(st.tails) THEN b + 1 ELSE Len(st.tails)
      /\ \A l \in 1 .. Len(new.tails) :
             new.tails[l] = IF l = b + 1 THEN p[i + 1] ELSE st.tails[l]
  BY <1>1, PlaceTailLinks DEF StepFacts
<1>3. Len(st.tails) \in Nat /\ \A l \in 1 .. Len(st.tails) : st.tails[l] \in Int
  BY LoopFacts DEF TailFacts
<1>4. Len(p) \in Nat /\ \A j \in 1 .. Len(p) : p[j] \in Int
  OBVIOUS
<1>5. SUFFICES ASSUME NEW S \in SUBSET (1 .. i + 1), NEW j \in S,
                      Increasing(p, S), \A k \in S : k <= j
               PROVE  Cardinality(S) <= Len(new.tails) /\ new.tails[Cardinality(S)] <= p[j]
  BY DEF Best
<1>6. IsFiniteSet(S) /\ Cardinality(S) \in Nat \ {0} /\ j \in 1 .. i + 1
  BY <1>5, Indices
<1>7. CASE j # i + 1
  <2>1. S \in SUBSET (1 .. i)
    BY <1>5, <1>6, <1>7
  <2>2. Cardinality(S) <= Len(st.tails) /\ st.tails[Cardinality(S)] <= p[j]
    BY <1>5, <2>1 DEF LoopInv, Best
  <2>3. Cardinality(S) = b + 1 => p[i + 1] <= st.tails[Cardinality(S)]
    BY <1>2, <1>3, <1>4, <1>6, <2>2 DEF Below
  <2>4. Cardinality(S) \in 1 .. Len(new.tails) /\ Cardinality(S) \in 1 .. Len(st.tails)
    BY <1>2, <1>3, <1>6, <2>2
  <2>5. p[j] \in Int /\ st.tails[Cardinality(S)] \in Int /\ p[i + 1] \in Int
    BY <1>3, <1>4, <1>6, <2>4
  <2>6. new.tails[Cardinality(S)] = IF Cardinality(S) = b + 1 THEN p[i + 1] ELSE st.tails[Cardinality(S)]
    BY <1>2, <2>4
  <2>7. QED
    BY <2>2, <2>3, <2>4, <2>5, <2>6
<1>8. CASE j = i + 1
  <2> DEFINE R == S \ {i + 1}
  <2>1. /\ IsFiniteSet(R) /\ Cardinality(R) = Cardinality(S) - 1
        /\ R \in SUBSET (1 .. i) /\ Increasing(p, R)
    <3>1. Cardinality(R) = Cardinality(S) - 1 /\ IsFiniteSet(R)
      BY <1>6, <1>8, FS_RemoveElement
    <3>2. R \in SUBSET (1 .. i)
      BY <1>5
    <3>3. Increasing(p, R)
      BY <1>5 DEF Increasing
    <3>4. QED
      BY <3>1, <3>2, <3>3
  <2>2. Cardinality(S) - 1 <= b
    <3>1. CASE R = {}
      <4>1. Cardinality(R) = 0
        BY <3>1, FS_EmptySet
      <4>2. QED
        BY <1>2, <1>6, <2>1, <4>1
    <3>2. CASE R # {}
      <4>1. PICK k \in R : \A m \in R : m <= k
        <5>1. R \subseteq 0 .. i
          BY <2>1
        <5> HIDE DEF R
        <5>2. QED
          BY <3>2, <5>1, GreatestNumber
      <4>2. Cardinality(R) <= Len(st.tails) /\ st.tails[Cardinality(R)] <= p[k]
        <5> HIDE DEF R
        <5>1. QED
          BY <2>1, <4>1 DEF LoopInv, Best
      <4>3. k \in 1 .. i /\ p[k] < p[i + 1]
        BY <1>5, <1>8, <2>1, <4>1 DEF Increasing
      <4>4. Cardinality(R) \in Nat \ {0}
        <5> HIDE DEF R
        <5>1. QED
          BY <2>1, <3>2, FS_CardinalityType, FS_EmptySet
      <4>5. Cardinality(R) \in 1 .. Len(st.tails)
        BY <1>3, <4>2, <4>4
      <4>6. st.tails[Cardinality(R)] < p[i + 1]
        BY <1>3, <1>4, <4>2, <4>3, <4>5
      <4>7. Cardinality(R) <= b
        BY <1>2, <4>5, <4>6 DEF Below
      <4>8. QED
        BY <2>1, <4>7
    <3>3. QED
      BY <3>1, <3>2
  <2>3. Cardinality(S) \in 1 .. Len(new.tails)
    BY <1>2, <1>3, <1>6, <2>2
  <2>4. Cardinality(S) # b + 1 => Cardinality(S) \in 1 .. Len(st.tails) /\ st.tails[Cardinality(S)] < p[i + 1]
    BY <1>2, <1>3, <1>6, <2>2 DEF Below
  <2>5. QED
    BY <1>2, <1>3, <1>4, <1>8, <2>3, <2>4
<1>9. QED
  BY <1>7, <1>8

\* The step keeps the invariant of the loop.
LEMMA PlaceTailKeeps ==
  ASSUME NEW p \in Seq(Int), NEW i \in Nat, i + 1 <= Len(p),
         NEW st, LoopInv(p, i, st)
  PROVE  LoopInv(p, i + 1, PlaceTail(st, i + 1, p[i + 1]))
<1>1. PICK new, b : new = PlaceTail(st, i + 1, p[i + 1]) /\ b = LowerBound(st.tails, p[i + 1])
  OBVIOUS
<1>2. /\ b \in 0 .. Len(st.tails) /\ Below(st.tails, p[i + 1], b)
      /\ new.tails \in Seq(Int) /\ new.tailIdx \in Seq(1 .. i + 1)
      /\ new.prev \in Seq(Nat) /\ Len(new.prev) = i + 1
      /\ Len(new.tails) = IF b = Len(st.tails) THEN b + 1 ELSE Len(st.tails)
      /\ Len(new.tailIdx) = Len(new.tails)
      /\ \A l \in 1 .. Len(new.tails) :
             /\ new.tails[l] = IF l = b + 1 THEN p[i + 1] ELSE st.tails[l]
             /\ new.tailIdx[l] = IF l = b + 1 THEN i + 1 ELSE st.tailIdx[l]
      /\ \A j \in 1 .. i : new.prev[j] = st.prev[j]
      /\ new.prev[i + 1] = IF b > 0 THEN st.tailIdx[b] ELSE 0
  <2>1. StepFacts(p, i, st, new, b)
    BY <1>1, PlaceTailLinks
  <2>2. QED
    BY <2>1 DEF StepFacts
<1>3. /\ Len(st.tails) \in Nat /\ Len(st.tailIdx) = Len(st.tails)
      /\ \A l \in 1 .. Len(st.tails) : /\ st.tails[l] \in Int /\ st.tailIdx[l] \in 1 .. i
                                       /\ st.tails[l] = p[st.tailIdx[l]]
      /\ \A j \in 1 .. i : /\ st.prev[j] \in 0 .. j - 1
                           /\ st.prev[j] # 0 => p[st.prev[j]] < p[j]
  <2>1. TailFacts(p, i, st)
    BY LoopFacts
  <2>2. QED
    BY <2>1 DEF TailFacts
<1>4. p[i + 1] \in Int /\ Len(p) \in Nat
  OBVIOUS
<1>sizes. /\ b \in Nat /\ b <= Len(st.tails) /\ Len(st.tails) \in Nat
          /\ Len(new.tails) = IF b = Len(st.tails) THEN b + 1 ELSE Len(st.tails)
          /\ b + 1 <= Len(new.tails)
  <2>1. b \in 0 .. Len(st.tails) /\ Len(st.tails) \in Nat
    BY <1>2, <1>3
  <2>2. Len(new.tails) = IF b = Len(st.tails) THEN b + 1 ELSE Len(st.tails)
    BY <1>2
  <2>3. QED
    BY <2>1, <2>2
<1>entries. \A l \in 1 .. Len(new.tails) :
                /\ new.tails[l] = IF l = b + 1 THEN p[i + 1] ELSE st.tails[l]
                /\ new.tailIdx[l] = IF l = b + 1 THEN i + 1 ELSE st.tailIdx[l]
  BY <1>2
<1>below. Below(st.tails, p[i + 1], b)
  BY <1>2
<1>5. Len(new.tails) > 0 /\ \A l \in 1 .. Len(new.tails) : l # b + 1 => l \in 1 .. Len(st.tails)
  BY <1>sizes
<1>6. \A l \in 1 .. Len(new.tails) : new.tails[l] = p[new.tailIdx[l]]
  <2>1. SUFFICES ASSUME NEW l \in 1 .. Len(new.tails) PROVE new.tails[l] = p[new.tailIdx[l]]
    OBVIOUS
  <2>2. CASE l = b + 1
    BY <1>entries, <2>2
  <2>3. CASE l # b + 1
    <3>1. l \in 1 .. Len(st.tails)
      BY <1>5, <2>3
    <3>2. st.tails[l] = p[st.tailIdx[l]]
      BY <1>3, <3>1
    <3>3. QED
      BY <1>entries, <2>3, <3>2
  <2>4. QED
    BY <2>2, <2>3
<1>7. Sorted(new.tails)
  <2>1. ASSUME NEW l \in 1 .. Len(new.tails), NEW m \in 1 .. Len(new.tails), l < m
        PROVE  new.tails[l] < new.tails[m]
    <3>1. CASE l = b + 1
      <4>1. m \in 1 .. Len(st.tails) /\ b + 1 \in 1 .. Len(st.tails) /\ b + 1 < m
        BY <1>sizes, <1>5, <2>1, <3>1
      <4>2. ~(st.tails[b + 1] < p[i + 1])
        BY <1>sizes, <1>below, <4>1 DEF Below
      <4>3. st.tails[b + 1] < st.tails[m]
        BY <4>1 DEF LoopInv, Sorted
      <4>4. st.tails[b + 1] \in Int /\ st.tails[m] \in Int
        BY <1>3, <4>1
      <4>5. p[i + 1] < st.tails[m]
        BY <1>4, <4>2, <4>3, <4>4
      <4>6. new.tails[l] = p[i + 1] /\ new.tails[m] = st.tails[m]
        BY <1>entries, <3>1, <4>1
      <4>7. QED
        BY <4>5, <4>6
    <3>2. CASE m = b + 1
      <4>1. l \in 1 .. Len(st.tails) /\ l <= b
        BY <1>sizes, <1>5, <2>1, <3>2
      <4>2. st.tails[l] < p[i + 1]
        BY <1>below, <4>1 DEF Below
      <4>3. new.tails[l] = st.tails[l] /\ new.tails[m] = p[i + 1]
        BY <1>entries, <1>sizes, <3>2, <4>1
      <4>4. QED
        BY <4>2, <4>3
    <3>3. CASE l # b + 1 /\ m # b + 1
      <4>1. l \in 1 .. Len(st.tails) /\ m \in 1 .. Len(st.tails)
        BY <1>5, <3>3
      <4>2. st.tails[l] < st.tails[m]
        BY <2>1, <4>1 DEF LoopInv, Sorted
      <4>3. QED
        BY <1>entries, <3>3, <4>2
    <3>4. QED
      BY <3>1, <3>2, <3>3
  <2>2. QED
    BY <2>1 DEF Sorted
<1>8. Linked(p, i + 1, new.prev)
  <2>1. ASSUME NEW j \in 1 .. i + 1
        PROVE  new.prev[j] \in 0 .. j - 1 /\ (new.prev[j] # 0 => p[new.prev[j]] < p[j])
    <3>1. CASE j # i + 1
      <4>1. j \in 1 .. i
        BY <3>1
      <4>2. QED
        BY <1>2, <4>1 DEF LoopInv, Linked
    <3>2. CASE j = i + 1 /\ b = 0
      BY <1>2, <3>2
    <3>3. CASE j = i + 1 /\ b > 0
      <4>1. b \in 1 .. Len(st.tails) /\ st.tails[b] < p[i + 1]
        BY <1>2, <1>3, <3>3 DEF Below
      <4>2. new.prev[j] = st.tailIdx[b] /\ st.tailIdx[b] \in 1 .. i /\ p[st.tailIdx[b]] = st.tails[b]
        BY <1>2, <1>3, <3>3, <4>1
      <4>3. QED
        BY <3>3, <4>1, <4>2
    <3>4. QED
      BY <1>2, <3>1, <3>2, <3>3
  <2>2. QED
    BY <2>1 DEF Linked
<1>9. \E d : Depths(i + 1, new, d)
  <2>1. PICK d : Depths(i, st, d)
    BY DEF LoopInv
  <2> DEFINE e == [j \in 0 .. i + 1 |-> IF j = i + 1 THEN b + 1 ELSE d[j]]
  <2>2. /\ e \in [0 .. i + 1 -> Nat] /\ e[i + 1] = b + 1
        /\ \A j \in 0 .. i : e[j] = d[j]
    <3>1. d \in [0 .. i -> Nat]
      BY <2>1 DEF Depths
    <3>2. \A j \in 0 .. i + 1 : j # i + 1 => j \in 0 .. i
      OBVIOUS
    <3>3. \A j \in 0 .. i : j \in 0 .. i + 1 /\ j # i + 1
      OBVIOUS
    <3>4. b + 1 \in Nat
      BY <1>sizes
    <3>5. QED
      BY <3>1, <3>2, <3>3, <3>4
  <2> HIDE DEF e
  <2>3. ASSUME NEW j \in 1 .. i PROVE e[j] = e[new.prev[j]] + 1
    <3>1. st.prev[j] \in 0 .. i /\ new.prev[j] = st.prev[j]
      <4>1. st.prev[j] \in 0 .. j - 1 /\ new.prev[j] = st.prev[j]
        BY <1>2, <1>3
      <4>2. QED
        BY <4>1
    <3>2. d[j] = d[st.prev[j]] + 1
      BY <2>1 DEF Depths
    <3>3. QED
      BY <2>2, <3>1, <3>2
  <2>4. e[i + 1] = e[new.prev[i + 1]] + 1
    <3>1. CASE b = 0
      BY <1>2, <2>1, <2>2, <3>1 DEF Depths
    <3>2. CASE b > 0
      <4>1. b \in 1 .. Len(st.tailIdx) /\ st.tailIdx[b] \in 1 .. i
        BY <1>2, <1>3, <3>2
      <4>2. d[st.tailIdx[b]] = b
        BY <2>1, <4>1 DEF Depths
      <4>3. e[st.tailIdx[b]] = b
        BY <2>2, <4>1, <4>2
      <4>4. QED
        BY <1>2, <2>2, <3>2, <4>3
    <3>3. QED
      BY <1>2, <3>1, <3>2
  <2>5. ASSUME NEW l \in 1 .. Len(new.tailIdx) PROVE e[new.tailIdx[l]] = l
    <3>1. CASE l = b + 1
      BY <1>2, <2>2, <3>1
    <3>2. CASE l # b + 1
      <4>1. l \in 1 .. Len(st.tailIdx) /\ st.tailIdx[l] \in 1 .. i /\ new.tailIdx[l] = st.tailIdx[l]
        BY <1>2, <1>3, <1>5, <3>2
      <4>2. QED
        BY <2>1, <2>2, <4>1 DEF Depths
    <3>3. QED
      BY <3>1, <3>2
  <2>6. e[0] = 0
    BY <2>1, <2>2 DEF Depths
  <2>7. \A j \in 1 .. i + 1 : e[j] = e[new.prev[j]] + 1
    <3>1. \A j \in 1 .. i + 1 : j # i + 1 => j \in 1 .. i
      OBVIOUS
    <3>2. QED
      BY <2>3, <2>4, <3>1
  <2>8. QED
    BY <2>2, <2>5, <2>6, <2>7 DEF Depths
<1>10. Best(p, i + 1, new.tails)
  BY <1>1, PlaceTailBest
<1>11. LoopInv(p, i + 1, new)
  BY <1>2, <1>5, <1>6, <1>7, <1>8, <1>9, <1>10 DEF LoopInv
<1>12. QED
  BY <1>1, <1>11

\* The loop has a result, and the invariant holds of it.
LEMMA TailsExact ==
  ASSUME NEW p \in Seq(Int)
  PROVE  LoopInv(p, Len(p), Tails(p))
<1> DEFINE T == {n \in Nat : n <= Len(p) =>
                     /\ \E f : IsTails(p, n, f)
                     /\ \A f : IsTails(p, n, f) => LoopInv(p, n, f[n])}
<1>1. 0 \in T
  <2>1. IsTails(p, 0, [i \in 0 .. 0 |-> [tails |-> <<>>, tailIdx |-> <<>>, prev |-> <<>>]])
    BY DEF IsTails
  <2>2. \A f : IsTails(p, 0, f) => f[0] = [tails |-> <<>>, tailIdx |-> <<>>, prev |-> <<>>]
    BY DEF IsTails
  <2>3. QED
    BY <2>1, <2>2, LoopInit
<1>2. ASSUME NEW n \in Nat, n \in T PROVE n + 1 \in T
  <2>1. SUFFICES ASSUME n + 1 <= Len(p)
                 PROVE  /\ \E f : IsTails(p, n + 1, f)
                        /\ \A f : IsTails(p, n + 1, f) => LoopInv(p, n + 1, f[n + 1])
    OBVIOUS
  <2>2. /\ \E f : IsTails(p, n, f)
        /\ \A f : IsTails(p, n, f) => LoopInv(p, n, f[n])
    BY <1>2, <2>1
  <2>3. \E f : IsTails(p, n + 1, f)
    <3>1. PICK g : IsTails(p, n, g)
      BY <2>2
    <3> DEFINE f == [i \in 0 .. n + 1 |->
                        IF i = n + 1 THEN PlaceTail(g[n], i, p[i]) ELSE g[i]]
    <3>2. ASSUME NEW i \in 0 .. n + 1
          PROVE  f[i] = IF i = 0 THEN [tails |-> <<>>, tailIdx |-> <<>>, prev |-> <<>>]
                        ELSE PlaceTail(f[i - 1], i, p[i])
      <4>1. CASE i = n + 1
        BY <4>1
      <4>2. CASE i \in 0 .. n
        BY <3>1, <4>2 DEF IsTails
      <4>3. QED
        BY <4>1, <4>2
    <3>3. f = [i \in 0 .. n + 1 |->
                  IF i = 0 THEN [tails |-> <<>>, tailIdx |-> <<>>, prev |-> <<>>]
                  ELSE PlaceTail(f[i - 1], i, p[i])]
      BY <3>2
    <3>4. IsTails(p, n + 1, f)
      BY <3>3 DEF IsTails
    <3>5. QED
      BY <3>4
  <2>4. ASSUME NEW f, IsTails(p, n + 1, f) PROVE LoopInv(p, n + 1, f[n + 1])
    <3> DEFINE g == [i \in 0 .. n |-> f[i]]
    <3>1. \A i \in 0 .. n + 1 :
              f[i] = IF i = 0 THEN [tails |-> <<>>, tailIdx |-> <<>>, prev |-> <<>>]
                     ELSE PlaceTail(f[i - 1], i, p[i])
      BY <2>4 DEF IsTails
    <3>2. ASSUME NEW i \in 0 .. n
          PROVE  g[i] = IF i = 0 THEN [tails |-> <<>>, tailIdx |-> <<>>, prev |-> <<>>]
                        ELSE PlaceTail(g[i - 1], i, p[i])
      BY <3>1
    <3>3. g = [i \in 0 .. n |->
                  IF i = 0 THEN [tails |-> <<>>, tailIdx |-> <<>>, prev |-> <<>>]
                  ELSE PlaceTail(g[i - 1], i, p[i])]
      BY <3>2
    <3>4. IsTails(p, n, g)
      BY <3>3 DEF IsTails
    <3>5. g[n] = f[n]
      OBVIOUS
    <3> HIDE DEF g
    <3>6. LoopInv(p, n, f[n])
      BY <2>2, <3>4, <3>5
    <3>7. f[n + 1] = PlaceTail(f[n], n + 1, p[n + 1])
      BY <3>1
    <3>8. QED
      BY <2>1, <3>6, <3>7, PlaceTailKeeps
  <2>5. QED
    BY <2>3, <2>4
<1>3. Len(p) \in T
  <2> HIDE DEF T
  <2>1. \A n \in Nat : n \in T
    BY <1>1, <1>2, AllNumbers
  <2>2. QED
    BY <2>1
<1>4. Tails(p) = (CHOOSE f : IsTails(p, Len(p), f))[Len(p)]
  BY DEF Tails, IsTails
<1>5. QED
  BY <1>3, <1>4

(***************************************************************************)
(* The marked indices: the last tail and its predecessors.                 *)
(***************************************************************************)

\* The indices that lie on the way back from an index, as an equation.
IsChain(prev, n, f) ==
    f = [k \in 0 .. n |-> IF k = 0 THEN {} ELSE {k} \cup f[prev[k]]]

\* The chain that ends at k: an increasing set of d[k] indices up to k.
ChainTo(p, k, S, len) ==
    /\ S \in SUBSET (1 .. k)
    /\ k > 0 => k \in S
    /\ Increasing(p, S)
    /\ IsFiniteSet(S) /\ Cardinality(S) = len

\* The links lead to smaller indices, so each index has a chain.
LEMMA ChainExists ==
  ASSUME NEW n \in Nat, NEW prev, \A j \in 1 .. n : prev[j] \in 0 .. j - 1
  PROVE  \E f : IsChain(prev, n, f)
<1> DEFINE T == {m \in Nat : m <= n => \E f : IsChain(prev, m, f)}
<1>1. 0 \in T
  <2>1. IsChain(prev, 0, [k \in 0 .. 0 |-> {}])
    BY DEF IsChain
  <2>2. QED
    BY <2>1
<1>2. ASSUME NEW m \in Nat, m \in T PROVE m + 1 \in T
  <2>1. SUFFICES ASSUME m + 1 <= n PROVE \E f : IsChain(prev, m + 1, f)
    OBVIOUS
  <2>2. PICK g : IsChain(prev, m, g)
    BY <1>2, <2>1
  <2> DEFINE f == [k \in 0 .. m + 1 |-> IF k = m + 1 THEN {k} \cup g[prev[k]] ELSE g[k]]
  <2>3. ASSUME NEW k \in 0 .. m + 1
        PROVE  f[k] = IF k = 0 THEN {} ELSE {k} \cup f[prev[k]]
    <3>1. k # 0 => prev[k] \in 0 .. m /\ prev[k] # m + 1
      BY <2>1
    <3>2. CASE k = m + 1
      BY <3>1, <3>2
    <3>3. CASE k \in 0 .. m
      <4>1. g[k] = IF k = 0 THEN {} ELSE {k} \cup g[prev[k]]
        BY <2>2, <3>3 DEF IsChain
      <4>2. f[k] = g[k]
        BY <3>3
      <4>3. k # 0 => f[prev[k]] = g[prev[k]]
        BY <3>1
      <4> HIDE DEF f
      <4>4. QED
        BY <4>1, <4>2, <4>3
    <3>4. QED
      BY <3>2, <3>3
  <2>4. f = [k \in 0 .. m + 1 |-> IF k = 0 THEN {} ELSE {k} \cup f[prev[k]]]
    BY <2>3
  <2>5. IsChain(prev, m + 1, f)
    BY <2>4 DEF IsChain
  <2>6. QED
    BY <2>5
<1>3. n \in T
  <2> HIDE DEF T
  <2>1. \A m \in Nat : m \in T
    BY <1>1, <1>2, AllNumbers
  <2>2. QED
    BY <2>1
<1>4. QED
  BY <1>3

\* The chain of an index is increasing and as long as its depth says.
LEMMA ChainFacts ==
  ASSUME NEW p \in Seq(Int), NEW st, LoopInv(p, Len(p), st),
         NEW d, Depths(Len(p), st, d), NEW f, IsChain(st.prev, Len(p), f)
  PROVE  \A k \in 0 .. Len(p) : ChainTo(p, k, f[k], d[k])
<1>1. Len(p) \in Nat /\ \A j \in 1 .. Len(p) : p[j] \in Int
  OBVIOUS
<1>2. \A j \in 1 .. Len(p) : /\ st.prev[j] \in 0 .. j - 1
                             /\ st.prev[j] # 0 => p[st.prev[j]] < p[j]
  BY <1>1, LoopFacts DEF TailFacts
<1>3. \A k \in 0 .. Len(p) : f[k] = IF k = 0 THEN {} ELSE {k} \cup f[st.prev[k]]
  BY DEF IsChain
<1>4. d[0] = 0 /\ \A j \in 1 .. Len(p) : d[j] = d[st.prev[j]] + 1
  BY DEF Depths
<1> DEFINE T == {n \in Nat : \A k \in 0 .. n : k <= Len(p) => ChainTo(p, k, f[k], d[k])}
<1>5. 0 \in T
  <2>1. 0 \in 0 .. Len(p)
    BY <1>1
  <2>2. f[0] = {}
    BY <1>3, <2>1
  <2>3. ChainTo(p, 0, {}, 0)
    BY FS_EmptySet DEF ChainTo, Increasing
  <2>4. ChainTo(p, 0, f[0], d[0])
    BY <1>4, <2>2, <2>3
  <2>5. \A k \in 0 .. 0 : k = 0
    OBVIOUS
  <2>6. QED
    BY <2>4, <2>5
<1>6. ASSUME NEW n \in Nat, n \in T PROVE n + 1 \in T
  <2>1. SUFFICES ASSUME n + 1 <= Len(p) PROVE ChainTo(p, n + 1, f[n + 1], d[n + 1])
    BY <1>6
  <2>2. PICK j : j = st.prev[n + 1]
    OBVIOUS
  <2>3. j \in 0 .. n /\ (j # 0 => p[j] < p[n + 1]) /\ j <= Len(p)
    BY <1>1, <1>2, <2>1, <2>2
  <2>4. ChainTo(p, j, f[j], d[j])
    BY <1>6, <2>3
  <2>5. f[n + 1] = {n + 1} \cup f[j] /\ d[n + 1] = d[j] + 1
    <3>1. n + 1 \in 1 .. Len(p) /\ n + 1 \in 0 .. Len(p) /\ n + 1 # 0
      BY <1>1, <2>1
    <3>2. d[n + 1] = d[j] + 1
      BY <1>4, <2>2, <3>1
    <3>3. f[n + 1] = IF n + 1 = 0 THEN {} ELSE {n + 1} \cup f[st.prev[n + 1]]
      BY <1>3, <3>1
    <3>4. QED
      BY <2>2, <3>1, <3>2, <3>3
  <2>6. f[j] \in SUBSET (1 .. j) /\ n + 1 \notin f[j]
    BY <2>3, <2>4 DEF ChainTo
  <2>7. f[n + 1] \in SUBSET (1 .. n + 1) /\ n + 1 \in f[n + 1]
    BY <2>3, <2>5, <2>6
  <2>8. IsFiniteSet(f[n + 1]) /\ Cardinality(f[n + 1]) = d[n + 1]
    <3>1. IsFiniteSet(f[j]) /\ Cardinality(f[j]) = d[j]
      BY <2>4 DEF ChainTo
    <3>2. IsFiniteSet(f[j] \cup {n + 1}) /\ Cardinality(f[j] \cup {n + 1}) = Cardinality(f[j]) + 1
      BY <2>6, <3>1, FS_AddElement
    <3>3. f[n + 1] = f[j] \cup {n + 1}
      BY <2>5
    <3>4. QED
      BY <2>5, <3>1, <3>2, <3>3
  <2>9. Increasing(p, f[n + 1])
    <3>1. SUFFICES ASSUME NEW a \in f[n + 1], NEW b \in f[n + 1], a < b PROVE p[a] < p[b]
      BY DEF Increasing
    <3>2. a \in f[j]
      BY <2>5, <2>7, <3>1
    <3>3. CASE b \in f[j]
      BY <2>4, <3>1, <3>2, <3>3 DEF ChainTo, Increasing
    <3>4. CASE b = n + 1
      <4>1. j > 0 /\ j \in f[j] /\ a \in 1 .. j
        BY <2>3, <2>4, <2>6, <3>2 DEF ChainTo
      <4>2. a < j => p[a] < p[j]
        BY <2>4, <3>2, <4>1 DEF ChainTo, Increasing
      <4>3. p[a] \in Int /\ p[j] \in Int /\ p[n + 1] \in Int /\ p[j] < p[n + 1]
        BY <1>1, <2>1, <2>3, <4>1
      <4>4. a = j \/ a < j
        BY <2>3, <4>1
      <4>5. QED
        BY <3>4, <4>2, <4>3, <4>4
    <3>5. QED
      BY <2>5, <3>3, <3>4
  <2>10. QED
    BY <2>7, <2>8, <2>9 DEF ChainTo
<1>7. Len(p) \in T
  <2> HIDE DEF T
  <2>1. \A n \in Nat : n \in T
    BY <1>5, <1>6, AllNumbers
  <2>2. QED
    BY <1>1, <2>1
<1>8. QED
  BY <1>7

\* lisIndices (pkg/dom/reactive.go), with its binary search over the tails and its
\* links back, marks a longest increasing subsequence of any list of numbers: the
\* marked values increase, and no increasing subsequence has more.
THEOREM LisCorrect ==
  ASSUME NEW p \in Seq(Int)
  PROVE  /\ lisIndices(p) \in IncreasingSets(p)
         /\ \A S \in IncreasingSets(p) : Cardinality(S) <= Cardinality(lisIndices(p))
<1>1. PICK st : st = Tails(p)
  OBVIOUS
<1>2. LoopInv(p, Len(p), st)
  BY <1>1, TailsExact
<1>3. Len(p) \in Nat
  OBVIOUS
<1>4. TailFacts(p, Len(p), st)
  BY <1>2, <1>3, LoopFacts
<1>5. PICK d : Depths(Len(p), st, d)
  BY <1>2 DEF LoopInv
<1>6. PICK f : IsChain(st.prev, Len(p), f) /\ f = CHOOSE g : IsChain(st.prev, Len(p), g)
  <2>1. \A j \in 1 .. Len(p) : st.prev[j] \in 0 .. j - 1
    BY <1>4 DEF TailFacts
  <2>2. \E g : IsChain(st.prev, Len(p), g)
    BY <1>3, <2>1, ChainExists
  <2>3. QED
    BY <2>2
<1>7. \A k \in 0 .. Len(p) : ChainTo(p, k, f[k], d[k])
  BY <1>2, <1>5, <1>6, ChainFacts
<1>8. lisIndices(p) = IF p = <<>> THEN {} ELSE f[st.tailIdx[Len(st.tailIdx)]]
  <2>1. lisIndices(p) = IF p = <<>> THEN {}
                        ELSE (CHOOSE g : IsChain(Tails(p).prev, Len(p), g))
                                 [Tails(p).tailIdx[Len(Tails(p).tailIdx)]]
    BY DEF lisIndices, IsChain
  <2>2. QED
    BY <1>1, <1>6, <2>1
<1>9. CASE p = <<>>
  <2>1. lisIndices(p) = {} /\ 1 .. Len(p) = {}
    BY <1>8, <1>9
  <2>2. \A S \in IncreasingSets(p) : S = {}
    BY <2>1 DEF IncreasingSets
  <2>3. {} \in IncreasingSets(p)
    BY DEF IncreasingSets, Increasing
  <2>4. Cardinality({}) <= Cardinality({})
    BY FS_EmptySet
  <2>5. QED
    BY <2>1, <2>2, <2>3, <2>4
<1>10. CASE p # <<>>
  <2>1. PICK m : m = Len(st.tails)
    OBVIOUS
  <2>2. m \in Nat /\ m > 0 /\ Len(st.tailIdx) = m
    <3>1. Len(p) > 0
      BY <1>10
    <3>2. Len(st.tails) > 0
      BY <1>2, <3>1 DEF LoopInv
    <3>3. QED
      BY <1>4, <2>1, <3>2 DEF TailFacts
  <2>3. PICK k : k = st.tailIdx[m]
    OBVIOUS
  <2>4. k \in 1 .. Len(p) /\ d[k] = m
    BY <1>4, <1>5, <2>1, <2>2, <2>3 DEF TailFacts, Depths
  <2>5. lisIndices(p) = f[k] /\ ChainTo(p, k, f[k], m)
    BY <1>3, <1>7, <1>8, <1>10, <2>2, <2>3, <2>4
  <2>6. lisIndices(p) \in IncreasingSets(p) /\ Cardinality(lisIndices(p)) = m
    BY <1>3, <2>4, <2>5 DEF ChainTo, IncreasingSets
  <2>7. ASSUME NEW S \in IncreasingSets(p) PROVE Cardinality(S) <= m
    <3>1. S \in SUBSET (1 .. Len(p)) /\ Increasing(p, S)
      BY DEF IncreasingSets
    <3>2. CASE S = {}
      BY <2>2, <3>2, FS_EmptySet
    <3>3. CASE S # {}
      <4>1. PICK j \in S : \A l \in S : l <= j
        <5>1. S \subseteq 0 .. Len(p)
          BY <1>3, <3>1
        <5>2. QED
          BY <1>3, <3>3, <5>1, GreatestNumber
      <4>2. QED
        BY <1>2, <2>1, <3>1, <4>1 DEF LoopInv, Best
    <3>4. QED
      BY <3>2, <3>3
  <2>8. QED
    BY <2>6, <2>7
<1>11. QED
  BY <1>9, <1>10

(***************************************************************************)
(* Sequences.                                                              *)
(***************************************************************************)

\* ToSet is the set of the elements.
LEMMA ToSetFacts ==
  ASSUME NEW S, NEW s \in Seq(S)
  PROVE  /\ ToSet(s) \subseteq S
         /\ \A x : x \in ToSet(s) <=> \E i \in 1 .. Len(s) : s[i] = x
BY DEF ToSet

\* The empty sequence has no elements.
LEMMA ToSetEmpty == ToSet(<<>>) = {}
BY DEF ToSet

\* The elements after an Append.
LEMMA ToSetAppend ==
  ASSUME NEW S, NEW s \in Seq(S), NEW x \in S
  PROVE  ToSet(Append(s, x)) = ToSet(s) \cup {x}
<1>1. /\ Append(s, x) \in Seq(S) /\ Len(Append(s, x)) = Len(s) + 1 /\ Len(s) \in Nat
      /\ \A j \in 1 .. Len(s) : Append(s, x)[j] = s[j]
      /\ Append(s, x)[Len(s) + 1] = x
  BY AppendFacts
<1>2. \A y : y \in ToSet(Append(s, x)) <=> \E i \in 1 .. Len(s) + 1 : Append(s, x)[i] = y
  <2>1. PICK t : t = Append(s, x)
    OBVIOUS
  <2>2. t \in Seq(S) /\ Len(t) = Len(s) + 1
    BY <1>1, <2>1
  <2>3. \A y : y \in ToSet(t) <=> \E i \in 1 .. Len(t) : t[i] = y
    BY <2>2, ToSetFacts
  <2>4. QED
    BY <2>1, <2>2, <2>3
<1>3. \A y : y \in ToSet(s) <=> \E i \in 1 .. Len(s) : s[i] = y
  BY ToSetFacts
<1>4. ASSUME NEW y PROVE y \in ToSet(Append(s, x)) <=> y \in ToSet(s) \cup {x}
  <2>1. ASSUME NEW i \in 1 .. Len(s) + 1, Append(s, x)[i] = y PROVE y \in ToSet(s) \cup {x}
    <3>1. CASE i = Len(s) + 1
      BY <1>1, <2>1, <3>1
    <3>2. CASE i \in 1 .. Len(s)
      BY <1>1, <1>3, <2>1, <3>2
    <3>3. QED
      BY <1>1, <3>1, <3>2
  <2>2. ASSUME NEW i \in 1 .. Len(s), s[i] = y PROVE y \in ToSet(Append(s, x))
    <3>1. i \in 1 .. Len(s) + 1 /\ Append(s, x)[i] = y
      BY <1>1, <2>2
    <3>2. QED
      BY <1>2, <3>1
  <2>3. x \in ToSet(Append(s, x))
    <3>1. Len(s) + 1 \in 1 .. Len(s) + 1
      BY <1>1
    <3>2. QED
      BY <1>1, <1>2, <3>1
  <2>4. QED
    BY <1>2, <1>3, <2>1, <2>2, <2>3
<1>5. QED
  BY <1>4

\* Induction over sequences: the empty one, and what Append makes of each.
LEMMA AllSequences ==
  ASSUME NEW S, NEW G, <<>> \in G,
         \A s \in Seq(S) : \A x \in S : s \in G => Append(s, x) \in G
  PROVE  \A s \in Seq(S) : s \in G
<1> DEFINE T == {n \in Nat : \A s \in Seq(S) : Len(s) = n => s \in G}
<1>1. 0 \in T
  <2>1. \A s \in Seq(S) : Len(s) = 0 => s = <<>>
    OBVIOUS
  <2>2. QED
    BY <2>1
<1>2. ASSUME NEW n \in Nat, n \in T PROVE n + 1 \in T
  <2>1. ASSUME NEW s \in Seq(S), Len(s) = n + 1 PROVE s \in G
    <3>1. PICK f, x : f = SubSeq(s, 1, n) /\ x = s[n + 1]
      OBVIOUS
    <3>2. f \in Seq(S) /\ Len(f) = n /\ x \in S /\ s = Append(f, x)
      BY <2>1, <3>1
    <3>3. QED
      BY <1>2, <3>2
  <2>2. QED
    BY <2>1
<1>3. \A n \in Nat : n \in T
  <2> HIDE DEF T
  <2>1. QED
    BY <1>1, <1>2, AllNumbers
<1>4. QED
  BY <1>3

\* Appending to the second part appends to the whole.
LEMMA ConcatAppend ==
  ASSUME NEW S, NEW s \in Seq(S), NEW t \in Seq(S), NEW x \in S
  PROVE  s \o Append(t, x) = Append(s \o t, x)
OBVIOUS

\* The empty sequence is neutral.
LEMMA ConcatEmpty ==
  ASSUME NEW S, NEW s \in Seq(S)
  PROVE  s \o <<>> = s /\ <<>> \o s = s
OBVIOUS

\* Concatenation is associative.
LEMMA ConcatAssoc ==
  ASSUME NEW S, NEW s \in Seq(S), NEW t \in Seq(S), NEW u \in Seq(S)
  PROVE  (s \o t) \o u = s \o (t \o u)
OBVIOUS

\* The type, length and elements of a concatenation.
LEMMA ConcatFacts ==
  ASSUME NEW S, NEW s \in Seq(S), NEW t \in Seq(S)
  PROVE  /\ s \o t \in Seq(S) /\ Len(s \o t) = Len(s) + Len(t)
         /\ \A i \in 1 .. Len(s) : (s \o t)[i] = s[i]
         /\ \A i \in 1 .. Len(t) : (s \o t)[Len(s) + i] = t[i]
OBVIOUS

\* The elements of a concatenation.
LEMMA ToSetConcat ==
  ASSUME NEW S, NEW s \in Seq(S), NEW t \in Seq(S)
  PROVE  ToSet(s \o t) = ToSet(s) \cup ToSet(t)
<1> DEFINE G == {u \in Seq(S) : ToSet(s \o u) = ToSet(s) \cup ToSet(u)}
<1>1. <<>> \in G
  BY ConcatEmpty, ToSetEmpty
<1>2. ASSUME NEW u \in Seq(S), NEW x \in S, u \in G PROVE Append(u, x) \in G
  <2>1. s \o Append(u, x) = Append(s \o u, x) /\ s \o u \in Seq(S) /\ Append(u, x) \in Seq(S)
    BY ConcatAppend, ConcatFacts, AppendFacts
  <2>2. ToSet(Append(s \o u, x)) = ToSet(s \o u) \cup {x} /\ ToSet(Append(u, x)) = ToSet(u) \cup {x}
    <3>1. ToSet(Append(u, x)) = ToSet(u) \cup {x}
      BY ToSetAppend
    <3>2. PICK v : v = s \o u
      OBVIOUS
    <3>3. v \in Seq(S)
      BY <2>1, <3>2
    <3>4. ToSet(Append(v, x)) = ToSet(v) \cup {x}
      BY <3>3, ToSetAppend
    <3>5. QED
      BY <3>1, <3>2, <3>4
  <2>3. QED
    BY <1>2, <2>1, <2>2
<1>3. QED
  <2> HIDE DEF G
  <2>1. \A u \in Seq(S) : u \in G
    BY <1>1, <1>2, AllSequences
  <2>2. QED
    BY <2>1 DEF G

\* Each element once.
LEMMA OnceAppend ==
  ASSUME NEW S, NEW s \in Seq(S), NEW x \in S
  PROVE  IsInjective(Append(s, x)) <=> IsInjective(s) /\ x \notin ToSet(s)
<1>1. /\ Append(s, x) \in Seq(S) /\ Len(Append(s, x)) = Len(s) + 1 /\ Len(s) \in Nat
      /\ \A j \in 1 .. Len(s) : Append(s, x)[j] = s[j]
      /\ Append(s, x)[Len(s) + 1] = x
  BY AppendFacts
<1>2. DOMAIN s = 1 .. Len(s) /\ DOMAIN Append(s, x) = 1 .. Len(s) + 1
  BY <1>1
<1>3. \A y : y \in ToSet(s) <=> \E i \in 1 .. Len(s) : s[i] = y
  BY ToSetFacts
<1>4. ASSUME IsInjective(Append(s, x)) PROVE IsInjective(s) /\ x \notin ToSet(s)
  <2>1. \A i, j \in 1 .. Len(s) + 1 : Append(s, x)[i] = Append(s, x)[j] => i = j
    BY <1>2, <1>4 DEF IsInjective
  <2>2. ASSUME NEW i \in 1 .. Len(s), NEW j \in 1 .. Len(s), s[i] = s[j] PROVE i = j
    <3>1. i \in 1 .. Len(s) + 1 /\ j \in 1 .. Len(s) + 1 /\ Append(s, x)[i] = Append(s, x)[j]
      BY <1>1, <2>2
    <3>2. QED
      BY <2>1, <3>1
  <2>3. ASSUME NEW i \in 1 .. Len(s), s[i] = x PROVE FALSE
    <3>1. i \in 1 .. Len(s) + 1 /\ Len(s) + 1 \in 1 .. Len(s) + 1 /\ Append(s, x)[i] = x /\ i # Len(s) + 1
      BY <1>1, <2>3
    <3>2. QED
      BY <1>1, <2>1, <3>1
  <2>4. QED
    BY <1>2, <1>3, <2>2, <2>3 DEF IsInjective
<1>5. ASSUME IsInjective(s), x \notin ToSet(s) PROVE IsInjective(Append(s, x))
  <2>1. \A i, j \in 1 .. Len(s) : s[i] = s[j] => i = j
    BY <1>2, <1>5 DEF IsInjective
  <2>2. \A i \in 1 .. Len(s) : s[i] # x
    BY <1>3, <1>5
  <2>3. ASSUME NEW i \in 1 .. Len(s) + 1, NEW j \in 1 .. Len(s) + 1,
               Append(s, x)[i] = Append(s, x)[j]
        PROVE  i = j
    <3>1. CASE i = Len(s) + 1 /\ j = Len(s) + 1
      BY <3>1
    <3>2. CASE i = Len(s) + 1 /\ j \in 1 .. Len(s)
      BY <1>1, <2>2, <2>3, <3>2
    <3>3. CASE i \in 1 .. Len(s) /\ j = Len(s) + 1
      BY <1>1, <2>2, <2>3, <3>3
    <3>4. CASE i \in 1 .. Len(s) /\ j \in 1 .. Len(s)
      BY <1>1, <2>1, <2>3, <3>4
    <3>5. i \in 1 .. Len(s) \/ i = Len(s) + 1
      BY <1>1
    <3>6. j \in 1 .. Len(s) \/ j = Len(s) + 1
      BY <1>1
    <3>7. QED
      BY <3>1, <3>2, <3>3, <3>4, <3>5, <3>6
  <2>4. QED
    BY <1>2, <2>3 DEF IsInjective
<1>6. QED
  BY <1>4, <1>5

\* The empty sequence has nothing twice.
LEMMA OnceEmpty == IsInjective(<<>>)
BY DEF IsInjective

\* A concatenation has nothing twice if its parts have not and are disjoint.
LEMMA OnceConcat ==
  ASSUME NEW S, NEW s \in Seq(S), NEW t \in Seq(S)
  PROVE  IsInjective(s \o t) <=> /\ IsInjective(s) /\ IsInjective(t)
                                 /\ ToSet(s) \cap ToSet(t) = {}
<1> DEFINE G == {u \in Seq(S) : IsInjective(s \o u) <=> /\ IsInjective(s) /\ IsInjective(u)
                                                        /\ ToSet(s) \cap ToSet(u) = {}}
<1>1. <<>> \in G
  BY ConcatEmpty, ToSetEmpty, OnceEmpty
<1>2. ASSUME NEW u \in Seq(S), NEW x \in S, u \in G PROVE Append(u, x) \in G
  <2>1. s \o Append(u, x) = Append(s \o u, x) /\ s \o u \in Seq(S) /\ Append(u, x) \in Seq(S)
    BY ConcatAppend, ConcatFacts, AppendFacts
  <2>2. /\ IsInjective(Append(s \o u, x)) <=> IsInjective(s \o u) /\ x \notin ToSet(s \o u)
        /\ IsInjective(Append(u, x)) <=> IsInjective(u) /\ x \notin ToSet(u)
    BY <2>1, OnceAppend
  <2>3. ToSet(s \o u) = ToSet(s) \cup ToSet(u) /\ ToSet(Append(u, x)) = ToSet(u) \cup {x}
    BY ToSetConcat, ToSetAppend
  <2>4. IsInjective(s \o u) <=> IsInjective(s) /\ IsInjective(u) /\ ToSet(s) \cap ToSet(u) = {}
    BY <1>2
  <2>5. ToSet(s) \cap (ToSet(u) \cup {x}) = {} <=> ToSet(s) \cap ToSet(u) = {} /\ x \notin ToSet(s)
    OBVIOUS
  <2>6. QED
    BY <2>1, <2>2, <2>3, <2>4, <2>5
<1>3. QED
  <2> HIDE DEF G
  <2>1. \A u \in Seq(S) : u \in G
    BY <1>1, <1>2, AllSequences
  <2>2. QED
    BY <2>1 DEF G

(***************************************************************************)
(* Only.                                                                   *)
(***************************************************************************)

\* Only, as an equation.
IsOnly(s, S, n, f) ==
    f = [i \in 0 .. n |->
            IF i = 0 THEN <<>>
            ELSE IF s[i] \in S THEN Append(f[i - 1], s[i]) ELSE f[i - 1]]

\* The equation of Only has a solution.
LEMMA OnlyExists ==
  ASSUME NEW s, NEW S, NEW n \in Nat
  PROVE  \E f : IsOnly(s, S, n, f)
<1> DEFINE T == {m \in Nat : \E f : IsOnly(s, S, m, f)}
<1>1. 0 \in T
  <2>1. IsOnly(s, S, 0, [i \in 0 .. 0 |-> <<>>])
    BY DEF IsOnly
  <2>2. QED
    BY <2>1
<1>2. ASSUME NEW m \in Nat, m \in T PROVE m + 1 \in T
  <2>1. PICK g : IsOnly(s, S, m, g)
    BY <1>2
  <2> DEFINE Step(h, i) == IF s[i] \in S THEN Append(h, s[i]) ELSE h
             f == [i \in 0 .. m + 1 |-> IF i = m + 1 THEN Step(g[m], i) ELSE g[i]]
  <2>2. ASSUME NEW i \in 0 .. m + 1
        PROVE  f[i] = IF i = 0 THEN <<>> ELSE Step(f[i - 1], i)
    <3>1. CASE i = m + 1
      BY <3>1
    <3>2. CASE i \in 0 .. m
      <4>1. g[i] = IF i = 0 THEN <<>> ELSE Step(g[i - 1], i)
        BY <2>1, <3>2 DEF IsOnly
      <4>2. f[i] = g[i] /\ (i # 0 => f[i - 1] = g[i - 1])
        BY <3>2
      <4> HIDE DEF f, Step
      <4>3. QED
        BY <4>1, <4>2
    <3>3. QED
      BY <3>1, <3>2
  <2>3. f = [i \in 0 .. m + 1 |-> IF i = 0 THEN <<>> ELSE Step(f[i - 1], i)]
    <3> HIDE DEF Step
    <3>1. QED
      BY <2>2
  <2>4. IsOnly(s, S, m + 1, f)
    BY <2>3 DEF IsOnly
  <2>5. QED
    BY <2>4
<1>3. n \in T
  <2> HIDE DEF T
  <2>1. \A m \in Nat : m \in T
    BY <1>1, <1>2, AllNumbers
  <2>2. QED
    BY <2>1
<1>4. QED
  BY <1>3

\* The value of the function at each index.
LEMMA OnlyStart ==
  ASSUME NEW s, NEW S, NEW n \in Nat, NEW f, IsOnly(s, S, n, f)
  PROVE  f[0] = <<>>
BY DEF IsOnly

\* One step of Only.
LEMMA OnlyStep ==
  ASSUME NEW s, NEW S, NEW n \in Nat, NEW f, IsOnly(s, S, n, f), NEW i \in Nat, i + 1 <= n
  PROVE  f[i + 1] = IF s[i + 1] \in S THEN Append(f[i], s[i + 1]) ELSE f[i]
<1>1. i + 1 \in 0 .. n /\ i + 1 # 0 /\ (i + 1) - 1 = i
  OBVIOUS
<1>2. f[i + 1] = IF i + 1 = 0 THEN <<>>
                 ELSE IF s[i + 1] \in S THEN Append(f[(i + 1) - 1], s[i + 1]) ELSE f[(i + 1) - 1]
  BY <1>1 DEF IsOnly
<1>3. QED
  BY <1>1, <1>2

\* Only is the end of a solution of its equation.
LEMMA OnlyIs ==
  ASSUME NEW T, NEW s \in Seq(T), NEW S
  PROVE  \E f : IsOnly(s, S, Len(s), f) /\ Only(s, S) = f[Len(s)]
<1>1. Only(s, S) = (CHOOSE f : IsOnly(s, S, Len(s), f))[Len(s)]
  BY DEF Only, IsOnly
<1>2. Len(s) \in Nat
  OBVIOUS
<1>3. \E f : IsOnly(s, S, Len(s), f)
  BY <1>2, OnlyExists
<1>4. QED
  BY <1>1, <1>3

\* Two solutions agree where the sequences do.
LEMMA OnlyUnique ==
  ASSUME NEW s, NEW t, NEW S, NEW m \in Nat, NEW n \in Nat, NEW f, NEW g,
         IsOnly(s, S, m, f), IsOnly(t, S, n, g), NEW k \in Nat, k <= m, k <= n,
         \A i \in 1 .. k : s[i] = t[i]
  PROVE  f[k] = g[k]
<1> DEFINE T == {i \in Nat : i <= k => f[i] = g[i]}
<1>1. 0 \in T
  <2>1. f[0] = <<>> /\ g[0] = <<>>
    BY OnlyStart
  <2>2. QED
    BY <2>1
<1>2. ASSUME NEW i \in Nat, i \in T PROVE i + 1 \in T
  <2>1. SUFFICES ASSUME i + 1 <= k PROVE f[i + 1] = g[i + 1]
    OBVIOUS
  <2>2. f[i] = g[i] /\ s[i + 1] = t[i + 1]
    BY <1>2, <2>1
  <2>3. i + 1 <= m /\ i + 1 <= n
    BY <2>1
  <2>4. f[i + 1] = IF s[i + 1] \in S THEN Append(f[i], s[i + 1]) ELSE f[i]
    BY <2>3, OnlyStep
  <2>5. g[i + 1] = IF t[i + 1] \in S THEN Append(g[i], t[i + 1]) ELSE g[i]
    BY <2>3, OnlyStep
  <2>6. QED
    BY <2>2, <2>4, <2>5
<1>3. k \in T
  <2> HIDE DEF T
  <2>1. \A i \in Nat : i \in T
    BY <1>1, <1>2, AllNumbers
  <2>2. QED
    BY <2>1
<1>4. QED
  BY <1>3

\* Only of the empty sequence.
LEMMA OnlyEmpty ==
  ASSUME NEW S
  PROVE  Only(<<>>, S) = <<>>
<1>1. <<>> \in Seq({}) /\ Len(<<>>) = 0
  OBVIOUS
<1>2. PICK f : IsOnly(<<>>, S, 0, f) /\ Only(<<>>, S) = f[0]
  BY <1>1, OnlyIs
<1>3. f[0] = <<>>
  BY <1>2, OnlyStart
<1>4. QED
  BY <1>2, <1>3

\* Only of a sequence with one element more.
LEMMA OnlyAppend ==
  ASSUME NEW T, NEW s \in Seq(T), NEW x \in T, NEW S
  PROVE  Only(Append(s, x), S) = IF x \in S THEN Append(Only(s, S), x) ELSE Only(s, S)
<1>1. PICK t, n : t = Append(s, x) /\ n = Len(s)
  OBVIOUS
<1>2. /\ t \in Seq(T) /\ Len(t) = n + 1 /\ n \in Nat /\ t[n + 1] = x
      /\ \A i \in 1 .. n : s[i] = t[i]
  BY <1>1, AppendFacts
<1>3. PICK f : IsOnly(s, S, n, f) /\ Only(s, S) = f[n]
  BY <1>1, OnlyIs
<1>4. PICK g : IsOnly(t, S, n + 1, g) /\ Only(t, S) = g[n + 1]
  BY <1>2, OnlyIs
<1>5. f[n] = g[n]
  BY <1>2, <1>3, <1>4, OnlyUnique
<1>6. PICK m : m = n + 1
  OBVIOUS
<1>7. g[n + 1] = IF t[n + 1] \in S THEN Append(g[n], t[n + 1]) ELSE g[n]
  <2>1. n \in Nat /\ m \in Nat /\ n + 1 <= m /\ IsOnly(t, S, m, g)
    BY <1>2, <1>4, <1>6
  <2>2. QED
    BY <2>1, OnlyStep
<1>8. QED
  BY <1>1, <1>2, <1>3, <1>4, <1>5, <1>7

(***************************************************************************)
(* The elements of a sequence that are in a set.                           *)
(***************************************************************************)

\* Only keeps the elements that are in the set, none twice.
LEMMA OnlyFacts ==
  ASSUME NEW T, NEW s \in Seq(T), NEW S
  PROVE  /\ Only(s, S) \in Seq(T)
         /\ ToSet(Only(s, S)) = ToSet(s) \cap S
         /\ IsInjective(s) => IsInjective(Only(s, S))
<1> DEFINE G == {t \in Seq(T) : /\ Only(t, S) \in Seq(T)
                                /\ ToSet(Only(t, S)) = ToSet(t) \cap S
                                /\ IsInjective(t) => IsInjective(Only(t, S))}
<1>1. <<>> \in G
  <2>1. Only(<<>>, S) = <<>>
    BY OnlyEmpty
  <2>2. ToSet(<<>>) = ToSet(<<>>) \cap S
    BY ToSetEmpty
  <2>3. <<>> \in Seq(T)
    OBVIOUS
  <2>4. /\ Only(<<>>, S) \in Seq(T)
        /\ ToSet(Only(<<>>, S)) = ToSet(<<>>) \cap S
    BY <2>1, <2>2, <2>3
  <2>5. IsInjective(Only(<<>>, S))
    BY <2>1, OnceEmpty
  <2>6. QED
    BY <2>3, <2>4, <2>5
<1>2. ASSUME NEW t \in Seq(T), NEW x \in T, t \in G PROVE Append(t, x) \in G
  <2>1. PICK u : u = Only(t, S)
    OBVIOUS
  <2>2. u \in Seq(T) /\ ToSet(u) = ToSet(t) \cap S /\ (IsInjective(t) => IsInjective(u))
    BY <1>2, <2>1
  <2>3. Only(Append(t, x), S) = IF x \in S THEN Append(u, x) ELSE u
    BY <2>1, OnlyAppend
  <2>4. Append(t, x) \in Seq(T) /\ Append(u, x) \in Seq(T)
    BY <2>2, AppendFacts
  <2>5. ToSet(Append(t, x)) = ToSet(t) \cup {x}
    BY ToSetAppend
  <2>6. ToSet(Append(u, x)) = ToSet(u) \cup {x}
    BY <2>2, ToSetAppend
  <2>7. IsInjective(Append(t, x)) <=> IsInjective(t) /\ x \notin ToSet(t)
    BY OnceAppend
  <2>8. IsInjective(Append(u, x)) <=> IsInjective(u) /\ x \notin ToSet(u)
    BY <2>2, OnceAppend
  <2>9. CASE x \in S
    <3>1. ToSet(Append(u, x)) = ToSet(Append(t, x)) \cap S
      BY <2>2, <2>5, <2>6, <2>9
    <3>2. IsInjective(Append(t, x)) => IsInjective(Append(u, x))
      BY <2>2, <2>7, <2>8
    <3>3. QED
      BY <2>3, <2>4, <2>9, <3>1, <3>2
  <2>10. CASE x \notin S
    <3>1. ToSet(u) = ToSet(Append(t, x)) \cap S
      BY <2>2, <2>5, <2>10
    <3>2. QED
      BY <2>2, <2>3, <2>4, <2>7, <2>10, <3>1
  <2>11. QED
    BY <2>9, <2>10
<1>3. QED
  <2> HIDE DEF G
  <2>1. \A t \in Seq(T) : t \in G
    BY <1>1, <1>2, AllSequences
  <2>2. QED
    BY <2>1 DEF G

\* Only of a concatenation.
LEMMA OnlyConcat ==
  ASSUME NEW T, NEW s \in Seq(T), NEW t \in Seq(T), NEW S
  PROVE  Only(s \o t, S) = Only(s, S) \o Only(t, S)
<1> DEFINE G == {u \in Seq(T) : Only(s \o u, S) = Only(s, S) \o Only(u, S)}
<1>1. <<>> \in G
  <2>1. Only(s, S) \in Seq(T)
    BY OnlyFacts
  <2>2. QED
    BY <2>1, ConcatEmpty, OnlyEmpty
<1>2. ASSUME NEW u \in Seq(T), NEW x \in T, u \in G PROVE Append(u, x) \in G
  <2>1. s \o Append(u, x) = Append(s \o u, x) /\ s \o u \in Seq(T) /\ Append(u, x) \in Seq(T)
    BY ConcatAppend, ConcatFacts, AppendFacts
  <2>2. PICK v, w, y : v = Only(s, S) /\ w = Only(u, S) /\ y = s \o u
    OBVIOUS
  <2>3. v \in Seq(T) /\ w \in Seq(T) /\ y \in Seq(T)
    BY <2>1, <2>2, OnlyFacts
  <2>4. Only(Append(y, x), S) = IF x \in S THEN Append(Only(y, S), x) ELSE Only(y, S)
    BY <2>3, OnlyAppend
  <2>5. Only(Append(u, x), S) = IF x \in S THEN Append(w, x) ELSE w
    BY <2>2, OnlyAppend
  <2>6. v \o Append(w, x) = Append(v \o w, x)
    BY <2>3, ConcatAppend
  <2>7. Only(y, S) = v \o w
    BY <1>2, <2>2
  <2>8. Only(Append(y, x), S) = v \o Only(Append(u, x), S)
    BY <2>4, <2>5, <2>6, <2>7
  <2>9. QED
    BY <2>1, <2>2, <2>8
<1>3. QED
  <2> HIDE DEF G
  <2>1. \A u \in Seq(T) : u \in G
    BY <1>1, <1>2, AllSequences
  <2>2. QED
    BY <2>1 DEF G

\* Only depends on the elements that are there.
LEMMA OnlySame ==
  ASSUME NEW T, NEW s \in Seq(T), NEW S, NEW R, ToSet(s) \cap S = ToSet(s) \cap R
  PROVE  Only(s, S) = Only(s, R)
<1> DEFINE G == {t \in Seq(T) : ToSet(t) \cap S = ToSet(t) \cap R => Only(t, S) = Only(t, R)}
<1>1. <<>> \in G
  BY OnlyEmpty
<1>2. ASSUME NEW t \in Seq(T), NEW x \in T, t \in G PROVE Append(t, x) \in G
  <2>1. ToSet(Append(t, x)) = ToSet(t) \cup {x} /\ Append(t, x) \in Seq(T)
    BY ToSetAppend, AppendFacts
  <2>2. SUFFICES ASSUME ToSet(Append(t, x)) \cap S = ToSet(Append(t, x)) \cap R
                 PROVE  Only(Append(t, x), S) = Only(Append(t, x), R)
    BY <2>1
  <2>3. ToSet(t) \cap S = ToSet(t) \cap R /\ (x \in S <=> x \in R)
    BY <2>1, <2>2
  <2>4. Only(t, S) = Only(t, R)
    BY <1>2, <2>3
  <2>5. /\ Only(Append(t, x), S) = IF x \in S THEN Append(Only(t, S), x) ELSE Only(t, S)
        /\ Only(Append(t, x), R) = IF x \in R THEN Append(Only(t, R), x) ELSE Only(t, R)
    BY OnlyAppend
  <2>6. QED
    BY <2>3, <2>4, <2>5
<1>3. QED
  <2> HIDE DEF G
  <2>1. \A t \in Seq(T) : t \in G
    BY <1>1, <1>2, AllSequences
  <2>2. QED
    BY <2>1 DEF G

\* Only leaves a sequence over the set as it is.
LEMMA OnlyAll ==
  ASSUME NEW T, NEW s \in Seq(T)
  PROVE  Only(s, T) = s
<1> DEFINE G == {t \in Seq(T) : Only(t, T) = t}
<1>1. <<>> \in G
  BY OnlyEmpty
<1>2. ASSUME NEW t \in Seq(T), NEW x \in T, t \in G PROVE Append(t, x) \in G
  BY <1>2, OnlyAppend, AppendFacts
<1>3. QED
  <2> HIDE DEF G
  <2>1. \A t \in Seq(T) : t \in G
    BY <1>1, <1>2, AllSequences
  <2>2. QED
    BY <2>1 DEF G

\* Only leaves a sequence alone whose elements are all in the set.
LEMMA OnlyThose ==
  ASSUME NEW T, NEW s \in Seq(T), NEW S, ToSet(s) \subseteq S
  PROVE  Only(s, S) = s
<1>1. ToSet(s) \cap S = ToSet(s) \cap T
  BY ToSetFacts
<1>2. QED
  BY <1>1, OnlySame, OnlyAll

\* Only leaves nothing of a sequence that is disjoint from the set.
LEMMA OnlyNone ==
  ASSUME NEW T, NEW s \in Seq(T), NEW S, ToSet(s) \cap S = {}
  PROVE  Only(s, S) = <<>>
<1>1. ToSet(Only(s, S)) = {} /\ Only(s, S) \in Seq(T)
  BY OnlyFacts
<1>2. QED
  BY <1>1 DEF ToSet

\* Only twice is Only once, with the intersection.
LEMMA OnlyOnly ==
  ASSUME NEW T, NEW s \in Seq(T), NEW S, NEW R
  PROVE  Only(Only(s, S), R) = Only(s, S \cap R)
<1> DEFINE G == {t \in Seq(T) : Only(Only(t, S), R) = Only(t, S \cap R)}
<1>1. <<>> \in G
  BY OnlyEmpty
<1>2. ASSUME NEW t \in Seq(T), NEW x \in T, t \in G PROVE Append(t, x) \in G
  <2>1. PICK u : u = Only(t, S)
    OBVIOUS
  <2>2. u \in Seq(T) /\ Append(t, x) \in Seq(T)
    BY <2>1, OnlyFacts, AppendFacts
  <2>3. Only(Append(t, x), S) = IF x \in S THEN Append(u, x) ELSE u
    BY <2>1, OnlyAppend
  <2>4. Only(Append(u, x), R) = IF x \in R THEN Append(Only(u, R), x) ELSE Only(u, R)
    BY <2>2, OnlyAppend
  <2>5. Only(Append(t, x), S \cap R) =
            IF x \in S \cap R THEN Append(Only(t, S \cap R), x) ELSE Only(t, S \cap R)
    BY OnlyAppend
  <2>6. Only(u, R) = Only(t, S \cap R)
    BY <1>2, <2>1
  <2>7. Only(Only(Append(t, x), S), R) = Only(Append(t, x), S \cap R)
    <3>1. CASE x \in S /\ x \in R
      BY <2>3, <2>4, <2>5, <2>6, <3>1
    <3>2. CASE x \in S /\ x \notin R
      BY <2>3, <2>4, <2>5, <2>6, <3>2
    <3>3. CASE x \notin S
      BY <2>3, <2>5, <2>6, <3>3
    <3>4. QED
      BY <3>1, <3>2, <3>3
  <2>8. QED
    BY <2>2, <2>7
<1>3. QED
  <2> HIDE DEF G
  <2>1. \A t \in Seq(T) : t \in G
    BY <1>1, <1>2, AllSequences
  <2>2. QED
    BY <2>1 DEF G

\* The image of a sequence, and what Only leaves of it.
Maps(f, T, U) == f \in [T -> U]

Image(f, s) == [i \in 1 .. Len(s) |-> f[s[i]]]

\* The type, length and elements of an image.
LEMMA ImageFacts ==
  ASSUME NEW T, NEW U, NEW f, Maps(f, T, U), NEW s \in Seq(T)
  PROVE  /\ Image(f, s) \in Seq(U) /\ Len(Image(f, s)) = Len(s)
         /\ \A i \in 1 .. Len(s) : Image(f, s)[i] = f[s[i]]
<1>1. Len(s) \in Nat /\ \A i \in 1 .. Len(s) : s[i] \in T /\ f[s[i]] \in U
  BY ElementOf DEF Maps
<1>2. QED
  BY <1>1 DEF Image

\* The image of a sequence with one element more.
LEMMA ImageAppend ==
  ASSUME NEW T, NEW U, NEW f, Maps(f, T, U), NEW s \in Seq(T), NEW x \in T
  PROVE  Image(f, Append(s, x)) = Append(Image(f, s), f[x])
<1>1. PICK t, v : t = Append(s, x) /\ v = Append(Image(f, s), f[x])
  OBVIOUS
<1>2. /\ t \in Seq(T) /\ Len(t) = Len(s) + 1 /\ Len(s) \in Nat /\ t[Len(s) + 1] = x
      /\ \A i \in 1 .. Len(s) : t[i] = s[i]
  BY <1>1, AppendFacts
<1>3. /\ Image(f, s) \in Seq(U) /\ Len(Image(f, s)) = Len(s)
      /\ \A i \in 1 .. Len(s) : Image(f, s)[i] = f[s[i]]
  BY ImageFacts
<1>4. /\ Image(f, t) \in Seq(U) /\ Len(Image(f, t)) = Len(s) + 1
      /\ \A i \in 1 .. Len(s) + 1 : Image(f, t)[i] = f[t[i]]
  <2>1. /\ Image(f, t) \in Seq(U) /\ Len(Image(f, t)) = Len(t)
        /\ \A i \in 1 .. Len(t) : Image(f, t)[i] = f[t[i]]
    BY <1>2, ImageFacts
  <2>2. QED
    BY <1>2, <2>1
<1>5. /\ v \in Seq(U) /\ Len(v) = Len(s) + 1 /\ v[Len(s) + 1] = f[x]
      /\ \A i \in 1 .. Len(s) : v[i] = f[s[i]]
  <2>1. f[x] \in U
    BY DEF Maps
  <2>2. PICK w : w = Image(f, s)
    OBVIOUS
  <2>3. w \in Seq(U) /\ Len(w) = Len(s) /\ \A i \in 1 .. Len(s) : w[i] = f[s[i]]
    BY <1>3, <2>2
  <2>4. /\ Append(w, f[x]) \in Seq(U) /\ Len(Append(w, f[x])) = Len(w) + 1
        /\ \A j \in 1 .. Len(w) : Append(w, f[x])[j] = w[j]
        /\ Append(w, f[x])[Len(w) + 1] = f[x]
    BY <2>1, <2>3, AppendFacts
  <2>5. QED
    BY <1>1, <2>2, <2>3, <2>4
<1>6. \A i \in 1 .. Len(s) + 1 : Image(f, t)[i] = v[i]
  <2>1. ASSUME NEW i \in 1 .. Len(s) + 1 PROVE Image(f, t)[i] = v[i]
    <3>1. CASE i = Len(s) + 1
      BY <1>2, <1>4, <1>5, <3>1
    <3>2. CASE i \in 1 .. Len(s)
      BY <1>2, <1>4, <1>5, <3>2
    <3>3. QED
      BY <1>2, <3>1, <3>2
  <2>2. QED
    BY <2>1
<1>7. Image(f, t) = v
  <2>1. PICK w : w = Image(f, t)
    OBVIOUS
  <2>2. /\ w \in Seq(U) /\ v \in Seq(U) /\ Len(w) = Len(v)
        /\ \A i \in 1 .. Len(w) : w[i] = v[i]
    BY <1>4, <1>5, <1>6, <2>1
  <2>3. w = v
    BY <2>2, SeqEqual
  <2>4. QED
    BY <2>1, <2>3
<1>8. QED
  BY <1>1, <1>7

\* What Only leaves of an image is the image of what it leaves.
LEMMA OnlyImage ==
  ASSUME NEW T, NEW U, NEW f, Maps(f, T, U), NEW s \in Seq(T), NEW S
  PROVE  Only(Image(f, s), S) = Image(f, Only(s, {x \in T : f[x] \in S}))
<1> DEFINE R == {x \in T : f[x] \in S}
           G == {t \in Seq(T) : Only(Image(f, t), S) = Image(f, Only(t, R))}
<1>1. <<>> \in G
  <2>1. Image(f, <<>>) = <<>>
    BY DEF Image
  <2>2. QED
    BY <2>1, OnlyEmpty
<1>2. ASSUME NEW t \in Seq(T), NEW x \in T, t \in G PROVE Append(t, x) \in G
  <2> HIDE DEF R
  <2>1. PICK u, v : u = Only(t, R) /\ v = Image(f, t)
    OBVIOUS
  <2>2. u \in Seq(T) /\ Append(t, x) \in Seq(T)
    BY <2>1, OnlyFacts, AppendFacts
  <2>3. v \in Seq(U) /\ f[x] \in U
    BY <2>1, ImageFacts DEF Maps
  <2>4. Image(f, Append(t, x)) = Append(v, f[x]) /\ Image(f, Append(u, x)) = Append(Image(f, u), f[x])
    BY <2>1, <2>2, ImageAppend
  <2>5. Only(Append(v, f[x]), S) = IF f[x] \in S THEN Append(Only(v, S), f[x]) ELSE Only(v, S)
    <3>1. PICK y : y = f[x]
      OBVIOUS
    <3>2. y \in U
      BY <2>3, <3>1
    <3>3. Only(Append(v, y), S) = IF y \in S THEN Append(Only(v, S), y) ELSE Only(v, S)
      BY <2>3, <3>2, OnlyAppend
    <3>4. QED
      BY <3>1, <3>3
  <2>6. Only(Append(t, x), R) = IF x \in R THEN Append(u, x) ELSE u
    BY <2>1, OnlyAppend
  <2>7. x \in R <=> f[x] \in S
    BY DEF R
  <2>8. Only(v, S) = Image(f, u)
    BY <1>2, <2>1
  <2>9. Only(Image(f, Append(t, x)), S) = Image(f, Only(Append(t, x), R))
    BY <2>4, <2>5, <2>6, <2>7, <2>8
  <2>10. QED
    BY <2>2, <2>9
<1>3. QED
  <2> HIDE DEF G
  <2>1. \A t \in Seq(T) : t \in G
    BY <1>1, <1>2, AllSequences
  <2>2. QED
    BY <2>1 DEF G

(***************************************************************************)
(* The client.                                                             *)
(***************************************************************************)

\* The states of a client, and the operations, over the nodes N.
ClientStates(N) ==
    [registry : SUBSET N, dom : Seq(N), deferred : Seq(N), crashed : BOOLEAN]

Ops(N) == {o \in [op : {"insert", "move", "remove", "html", "clear", "swap"}, nodes : Seq(N)] :
              /\ o.op \in {"insert", "move", "remove"} => Len(o.nodes) = 1
              /\ o.op = "swap" => Len(o.nodes) = 2}

\* A client that has not crashed.
Is(c, registered, shown, deferred) ==
    /\ c.registry = registered /\ c.dom = shown /\ c.deferred = deferred
    /\ c.crashed = FALSE

\* The operations that the observer queues have their types.
LEMMA OpTypes ==
  ASSUME NEW N, NEW n \in N, NEW m \in N, NEW ns \in Seq(N)
  PROVE  /\ InsertOp(n) \in Ops(N) /\ MoveOp(n) \in Ops(N) /\ RemoveOp(n) \in Ops(N)
         /\ SwapOp(n, m) \in Ops(N) /\ InsertHTML(ns) \in Ops(N) /\ ClearOp \in Ops(N)
<1>1. <<n>> \in Seq(N) /\ Len(<<n>>) = 1 /\ <<n, m>> \in Seq(N) /\ Len(<<n, m>>) = 2 /\ <<>> \in Seq(N)
  OBVIOUS
<1>2. InsertOp(n) \in Ops(N) /\ MoveOp(n) \in Ops(N) /\ RemoveOp(n) \in Ops(N)
  BY <1>1 DEF Ops, InsertOp, MoveOp, RemoveOp
<1>3. SwapOp(n, m) \in Ops(N) /\ InsertHTML(ns) \in Ops(N) /\ ClearOp \in Ops(N)
  BY <1>1 DEF Ops, SwapOp, InsertHTML, ClearOp
<1>4. QED
  BY <1>2, <1>3

\* What is left of the container when a node is detached.
LEMMA DetachFacts ==
  ASSUME NEW N, NEW s \in Seq(N), NEW n
  PROVE  /\ Detach(s, n) \in Seq(N)
         /\ Detach(s, n) = Only(s, N \ {n})
         /\ ToSet(Detach(s, n)) = ToSet(s) \ {n}
         /\ IsInjective(s) => IsInjective(Detach(s, n))
<1>1. ToSet(s) \subseteq N
  BY ToSetFacts
<1>2. ToSet(s) \cap (ToSet(s) \ {n}) = ToSet(s) \cap (N \ {n})
  BY <1>1
<1>3. Only(s, ToSet(s) \ {n}) = Only(s, N \ {n})
  BY <1>2, OnlySame
<1>4. /\ Only(s, ToSet(s) \ {n}) \in Seq(N)
      /\ ToSet(Only(s, ToSet(s) \ {n})) = ToSet(s) \cap (ToSet(s) \ {n})
      /\ IsInjective(s) => IsInjective(Only(s, ToSet(s) \ {n}))
  BY OnlyFacts
<1>5. QED
  BY <1>3, <1>4 DEF Detach

\* What each operation does to a client that has not crashed.
LEMMA OpEffects ==
  ASSUME NEW N, NEW c \in ClientStates(N), ~c.crashed, NEW O,
         NEW n \in N, NEW m \in N, NEW ns \in Seq(N)
  PROVE  /\ n \notin c.registry /\ n \notin O =>
              Is(ApplyOp(c, InsertOp(n), O), c.registry \cup {n}, c.dom, Append(c.deferred, n))
         /\ n \notin c.registry /\ n \in O =>
              Is(ApplyOp(c, InsertOp(n), O), c.registry \cup {n}, c.dom, c.deferred)
         /\ n \in c.registry =>
              /\ Is(ApplyOp(c, InsertOp(n), O), c.registry, Append(Detach(c.dom, n), n), c.deferred)
              /\ Is(ApplyOp(c, MoveOp(n), O), c.registry, Append(Detach(c.dom, n), n), c.deferred)
         /\ n \notin c.registry =>
              Is(ApplyOp(c, MoveOp(n), O), c.registry \cup {n}, c.dom, Append(c.deferred, n))
         /\ Is(ApplyOp(c, RemoveOp(n), O), c.registry \ {n}, Detach(c.dom, n), c.deferred)
         /\ Is(ApplyOp(c, InsertHTML(ns), O), c.registry \cup ToSet(ns), c.dom \o ns, c.deferred)
         /\ Is(ApplyOp(c, ClearOp, O), c.registry \ ToSet(c.dom), <<>>, c.deferred)
<1>1. c.crashed = FALSE
  BY DEF ClientStates
<1>2. /\ n \notin c.registry /\ n \notin O =>
              Is(ApplyOp(c, InsertOp(n), O), c.registry \cup {n}, c.dom, Append(c.deferred, n))
      /\ n \notin c.registry /\ n \in O =>
              Is(ApplyOp(c, InsertOp(n), O), c.registry \cup {n}, c.dom, c.deferred)
      /\ n \in c.registry =>
              Is(ApplyOp(c, InsertOp(n), O), c.registry, Append(Detach(c.dom, n), n), c.deferred)
  <2>1. ApplyOp(c, InsertOp(n), O) = ApplyInsert(c, n, n \in O)
    BY <1>1 DEF ApplyOp, InsertOp
  <2>2. QED
    BY <1>1, <2>1 DEF ApplyInsert, Is, ClientStates
<1>3. /\ n \in c.registry =>
              Is(ApplyOp(c, MoveOp(n), O), c.registry, Append(Detach(c.dom, n), n), c.deferred)
      /\ n \notin c.registry =>
              Is(ApplyOp(c, MoveOp(n), O), c.registry \cup {n}, c.dom, Append(c.deferred, n))
  <2>1. ApplyOp(c, MoveOp(n), O) = ApplyInsert(c, n, FALSE)
    BY <1>1 DEF ApplyOp, MoveOp
  <2>2. QED
    BY <1>1, <2>1 DEF ApplyInsert, Is, ClientStates
<1>4. Is(ApplyOp(c, RemoveOp(n), O), c.registry \ {n}, Detach(c.dom, n), c.deferred)
  <2>1. ApplyOp(c, RemoveOp(n), O) = ApplyRemove(c, n)
    BY <1>1 DEF ApplyOp, RemoveOp
  <2>2. QED
    BY <1>1, <2>1 DEF ApplyRemove, Is, ClientStates
<1>5. Is(ApplyOp(c, InsertHTML(ns), O), c.registry \cup ToSet(ns), c.dom \o ns, c.deferred)
  <2>1. ApplyOp(c, InsertHTML(ns), O) = ApplyHTML(c, ns)
    BY <1>1 DEF ApplyOp, InsertHTML
  <2>2. QED
    BY <1>1, <2>1 DEF ApplyHTML, Is, ClientStates
<1>6. Is(ApplyOp(c, ClearOp, O), c.registry \ ToSet(c.dom), <<>>, c.deferred)
  <2>1. ApplyOp(c, ClearOp, O) = ApplyClear(c)
    BY <1>1 DEF ApplyOp, ClearOp
  <2>2. QED
    BY <1>1, <2>1 DEF ApplyClear, Is, ClientStates
<1>7. QED
  BY <1>2, <1>3, <1>4, <1>5, <1>6

\* The sequence with two elements exchanged.
Swapped(s, a, b) == [i \in DOMAIN s |-> CASE s[i] = a -> b [] s[i] = b -> a [] OTHER -> s[i]]

\* SwapNodes exchanges two nodes that are both attached.
LEMMA SwapEffect ==
  ASSUME NEW N, NEW c \in ClientStates(N), ~c.crashed, NEW O,
         NEW a \in N, NEW b \in N
  PROVE  /\ ApplyOp(c, SwapOp(a, b), O) = ApplySwap(c, a, b)
         /\ {a, b} \subseteq c.registry /\ {a, b} \subseteq ToSet(c.dom) =>
              Is(ApplyOp(c, SwapOp(a, b), O), c.registry, Swapped(c.dom, a, b), c.deferred)
<1>1. c.crashed = FALSE
  BY DEF ClientStates
<1>2. ApplyOp(c, SwapOp(a, b), O) = ApplySwap(c, a, b)
  BY <1>1 DEF ApplyOp, SwapOp
<1>3. ASSUME {a, b} \subseteq c.registry, {a, b} \subseteq ToSet(c.dom)
      PROVE  Is(ApplyOp(c, SwapOp(a, b), O), c.registry, Swapped(c.dom, a, b), c.deferred)
  <2>1. {a, b} \cap c.registry = {a, b} /\ {a, b} \cap ToSet(c.dom) = {a, b}
    BY <1>3
  <2>2. ApplySwap(c, a, b) = [c EXCEPT !.dom = Swapped(c.dom, a, b)]
    BY <2>1 DEF ApplySwap, Swapped, ClientStates
  <2>3. QED
    BY <1>1, <1>2, <2>2 DEF Is, ClientStates
<1>4. QED
  BY <1>2, <1>3

\* The elements that a swap exchanges stay, each once.
LEMMA SwappedFacts ==
  ASSUME NEW N, NEW s \in Seq(N), NEW a \in N, NEW b \in N
  PROVE  /\ Swapped(s, a, b) \in Seq(N)
         /\ {a, b} \subseteq ToSet(s) => ToSet(Swapped(s, a, b)) = ToSet(s)
         /\ IsInjective(s) => IsInjective(Swapped(s, a, b))
<1>1. Len(s) \in Nat /\ DOMAIN s = 1 .. Len(s) /\ \A i \in 1 .. Len(s) : s[i] \in N
  BY ElementOf
<1>2. PICK t : t = Swapped(s, a, b)
  OBVIOUS
<1>3. /\ t = [i \in 1 .. Len(s) |-> IF s[i] = a THEN b ELSE IF s[i] = b THEN a ELSE s[i]]
  BY <1>1, <1>2 DEF Swapped
<1>4. t \in Seq(N) /\ Len(t) = Len(s)
  BY <1>1, <1>3
<1>5. \A i \in 1 .. Len(s) : t[i] = IF s[i] = a THEN b ELSE IF s[i] = b THEN a ELSE s[i]
  BY <1>3
<1>6. ASSUME {a, b} \subseteq ToSet(s) PROVE ToSet(t) = ToSet(s)
  <2>1. \A x : x \in ToSet(s) <=> \E i \in 1 .. Len(s) : s[i] = x
    BY ToSetFacts
  <2>2. \A x : x \in ToSet(t) <=> \E i \in 1 .. Len(s) : t[i] = x
    BY <1>4, ToSetFacts
  <2>3. PICK i \in 1 .. Len(s), j \in 1 .. Len(s) : s[i] = a /\ s[j] = b
    BY <1>6, <2>1
  <2>4. ASSUME NEW x \in ToSet(s) PROVE x \in ToSet(t)
    BY <1>5, <2>1, <2>2, <2>3
  <2>5. ASSUME NEW x \in ToSet(t) PROVE x \in ToSet(s)
    BY <1>5, <2>1, <2>2, <2>3
  <2>6. QED
    BY <2>4, <2>5
<1>7. ASSUME IsInjective(s) PROVE IsInjective(t)
  <2>1. \A i, j \in 1 .. Len(s) : s[i] = s[j] => i = j
    BY <1>1, <1>7 DEF IsInjective
  <2>2. DOMAIN t = 1 .. Len(s)
    BY <1>4
  <2>3. ASSUME NEW i \in 1 .. Len(s), NEW j \in 1 .. Len(s), t[i] = t[j] PROVE i = j
    BY <1>5, <2>1, <2>3
  <2>4. QED
    BY <2>2, <2>3 DEF IsInjective
<1>8. QED
  BY <1>2, <1>4, <1>6, <1>7

\* An operation is one of six.
LEMMA OpCases ==
  ASSUME NEW N, NEW o \in Ops(N)
  PROVE  \/ \E n \in N : o = InsertOp(n)
         \/ \E n \in N : o = MoveOp(n)
         \/ \E n \in N : o = RemoveOp(n)
         \/ \E ns \in Seq(N) : o = InsertHTML(ns)
         \/ \E c : o.op = "clear" /\ c = o
         \/ \E n, m \in N : o = SwapOp(n, m)
<1>1. /\ o = [op |-> o.op, nodes |-> o.nodes] /\ o.nodes \in Seq(N)
      /\ o.op \in {"insert", "move", "remove", "html", "clear", "swap"}
      /\ o.op \in {"insert", "move", "remove"} => Len(o.nodes) = 1
      /\ o.op = "swap" => Len(o.nodes) = 2
  BY DEF Ops
<1>2. Len(o.nodes) = 1 => o.nodes = <<o.nodes[1]>> /\ o.nodes[1] \in N
  BY <1>1
<1>3. Len(o.nodes) = 2 => o.nodes = <<o.nodes[1], o.nodes[2]>> /\ o.nodes[1] \in N /\ o.nodes[2] \in N
  BY <1>1
<1>4. CASE o.op = "insert"
  BY <1>1, <1>2, <1>4 DEF InsertOp
<1>5. CASE o.op = "move"
  BY <1>1, <1>2, <1>5 DEF MoveOp
<1>6. CASE o.op = "remove"
  BY <1>1, <1>2, <1>6 DEF RemoveOp
<1>7. CASE o.op = "html"
  BY <1>1, <1>7 DEF InsertHTML
<1>8. CASE o.op = "clear"
  BY <1>8
<1>9. CASE o.op = "swap"
  BY <1>1, <1>3, <1>9 DEF SwapOp
<1>10. QED
  BY <1>1, <1>4, <1>5, <1>6, <1>7, <1>8, <1>9

\* An operation leaves a client state.
LEMMA ApplyType ==
  ASSUME NEW N, NEW c \in ClientStates(N), NEW o \in Ops(N), NEW O
  PROVE  ApplyOp(c, o, O) \in ClientStates(N)
<1>1. CASE c.crashed
  BY <1>1 DEF ApplyOp
<1>2. CASE ~c.crashed
  <2>1. /\ c.registry \subseteq N /\ c.dom \in Seq(N) /\ c.deferred \in Seq(N)
        /\ ToSet(c.dom) \subseteq N
    <3>1. c.registry \subseteq N /\ c.dom \in Seq(N) /\ c.deferred \in Seq(N)
      BY DEF ClientStates
    <3>2. QED
      BY <3>1, ToSetFacts
  <2>2. ASSUME NEW n \in N
        PROVE  /\ Append(c.deferred, n) \in Seq(N) /\ Detach(c.dom, n) \in Seq(N)
               /\ Append(Detach(c.dom, n), n) \in Seq(N)
    <3>1. Detach(c.dom, n) \in Seq(N)
      BY <2>1, DetachFacts
    <3>2. QED
      BY <2>1, <3>1, AppendFacts
  <2>3. ASSUME NEW n \in N, NEW orphan \in BOOLEAN PROVE ApplyInsert(c, n, orphan) \in ClientStates(N)
    BY <2>1, <2>2 DEF ApplyInsert, ClientStates
  <2>4. ASSUME NEW n \in N, o = InsertOp(n) PROVE ApplyOp(c, o, O) \in ClientStates(N)
    <3>1. ApplyOp(c, o, O) = ApplyInsert(c, n, n \in O)
      BY <1>2, <2>4 DEF ApplyOp, InsertOp
    <3>2. (n \in O) \in BOOLEAN
      OBVIOUS
    <3>3. QED
      BY <2>3, <3>1, <3>2
  <2>5. ASSUME NEW n \in N, o = MoveOp(n) PROVE ApplyOp(c, o, O) \in ClientStates(N)
    <3>1. ApplyOp(c, o, O) = ApplyInsert(c, n, FALSE)
      BY <1>2, <2>5 DEF ApplyOp, MoveOp
    <3>2. QED
      BY <2>3, <3>1
  <2>6. ASSUME NEW n \in N, o = RemoveOp(n) PROVE ApplyOp(c, o, O) \in ClientStates(N)
    <3>1. ApplyOp(c, o, O) = ApplyRemove(c, n)
      BY <1>2, <2>6 DEF ApplyOp, RemoveOp
    <3>2. QED
      BY <2>1, <2>2, <3>1 DEF ApplyRemove, ClientStates
  <2>7. ASSUME NEW ns \in Seq(N), o = InsertHTML(ns) PROVE ApplyOp(c, o, O) \in ClientStates(N)
    <3>1. ApplyOp(c, o, O) = ApplyHTML(c, ns)
      BY <1>2, <2>7 DEF ApplyOp, InsertHTML
    <3>2. ToSet(ns) \subseteq N /\ c.dom \o ns \in Seq(N)
      BY <2>1, ToSetFacts, ConcatFacts
    <3>3. QED
      BY <2>1, <3>1, <3>2 DEF ApplyHTML, ClientStates
  <2>8. ASSUME o.op = "clear" PROVE ApplyOp(c, o, O) \in ClientStates(N)
    <3>1. ApplyOp(c, o, O) = ApplyClear(c)
      BY <1>2, <2>8 DEF ApplyOp
    <3>2. <<>> \in Seq(N)
      OBVIOUS
    <3>3. QED
      BY <2>1, <3>1, <3>2 DEF ApplyClear, ClientStates
  <2>9. ASSUME NEW a \in N, NEW b \in N, o = SwapOp(a, b) PROVE ApplyOp(c, o, O) \in ClientStates(N)
    <3>1. ApplyOp(c, o, O) = ApplySwap(c, a, b)
      BY <1>2, <2>9 DEF ApplyOp, SwapOp
    <3>2. Swapped(c.dom, a, b) \in Seq(N)
      BY <2>1, SwappedFacts
    <3>3. ApplySwap(c, a, b) \in {c, [c EXCEPT !.crashed = TRUE], [c EXCEPT !.dom = Swapped(c.dom, a, b)]}
      BY DEF ApplySwap, Swapped, ClientStates
    <3>4. QED
      BY <2>1, <3>1, <3>2, <3>3 DEF ClientStates
  <2>10. QED
    BY <2>4, <2>5, <2>6, <2>7, <2>8, <2>9, OpCases
<1>3. QED
  BY <1>1, <1>2

(***************************************************************************)
(* The operations of a frame, applied one after the other.                 *)
(***************************************************************************)

\* Applied, as an equation.
IsApplied(c, ops, O, n, f) ==
    f = [i \in 0 .. n |-> IF i = 0 THEN c ELSE ApplyOp(f[i - 1], ops[i], O)]

\* The equation of Applied has a solution.
LEMMA AppliedExists ==
  ASSUME NEW c, NEW ops, NEW O, NEW n \in Nat
  PROVE  \E f : IsApplied(c, ops, O, n, f)
<1> DEFINE T == {m \in Nat : \E f : IsApplied(c, ops, O, m, f)}
<1>1. 0 \in T
  <2>1. IsApplied(c, ops, O, 0, [i \in 0 .. 0 |-> c])
    BY DEF IsApplied
  <2>2. QED
    BY <2>1
<1>2. ASSUME NEW m \in Nat, m \in T PROVE m + 1 \in T
  <2>1. PICK g : IsApplied(c, ops, O, m, g)
    BY <1>2
  <2> DEFINE f == [i \in 0 .. m + 1 |-> IF i = m + 1 THEN ApplyOp(g[m], ops[i], O) ELSE g[i]]
  <2>2. ASSUME NEW i \in 0 .. m + 1
        PROVE  f[i] = IF i = 0 THEN c ELSE ApplyOp(f[i - 1], ops[i], O)
    <3>1. CASE i = m + 1
      BY <3>1
    <3>2. CASE i \in 0 .. m
      <4>1. g[i] = IF i = 0 THEN c ELSE ApplyOp(g[i - 1], ops[i], O)
        BY <2>1, <3>2 DEF IsApplied
      <4>2. f[i] = g[i] /\ (i # 0 => f[i - 1] = g[i - 1])
        BY <3>2
      <4> HIDE DEF f
      <4>3. QED
        BY <4>1, <4>2
    <3>3. QED
      BY <3>1, <3>2
  <2>3. f = [i \in 0 .. m + 1 |-> IF i = 0 THEN c ELSE ApplyOp(f[i - 1], ops[i], O)]
    BY <2>2
  <2>4. IsApplied(c, ops, O, m + 1, f)
    BY <2>3 DEF IsApplied
  <2>5. QED
    BY <2>4
<1>3. n \in T
  <2> HIDE DEF T
  <2>1. \A m \in Nat : m \in T
    BY <1>1, <1>2, AllNumbers
  <2>2. QED
    BY <2>1
<1>4. QED
  BY <1>3

\* Before the first operation the client is as it was.
LEMMA AppliedStart ==
  ASSUME NEW c, NEW ops, NEW O, NEW n \in Nat, NEW f, IsApplied(c, ops, O, n, f)
  PROVE  f[0] = c
BY DEF IsApplied

\* One operation more.
LEMMA AppliedStep ==
  ASSUME NEW c, NEW ops, NEW O, NEW n \in Nat, NEW f, IsApplied(c, ops, O, n, f),
         NEW i \in Nat, i + 1 <= n
  PROVE  f[i + 1] = ApplyOp(f[i], ops[i + 1], O)
<1>1. i + 1 \in 0 .. n /\ i + 1 # 0 /\ (i + 1) - 1 = i
  OBVIOUS
<1>2. f[i + 1] = IF i + 1 = 0 THEN c ELSE ApplyOp(f[(i + 1) - 1], ops[i + 1], O)
  BY <1>1 DEF IsApplied
<1>3. QED
  BY <1>1, <1>2

\* Applied is the end of a solution of its equation.
LEMMA AppliedIs ==
  ASSUME NEW T, NEW c, NEW ops \in Seq(T), NEW O
  PROVE  \E f : IsApplied(c, ops, O, Len(ops), f) /\ Applied(c, ops, O) = f[Len(ops)]
<1>1. Applied(c, ops, O) = (CHOOSE f : IsApplied(c, ops, O, Len(ops), f))[Len(ops)]
  BY DEF Applied, IsApplied
<1>2. Len(ops) \in Nat
  OBVIOUS
<1>3. \E f : IsApplied(c, ops, O, Len(ops), f)
  BY <1>2, AppliedExists
<1>4. QED
  BY <1>1, <1>3

\* The same operations, applied to the same client, end alike.
LEMMA AppliedUnique ==
  ASSUME NEW c, NEW s, NEW t, NEW O, NEW m \in Nat, NEW n \in Nat, NEW f, NEW g,
         IsApplied(c, s, O, m, f), IsApplied(c, t, O, n, g), NEW k \in Nat, k <= m, k <= n,
         \A i \in 1 .. k : s[i] = t[i]
  PROVE  f[k] = g[k]
<1> DEFINE T == {i \in Nat : i <= k => f[i] = g[i]}
<1>1. 0 \in T
  <2>1. f[0] = c /\ g[0] = c
    BY AppliedStart
  <2>2. QED
    BY <2>1
<1>2. ASSUME NEW i \in Nat, i \in T PROVE i + 1 \in T
  <2>1. SUFFICES ASSUME i + 1 <= k PROVE f[i + 1] = g[i + 1]
    OBVIOUS
  <2>2. f[i] = g[i] /\ s[i + 1] = t[i + 1]
    BY <1>2, <2>1
  <2>3. i + 1 <= m /\ i + 1 <= n
    BY <2>1
  <2>4. f[i + 1] = ApplyOp(f[i], s[i + 1], O)
    BY <2>3, AppliedStep
  <2>5. g[i + 1] = ApplyOp(g[i], t[i + 1], O)
    BY <2>3, AppliedStep
  <2>6. QED
    BY <2>2, <2>4, <2>5
<1>3. k \in T
  <2> HIDE DEF T
  <2>1. \A i \in Nat : i \in T
    BY <1>1, <1>2, AllNumbers
  <2>2. QED
    BY <2>1
<1>4. QED
  BY <1>3

\* An empty frame changes nothing.
LEMMA AppliedEmpty ==
  ASSUME NEW c, NEW O
  PROVE  Applied(c, <<>>, O) = c
<1>1. PICK s, T : s = <<>> /\ T = Nat
  OBVIOUS
<1>2. s \in Seq(T) /\ Len(s) = 0
  BY <1>1
<1>3. PICK f : IsApplied(c, s, O, Len(s), f) /\ Applied(c, s, O) = f[Len(s)]
  BY <1>2, AppliedIs
<1>4. f[0] = c
  BY <1>2, <1>3, AppliedStart
<1>5. QED
  BY <1>1, <1>2, <1>3, <1>4

\* A frame with one operation more.
LEMMA AppliedAppend ==
  ASSUME NEW T, NEW c, NEW ops \in Seq(T), NEW o \in T, NEW O
  PROVE  Applied(c, Append(ops, o), O) = ApplyOp(Applied(c, ops, O), o, O)
<1>1. PICK t, n : t = Append(ops, o) /\ n = Len(ops)
  OBVIOUS
<1>2. /\ t \in Seq(T) /\ Len(t) = n + 1 /\ n \in Nat /\ t[n + 1] = o
      /\ \A i \in 1 .. n : ops[i] = t[i]
  BY <1>1, AppendFacts
<1>3. PICK f : IsApplied(c, ops, O, n, f) /\ Applied(c, ops, O) = f[n]
  BY <1>1, AppliedIs
<1>4. PICK g : IsApplied(c, t, O, n + 1, g) /\ Applied(c, t, O) = g[n + 1]
  BY <1>2, AppliedIs
<1>5. f[n] = g[n]
  BY <1>2, <1>3, <1>4, AppliedUnique
<1>6. PICK m : m = n + 1
  OBVIOUS
<1>7. g[n + 1] = ApplyOp(g[n], t[n + 1], O)
  <2>1. n \in Nat /\ m \in Nat /\ n + 1 <= m /\ IsApplied(c, t, O, m, g)
    BY <1>2, <1>4, <1>6
  <2>2. QED
    BY <2>1, AppliedStep
<1>8. QED
  BY <1>1, <1>2, <1>3, <1>4, <1>5, <1>7

\* A frame of one operation.
LEMMA AppliedOne ==
  ASSUME NEW T, NEW c, NEW o \in T, NEW O
  PROVE  Applied(c, <<o>>, O) = ApplyOp(c, o, O)
<1>1. PICK s : s = <<>>
  OBVIOUS
<1>2. s \in Seq(T)
  BY <1>1
<1>3. Applied(c, Append(s, o), O) = ApplyOp(Applied(c, s, O), o, O)
  BY <1>2, AppliedAppend, Zenon
<1>4. Applied(c, s, O) = c
  BY <1>1, AppliedEmpty
<1>5. Append(s, o) = <<o>>
  BY <1>1
<1>6. QED
  BY <1>3, <1>4, <1>5

\* A frame in two parts.
LEMMA AppliedConcat ==
  ASSUME NEW T, NEW c, NEW s \in Seq(T), NEW t \in Seq(T), NEW O
  PROVE  Applied(c, s \o t, O) = Applied(Applied(c, s, O), t, O)
<1> DEFINE G == {u \in Seq(T) : Applied(c, s \o u, O) = Applied(Applied(c, s, O), u, O)}
<1>1. <<>> \in G
  BY ConcatEmpty, AppliedEmpty
<1>2. ASSUME NEW u \in Seq(T), NEW o \in T, u \in G PROVE Append(u, o) \in G
  <2>1. PICK v, d : v = s \o u /\ d = Applied(c, s, O)
    OBVIOUS
  <2>2. s \o Append(u, o) = Append(v, o) /\ v \in Seq(T) /\ Append(u, o) \in Seq(T)
    BY <2>1, ConcatAppend, ConcatFacts, AppendFacts
  <2>3. Applied(c, Append(v, o), O) = ApplyOp(Applied(c, v, O), o, O)
    BY <2>2, AppliedAppend
  <2>4. Applied(d, Append(u, o), O) = ApplyOp(Applied(d, u, O), o, O)
    BY AppliedAppend
  <2>5. Applied(c, v, O) = Applied(d, u, O)
    BY <1>2, <2>1
  <2>6. Applied(c, Append(v, o), O) = Applied(d, Append(u, o), O)
    BY <2>3, <2>4, <2>5
  <2>7. QED
    BY <2>1, <2>2, <2>6
<1>3. QED
  <2> HIDE DEF G
  <2>1. \A u \in Seq(T) : u \in G
    BY <1>1, <1>2, AllSequences
  <2>2. QED
    BY <2>1 DEF G

\* A frame leaves a client state.
LEMMA AppliedType ==
  ASSUME NEW N, NEW c \in ClientStates(N), NEW ops \in Seq(Ops(N)), NEW O
  PROVE  Applied(c, ops, O) \in ClientStates(N)
<1> DEFINE G == {s \in Seq(Ops(N)) : Applied(c, s, O) \in ClientStates(N)}
<1>1. <<>> \in G
  BY AppliedEmpty
<1>2. ASSUME NEW s \in Seq(Ops(N)), NEW o \in Ops(N), s \in G PROVE Append(s, o) \in G
  <2>1. Applied(c, Append(s, o), O) = ApplyOp(Applied(c, s, O), o, O)
    BY AppliedAppend
  <2>2. PICK d : d = Applied(c, s, O)
    OBVIOUS
  <2>3. d \in ClientStates(N)
    BY <1>2, <2>2
  <2>4. ApplyOp(d, o, O) \in ClientStates(N)
    BY <2>3, ApplyType
  <2>5. QED
    BY <2>1, <2>2, <2>4, AppendFacts
<1>3. QED
  <2> HIDE DEF G
  <2>1. \A s \in Seq(Ops(N)) : s \in G
    BY <1>1, <1>2, AllSequences
  <2>2. QED
    BY <2>1 DEF G

\* Two clients that differ in deferred nodes outside R only.
Alike(c, d, R) ==
    /\ c.registry = d.registry /\ c.dom = d.dom /\ c.crashed = d.crashed
    /\ Only(c.deferred, R) = Only(d.deferred, R)

\* An operation keeps two clients alike, whatever orphans one of them knows.
LEMMA AlikeStep ==
  ASSUME NEW N, NEW c \in ClientStates(N), NEW d \in ClientStates(N), NEW o \in Ops(N),
         NEW O, NEW R, R \cap O = {}, Alike(c, d, R)
  PROVE  Alike(ApplyOp(c, o, O), ApplyOp(d, o, {}), R)
<1>1. CASE c.crashed
  <2>1. ApplyOp(c, o, O) = c /\ ApplyOp(d, o, {}) = d
    BY <1>1 DEF ApplyOp, Alike
  <2>2. QED
    BY <2>1
<1>2. CASE ~c.crashed
  <2>1. ~d.crashed /\ c.registry = d.registry /\ c.dom = d.dom /\ Only(c.deferred, R) = Only(d.deferred, R)
    BY <1>2 DEF Alike
  <2>2. c.deferred \in Seq(N) /\ d.deferred \in Seq(N) /\ c.crashed = FALSE /\ d.crashed = FALSE
    BY <1>2, <2>1 DEF ClientStates
  <2>3. ASSUME NEW n \in N
        PROVE  /\ Only(Append(c.deferred, n), R) = Only(Append(d.deferred, n), R)
               /\ n \notin R => Only(Append(d.deferred, n), R) = Only(c.deferred, R)
    <3>1. Only(Append(c.deferred, n), R) = IF n \in R THEN Append(Only(c.deferred, R), n) ELSE Only(c.deferred, R)
      BY <2>2, OnlyAppend
    <3>2. Only(Append(d.deferred, n), R) = IF n \in R THEN Append(Only(d.deferred, R), n) ELSE Only(d.deferred, R)
      BY <2>2, OnlyAppend
    <3>3. QED
      BY <2>1, <3>1, <3>2
  <2>4. ASSUME NEW n \in N, o = InsertOp(n) PROVE Alike(ApplyOp(c, o, O), ApplyOp(d, o, {}), R)
    <3>1. <<>> \in Seq(N)
      OBVIOUS
    <3>2. CASE n \in c.registry
      <4>1. Is(ApplyOp(c, o, O), c.registry, Append(Detach(c.dom, n), n), c.deferred)
        BY <1>2, <2>4, <3>1, <3>2, OpEffects
      <4>2. Is(ApplyOp(d, o, {}), d.registry, Append(Detach(d.dom, n), n), d.deferred)
        BY <2>1, <2>4, <3>1, <3>2, OpEffects
      <4>3. QED
        BY <2>1, <4>1, <4>2 DEF Alike, Is
    <3>3. CASE n \notin c.registry /\ n \in O
      <4>1. Is(ApplyOp(c, o, O), c.registry \cup {n}, c.dom, c.deferred)
        BY <1>2, <2>4, <3>1, <3>3, OpEffects
      <4>2. Is(ApplyOp(d, o, {}), d.registry \cup {n}, d.dom, Append(d.deferred, n))
        BY <2>1, <2>4, <3>1, <3>3, OpEffects
      <4>3. n \notin R
        BY <3>3
      <4>4. QED
        BY <2>1, <2>3, <4>1, <4>2, <4>3 DEF Alike, Is
    <3>4. CASE n \notin c.registry /\ n \notin O
      <4>1. Is(ApplyOp(c, o, O), c.registry \cup {n}, c.dom, Append(c.deferred, n))
        BY <1>2, <2>4, <3>1, <3>4, OpEffects
      <4>2. Is(ApplyOp(d, o, {}), d.registry \cup {n}, d.dom, Append(d.deferred, n))
        BY <2>1, <2>4, <3>1, <3>4, OpEffects
      <4>3. QED
        BY <2>1, <2>3, <4>1, <4>2 DEF Alike, Is
    <3>5. QED
      BY <3>2, <3>3, <3>4
  <2>5. ASSUME NEW n \in N, o = MoveOp(n) PROVE Alike(ApplyOp(c, o, O), ApplyOp(d, o, {}), R)
    <3>1. <<>> \in Seq(N)
      OBVIOUS
    <3>2. CASE n \in c.registry
      <4>1. Is(ApplyOp(c, o, O), c.registry, Append(Detach(c.dom, n), n), c.deferred)
        BY <1>2, <2>5, <3>1, <3>2, OpEffects
      <4>2. Is(ApplyOp(d, o, {}), d.registry, Append(Detach(d.dom, n), n), d.deferred)
        BY <2>1, <2>5, <3>1, <3>2, OpEffects
      <4>3. QED
        BY <2>1, <4>1, <4>2 DEF Alike, Is
    <3>3. CASE n \notin c.registry
      <4>1. Is(ApplyOp(c, o, O), c.registry \cup {n}, c.dom, Append(c.deferred, n))
        BY <1>2, <2>5, <3>1, <3>3, OpEffects
      <4>2. Is(ApplyOp(d, o, {}), d.registry \cup {n}, d.dom, Append(d.deferred, n))
        BY <2>1, <2>5, <3>1, <3>3, OpEffects
      <4>3. QED
        BY <2>1, <2>3, <4>1, <4>2 DEF Alike, Is
    <3>4. QED
      BY <3>2, <3>3
  <2>6. ASSUME NEW n \in N, o = RemoveOp(n) PROVE Alike(ApplyOp(c, o, O), ApplyOp(d, o, {}), R)
    <3>1. <<>> \in Seq(N)
      OBVIOUS
    <3>2. Is(ApplyOp(c, o, O), c.registry \ {n}, Detach(c.dom, n), c.deferred)
      BY <1>2, <2>6, <3>1, OpEffects
    <3>3. Is(ApplyOp(d, o, {}), d.registry \ {n}, Detach(d.dom, n), d.deferred)
      BY <2>1, <2>6, <3>1, OpEffects
    <3>4. QED
      BY <2>1, <3>2, <3>3 DEF Alike, Is
  <2>7. ASSUME NEW ns \in Seq(N), o = InsertHTML(ns) PROVE Alike(ApplyOp(c, o, O), ApplyOp(d, o, {}), R)
    <3>1. ApplyOp(c, o, O) = ApplyHTML(c, ns) /\ ApplyOp(d, o, {}) = ApplyHTML(d, ns)
      BY <1>2, <2>1, <2>7 DEF ApplyOp, InsertHTML
    <3>2. QED
      BY <2>1, <2>2, <3>1 DEF ApplyHTML, Alike, ClientStates
  <2>8. ASSUME o.op = "clear" PROVE Alike(ApplyOp(c, o, O), ApplyOp(d, o, {}), R)
    <3>1. ApplyOp(c, o, O) = ApplyClear(c) /\ ApplyOp(d, o, {}) = ApplyClear(d)
      BY <1>2, <2>1, <2>8 DEF ApplyOp
    <3>2. QED
      BY <2>1, <2>2, <3>1 DEF ApplyClear, Alike, ClientStates
  <2>9. ASSUME NEW a \in N, NEW b \in N, o = SwapOp(a, b)
        PROVE  Alike(ApplyOp(c, o, O), ApplyOp(d, o, {}), R)
    <3>1. ApplyOp(c, o, O) = ApplySwap(c, a, b) /\ ApplyOp(d, o, {}) = ApplySwap(d, a, b)
      BY <1>2, <2>1, <2>9, SwapEffect
    <3>2. CASE {a, b} \cap c.registry # {a, b}
      BY <2>1, <2>2, <3>1, <3>2 DEF ApplySwap, Alike
    <3>3. CASE {a, b} \cap c.registry = {a, b} /\ {a, b} \cap ToSet(c.dom) # {a, b}
      <4>1. ApplySwap(c, a, b) = [c EXCEPT !.crashed = TRUE] /\ ApplySwap(d, a, b) = [d EXCEPT !.crashed = TRUE]
        BY <2>1, <3>3 DEF ApplySwap
      <4>2. QED
        BY <2>1, <2>2, <3>1, <4>1 DEF Alike, ClientStates
    <3>4. CASE {a, b} \cap c.registry = {a, b} /\ {a, b} \cap ToSet(c.dom) = {a, b}
      <4>1. {a, b} \subseteq c.registry /\ {a, b} \subseteq ToSet(c.dom)
        BY <3>4
      <4>2. Is(ApplyOp(c, o, O), c.registry, Swapped(c.dom, a, b), c.deferred)
        BY <1>2, <2>9, <4>1, SwapEffect
      <4>3. Is(ApplyOp(d, o, {}), d.registry, Swapped(d.dom, a, b), d.deferred)
        BY <2>1, <2>9, <4>1, SwapEffect
      <4>4. QED
        BY <2>1, <4>2, <4>3 DEF Alike, Is
    <3>5. QED
      BY <3>2, <3>3, <3>4
  <2>10. QED
    BY <2>4, <2>5, <2>6, <2>7, <2>8, <2>9, OpCases
<1>3. QED
  BY <1>1, <1>2

\* Whether a node is an orphan matters for the deferred nodes only.
LEMMA OrphansOnlyDefer ==
  ASSUME NEW N, NEW c \in ClientStates(N), NEW ops \in Seq(Ops(N)), NEW O, NEW R, R \cap O = {}
  PROVE  Alike(Applied(c, ops, O), Applied(c, ops, {}), R)
<1> DEFINE G == {s \in Seq(Ops(N)) : Alike(Applied(c, s, O), Applied(c, s, {}), R)}
<1>1. <<>> \in G
  BY AppliedEmpty DEF Alike
<1>2. ASSUME NEW s \in Seq(Ops(N)), NEW o \in Ops(N), s \in G PROVE Append(s, o) \in G
  <2>1. PICK d, e : d = Applied(c, s, O) /\ e = Applied(c, s, {})
    OBVIOUS
  <2>2. d \in ClientStates(N) /\ e \in ClientStates(N) /\ Alike(d, e, R)
    BY <1>2, <2>1, AppliedType
  <2>3. Alike(ApplyOp(d, o, O), ApplyOp(e, o, {}), R)
    BY <2>2, AlikeStep
  <2>4. Applied(c, Append(s, o), O) = ApplyOp(d, o, O)
    BY <2>1, AppliedAppend
  <2>5. Applied(c, Append(s, o), {}) = ApplyOp(e, o, {})
    BY <2>1, AppliedAppend
  <2>6. QED
    BY <2>3, <2>4, <2>5, AppendFacts
<1>3. QED
  <2> HIDE DEF G
  <2>1. \A s \in Seq(Ops(N)) : s \in G
    BY <1>1, <1>2, AllSequences
  <2>2. QED
    BY <2>1 DEF G

(***************************************************************************)
(* What the client shows while operations wait.                            *)
(***************************************************************************)

\* The client knows exactly the nodes N, shows each at most once, and those it
\* does not show yet are deferred; it has deferred nodes of D only.
Shown(c, N, D) ==
    /\ ~c.crashed /\ c.registry = N
    /\ IsInjective(c.dom) /\ ToSet(c.dom) \subseteq N
    /\ N \subseteq ToSet(c.dom) \cup ToSet(c.deferred)
    /\ IsInjective(c.deferred) /\ ToSet(c.deferred) \subseteq D

\* The operations that remove, or insert, a list of nodes.
Removes(g) == [i \in 1 .. Len(g) |-> RemoveOp(g[i])]
Inserts(ns) == [i \in 1 .. Len(ns) |-> InsertOp(ns[i])]

\* The removes of a list with one node more.
LEMMA RemovesAppend ==
  ASSUME NEW U, NEW g \in Seq(U), NEW n \in U
  PROVE  /\ Removes(<<>>) = <<>> /\ Removes(g) \in Seq(Ops(U)) /\ RemoveOp(n) \in Ops(U)
         /\ Removes(Append(g, n)) = Append(Removes(g), RemoveOp(n))
<1> DEFINE f == [m \in U |-> RemoveOp(m)]
<1>1. \A m \in U : RemoveOp(m) \in Ops(U) /\ f[m] = RemoveOp(m)
  <2>1. <<>> \in Seq(U)
    OBVIOUS
  <2>2. QED
    BY <2>1, OpTypes
<1>2. Maps(f, U, Ops(U))
  BY <1>1 DEF Maps
<1>3. ASSUME NEW s \in Seq(U) PROVE Image(f, s) = Removes(s)
  <2>1. \A i \in 1 .. Len(s) : s[i] \in U
    BY ElementOf
  <2>2. \A i \in 1 .. Len(s) : f[s[i]] = RemoveOp(s[i])
    BY <1>1, <2>1
  <2> HIDE DEF f
  <2>3. QED
    BY <2>2 DEF Image, Removes
<1> HIDE DEF f
<1>4. Image(f, Append(g, n)) = Append(Image(f, g), f[n]) /\ Image(f, g) \in Seq(Ops(U))
  BY <1>2, ImageAppend, ImageFacts
<1>5. Append(g, n) \in Seq(U)
  BY AppendFacts
<1>6. Removes(<<>>) = <<>>
  BY DEF Removes
<1>7. QED
  BY <1>1, <1>3, <1>4, <1>5, <1>6

\* The inserts of a list with one node more.
LEMMA InsertsAppend ==
  ASSUME NEW U, NEW g \in Seq(U), NEW n \in U
  PROVE  /\ Inserts(<<>>) = <<>> /\ Inserts(g) \in Seq(Ops(U)) /\ InsertOp(n) \in Ops(U)
         /\ Inserts(Append(g, n)) = Append(Inserts(g), InsertOp(n))
<1> DEFINE f == [m \in U |-> InsertOp(m)]
<1>1. \A m \in U : InsertOp(m) \in Ops(U) /\ f[m] = InsertOp(m)
  <2>1. <<>> \in Seq(U)
    OBVIOUS
  <2>2. QED
    BY <2>1, OpTypes
<1>2. Maps(f, U, Ops(U))
  BY <1>1 DEF Maps
<1>3. ASSUME NEW s \in Seq(U) PROVE Image(f, s) = Inserts(s)
  <2>1. \A i \in 1 .. Len(s) : s[i] \in U
    BY ElementOf
  <2>2. \A i \in 1 .. Len(s) : f[s[i]] = InsertOp(s[i])
    BY <1>1, <2>1
  <2> HIDE DEF f
  <2>3. QED
    BY <2>2 DEF Image, Inserts
<1> HIDE DEF f
<1>4. Image(f, Append(g, n)) = Append(Image(f, g), f[n]) /\ Image(f, g) \in Seq(Ops(U))
  BY <1>2, ImageAppend, ImageFacts
<1>5. Append(g, n) \in Seq(U)
  BY AppendFacts
<1>6. Inserts(<<>>) = <<>>
  BY DEF Inserts
<1>7. QED
  BY <1>1, <1>3, <1>4, <1>5, <1>6

\* A change's removals, one after the other.
LEMMA RemovesApplied ==
  ASSUME NEW U, NEW c \in ClientStates(U), ~c.crashed, NEW g \in Seq(U)
  PROVE  /\ Removes(g) \in Seq(Ops(U))
         /\ Is(Applied(c, Removes(g), {}), c.registry \ ToSet(g),
               Only(c.dom, U \ ToSet(g)), c.deferred)
<1>1. c.dom \in Seq(U) /\ c.deferred \in Seq(U) /\ c.crashed = FALSE
  BY DEF ClientStates
<1> DEFINE G == {s \in Seq(U) : /\ Removes(s) \in Seq(Ops(U))
                                /\ Is(Applied(c, Removes(s), {}), c.registry \ ToSet(s),
                                      Only(c.dom, U \ ToSet(s)), c.deferred)}
<1>2. <<>> \in G
  <2>1. Removes(<<>>) = <<>> /\ Applied(c, <<>>, {}) = c /\ ToSet(<<>>) = {}
    BY AppliedEmpty, ToSetEmpty DEF Removes
  <2>2. Only(c.dom, U) = c.dom
    BY <1>1, OnlyAll
  <2>3. U \ {} = U /\ c.registry \ {} = c.registry
    OBVIOUS
  <2>4. Is(Applied(c, Removes(<<>>), {}), c.registry \ ToSet(<<>>), Only(c.dom, U \ ToSet(<<>>)), c.deferred)
    BY <1>1, <2>1, <2>2, <2>3 DEF Is
  <2>5. <<>> \in Seq(U) /\ Removes(<<>>) \in Seq(Ops(U))
    <3>1. PICK V : V = Ops(U)
      OBVIOUS
    <3>2. <<>> \in Seq(U) /\ <<>> \in Seq(V)
      OBVIOUS
    <3>3. QED
      BY <2>1, <3>1, <3>2
  <2>6. QED
    BY <2>4, <2>5
<1>3. ASSUME NEW s \in Seq(U), NEW n \in U, s \in G PROVE Append(s, n) \in G
  <2>1. PICK ops, d : ops = Removes(s) /\ d = Applied(c, ops, {})
    OBVIOUS
  <2>2. /\ ops \in Seq(Ops(U)) /\ RemoveOp(n) \in Ops(U)
        /\ Removes(Append(s, n)) = Append(ops, RemoveOp(n))
    BY <2>1, RemovesAppend
  <2>3. Is(d, c.registry \ ToSet(s), Only(c.dom, U \ ToSet(s)), c.deferred)
    BY <1>3, <2>1
  <2>4. Applied(c, Append(ops, RemoveOp(n)), {}) = ApplyOp(d, RemoveOp(n), {})
    BY <2>1, <2>2, AppliedAppend
  <2>5. d \in ClientStates(U) /\ ~d.crashed
    BY <2>1, <2>2, <2>3, AppliedType DEF Is
  <2>6. Is(ApplyOp(d, RemoveOp(n), {}), d.registry \ {n}, Detach(d.dom, n), d.deferred)
    <3>1. <<>> \in Seq(U)
      OBVIOUS
    <3>2. QED
      BY <2>5, <3>1, OpEffects
  <2>7. ToSet(Append(s, n)) = ToSet(s) \cup {n} /\ Append(s, n) \in Seq(U)
    BY ToSetAppend, AppendFacts
  <2>8. Detach(d.dom, n) = Only(c.dom, U \ ToSet(Append(s, n)))
    <3>1. PICK R, e : R = U \ ToSet(s) /\ e = d.dom
      OBVIOUS
    <3>2. e = Only(c.dom, R) /\ e \in Seq(U)
      BY <2>3, <2>5, <3>1 DEF Is, ClientStates
    <3>3. Detach(e, n) = Only(e, U \ {n})
      BY <3>2, DetachFacts
    <3>4. Only(Only(c.dom, R), U \ {n}) = Only(c.dom, R \cap (U \ {n}))
      BY <1>1, OnlyOnly
    <3>5. R \cap (U \ {n}) = U \ ToSet(Append(s, n))
      BY <2>7, <3>1
    <3>6. QED
      BY <3>1, <3>2, <3>3, <3>4, <3>5
  <2>9. d.registry \ {n} = c.registry \ ToSet(Append(s, n)) /\ d.deferred = c.deferred
    BY <2>3, <2>7 DEF Is
  <2>10. Removes(Append(s, n)) \in Seq(Ops(U))
    BY <2>7, RemovesAppend
  <2>11. Is(Applied(c, Removes(Append(s, n)), {}), c.registry \ ToSet(Append(s, n)),
            Only(c.dom, U \ ToSet(Append(s, n))), c.deferred)
    BY <2>2, <2>4, <2>6, <2>8, <2>9
  <2>12. QED
    BY <2>7, <2>10, <2>11
<1>4. QED
  <2> HIDE DEF G
  <2>1. \A s \in Seq(U) : s \in G
    BY <1>2, <1>3, AllSequences
  <2>2. QED
    BY <2>1 DEF G

\* The inserts of new nodes, one after the other.
LEMMA InsertsApplied ==
  ASSUME NEW U, NEW c \in ClientStates(U), ~c.crashed, NEW ns \in Seq(U),
         IsInjective(ns), ToSet(ns) \cap c.registry = {}
  PROVE  Is(Applied(c, Inserts(ns), {}), c.registry \cup ToSet(ns), c.dom, c.deferred \o ns)
<1>1. c.dom \in Seq(U) /\ c.deferred \in Seq(U) /\ c.crashed = FALSE
  BY DEF ClientStates
<1> DEFINE G == {s \in Seq(U) :
                    IsInjective(s) /\ ToSet(s) \cap c.registry = {} =>
                        Is(Applied(c, Inserts(s), {}), c.registry \cup ToSet(s),
                           c.dom, c.deferred \o s)}
<1>2. <<>> \in G
  <2>1. Inserts(<<>>) = <<>> /\ Applied(c, <<>>, {}) = c /\ ToSet(<<>>) = {}
    BY AppliedEmpty, ToSetEmpty DEF Inserts
  <2>2. c.deferred \o <<>> = c.deferred
    BY <1>1, ConcatEmpty
  <2>3. c.registry \cup {} = c.registry
    OBVIOUS
  <2>4. Is(Applied(c, Inserts(<<>>), {}), c.registry \cup ToSet(<<>>), c.dom, c.deferred \o <<>>)
    BY <1>1, <2>1, <2>2, <2>3 DEF Is
  <2>5. <<>> \in Seq(U)
    OBVIOUS
  <2>6. QED
    BY <2>4, <2>5
<1>3. ASSUME NEW s \in Seq(U), NEW n \in U, s \in G PROVE Append(s, n) \in G
  <2>1. PICK ops, d : ops = Inserts(s) /\ d = Applied(c, ops, {})
    OBVIOUS
  <2>2. /\ ops \in Seq(Ops(U)) /\ InsertOp(n) \in Ops(U)
        /\ Inserts(Append(s, n)) = Append(ops, InsertOp(n))
    BY <2>1, InsertsAppend
  <2>3. ToSet(Append(s, n)) = ToSet(s) \cup {n} /\ Append(s, n) \in Seq(U)
    BY ToSetAppend, AppendFacts
  <2>4. SUFFICES ASSUME IsInjective(Append(s, n)), ToSet(Append(s, n)) \cap c.registry = {}
                 PROVE  Is(Applied(c, Inserts(Append(s, n)), {}), c.registry \cup ToSet(Append(s, n)),
                           c.dom, c.deferred \o Append(s, n))
    BY <2>3
  <2>5. IsInjective(s) /\ n \notin ToSet(s)
    BY <2>4, OnceAppend
  <2>6. ToSet(s) \cap c.registry = {} /\ n \notin c.registry
    BY <2>3, <2>4
  <2>7. Is(d, c.registry \cup ToSet(s), c.dom, c.deferred \o s)
    BY <1>3, <2>1, <2>5, <2>6
  <2>8. Applied(c, Append(ops, InsertOp(n)), {}) = ApplyOp(d, InsertOp(n), {})
    BY <2>1, <2>2, AppliedAppend
  <2>9. d \in ClientStates(U) /\ ~d.crashed /\ n \notin d.registry
    BY <2>1, <2>2, <2>5, <2>6, <2>7, AppliedType DEF Is
  <2>10. Is(ApplyOp(d, InsertOp(n), {}), d.registry \cup {n}, d.dom, Append(d.deferred, n))
    <3>1. <<>> \in Seq(U)
      OBVIOUS
    <3>2. QED
      BY <2>9, <3>1, OpEffects
  <2>11. Append(d.deferred, n) = c.deferred \o Append(s, n)
    <3>1. d.deferred = c.deferred \o s
      BY <2>7 DEF Is
    <3>2. QED
      <4>1. PICK u : u = c.deferred
        OBVIOUS
      <4>2. u \in Seq(U)
        BY <1>1, <4>1
      <4>3. u \o Append(s, n) = Append(u \o s, n)
        BY <4>2, ConcatAppend
      <4>4. QED
        BY <3>1, <4>1, <4>3
  <2>12. d.registry \cup {n} = c.registry \cup ToSet(Append(s, n)) /\ d.dom = c.dom
    BY <2>3, <2>7 DEF Is
  <2>13. QED
    BY <2>2, <2>8, <2>10, <2>11, <2>12
<1>4. QED
  <2> HIDE DEF G
  <2>1. \A s \in Seq(U) : s \in G
    BY <1>2, <1>3, AllSequences
  <2>2. QED
    BY <2>1 DEF G

\* Which kinds of operations are queued.
Kinds(ops) == {o.op : o \in ToSet(ops)}

\* Queues, as a membership.
LEMMA QueuesKinds ==
  ASSUME NEW ops, NEW k
  PROVE  Queues(ops, k) <=> k \in Kinds(ops)
BY DEF Queues, Kinds

\* The kinds of a concatenation.
LEMMA KindsConcat ==
  ASSUME NEW U, NEW s \in Seq(Ops(U)), NEW t \in Seq(Ops(U))
  PROVE  Kinds(s \o t) = Kinds(s) \cup Kinds(t)
<1>1. ToSet(s \o t) = ToSet(s) \cup ToSet(t)
  BY ToSetConcat
<1>2. QED
  BY <1>1 DEF Kinds

\* The kinds of the operations that remove or insert a list of nodes.
LEMMA ListKinds ==
  ASSUME NEW U, NEW ns \in Seq(U)
  PROVE  /\ Kinds(Inserts(ns)) \subseteq {"insert"} /\ (ns # <<>> => Kinds(Inserts(ns)) = {"insert"})
         /\ Kinds(Removes(ns)) \subseteq {"remove"}
         /\ Kinds(<<>>) = {}
<1>1. Len(ns) \in Nat /\ (ns # <<>> => Len(ns) >= 1)
  OBVIOUS
<1>2. ToSet(Inserts(ns)) = {InsertOp(ns[i]) : i \in 1 .. Len(ns)}
  BY <1>1 DEF ToSet, Inserts
<1>3. ToSet(Removes(ns)) = {RemoveOp(ns[i]) : i \in 1 .. Len(ns)}
  BY <1>1 DEF ToSet, Removes
<1>4. \A n : InsertOp(n).op = "insert" /\ RemoveOp(n).op = "remove"
  BY DEF InsertOp, RemoveOp
<1>5. ns # <<>> => 1 \in 1 .. Len(ns)
  BY <1>1
<1>6. Kinds(Inserts(ns)) \subseteq {"insert"} /\ (ns # <<>> => Kinds(Inserts(ns)) = {"insert"})
  BY <1>2, <1>4, <1>5 DEF Kinds
<1>7. Kinds(Removes(ns)) \subseteq {"remove"}
  BY <1>3, <1>4 DEF Kinds
<1>8. Kinds(<<>>) = {}
  BY ToSetEmpty DEF Kinds
<1>9. QED
  BY <1>6, <1>7, <1>8

\* The kind of a single operation.
LEMMA OneKind ==
  ASSUME NEW o
  PROVE  Kinds(<<o>>) = {o.op} /\ ToSet(<<o>>) = {o}
<1>1. ToSet(<<o>>) = {o}
  BY DEF ToSet
<1>2. QED
  BY <1>1 DEF Kinds

\* flushBulkNew: either way the nodes are registered.
LEMMA BulkApplied ==
  ASSUME NEW U, NEW c \in ClientStates(U), ~c.crashed, NEW ns \in Seq(U),
         IsInjective(ns), ToSet(ns) \cap c.registry = {}
  PROVE  /\ flushBulkNew(ns) \in Seq(Ops(U))
         /\ Len(ns) >= BulkThreshold =>
              /\ Kinds(flushBulkNew(ns)) = {"html"}
              /\ Is(Applied(c, flushBulkNew(ns), {}), c.registry \cup ToSet(ns),
                    c.dom \o ns, c.deferred)
         /\ ~(Len(ns) >= BulkThreshold) =>
              /\ Kinds(flushBulkNew(ns)) \subseteq {"insert"}
              /\ ns # <<>> => Kinds(flushBulkNew(ns)) = {"insert"}
              /\ Is(Applied(c, flushBulkNew(ns), {}), c.registry \cup ToSet(ns),
                    c.dom, c.deferred \o ns)
<1>1. CASE Len(ns) >= BulkThreshold
  <2>1. PICK o : o = InsertHTML(ns)
    OBVIOUS
  <2>2. flushBulkNew(ns) = <<o>>
    BY <1>1, <2>1 DEF flushBulkNew
  <2>3. Is(ApplyOp(c, o, {}), c.registry \cup ToSet(ns), c.dom \o ns, c.deferred) /\ o \in Ops(U)
    <3>1. ApplyOp(c, o, {}) = ApplyHTML(c, ns)
      BY <2>1 DEF ApplyOp, InsertHTML
    <3>2. Is(ApplyOp(c, o, {}), c.registry \cup ToSet(ns), c.dom \o ns, c.deferred)
      BY <3>1 DEF ApplyHTML, Is, ClientStates
    <3>3. o \in Ops(U)
      BY <2>1 DEF Ops, InsertHTML
    <3>4. QED
      BY <3>2, <3>3
  <2>4. Applied(c, <<o>>, {}) = ApplyOp(c, o, {})
    BY <2>3, AppliedOne
  <2>5. Kinds(<<o>>) = {"html"}
    BY <2>1, OneKind DEF InsertHTML
  <2>6. <<o>> \in Seq(Ops(U))
    BY <2>3
  <2>7. QED
    BY <1>1, <2>2, <2>3, <2>4, <2>5, <2>6
<1>2. CASE ~(Len(ns) >= BulkThreshold)
  <2>1. flushBulkNew(ns) = Inserts(ns)
    BY <1>2 DEF flushBulkNew, Inserts
  <2>2. Is(Applied(c, Inserts(ns), {}), c.registry \cup ToSet(ns), c.dom, c.deferred \o ns)
    BY InsertsApplied
  <2>3. Kinds(Inserts(ns)) \subseteq {"insert"} /\ (ns # <<>> => Kinds(Inserts(ns)) = {"insert"})
    BY ListKinds
  <2>4. Inserts(ns) \in Seq(Ops(U))
    <3>1. CASE U = {}
      BY <3>1 DEF Inserts
    <3>2. CASE U # {}
      BY <3>2, InsertsAppend
    <3>3. QED
      BY <3>1, <3>2
  <2>5. QED
    BY <1>2, <2>1, <2>2, <2>3, <2>4
<1>3. QED
  BY <1>1, <1>2

(***************************************************************************)
(* Removes and inserts, applied to a client.                               *)
(***************************************************************************)

\* The types of the parts of a client.
LEMMA ShownTypes ==
  ASSUME NEW U, NEW c \in ClientStates(U)
  PROVE  /\ c.registry \subseteq U /\ c.dom \in Seq(U) /\ c.deferred \in Seq(U)
         /\ c.crashed \in BOOLEAN
         /\ ToSet(c.dom) \subseteq U /\ ToSet(c.deferred) \subseteq U
<1>1. c.registry \subseteq U /\ c.dom \in Seq(U) /\ c.deferred \in Seq(U) /\ c.crashed \in BOOLEAN
  BY DEF ClientStates
<1>2. QED
  BY <1>1, ToSetFacts

\* What is left on the client when the nodes of g are removed.
Without(U, c, g, d, N, D) ==
    /\ d \in ClientStates(U) /\ Removes(g) \in Seq(Ops(U))
    /\ Shown(d, N \ ToSet(g), D)
    /\ d.deferred = c.deferred /\ d.dom = Only(c.dom, U \ ToSet(g))

\* Removes take their nodes away and nothing else.
LEMMA ShownRemoves ==
  ASSUME NEW U, NEW c \in ClientStates(U), NEW N, NEW D, Shown(c, N, D),
         NEW g \in Seq(U), NEW d, d = Applied(c, Removes(g), {})
  PROVE  Without(U, c, g, d, N, D)
<1>1. ~c.crashed
  BY DEF Shown
<1>2. /\ Removes(g) \in Seq(Ops(U))
      /\ Is(d, c.registry \ ToSet(g), Only(c.dom, U \ ToSet(g)), c.deferred)
  BY <1>1, RemovesApplied
<1>3. d \in ClientStates(U)
  BY <1>2, AppliedType
<1>4. c.dom \in Seq(U) /\ ToSet(c.dom) \subseteq U
  BY ShownTypes
<1>5. /\ ToSet(Only(c.dom, U \ ToSet(g))) = ToSet(c.dom) \cap (U \ ToSet(g))
      /\ IsInjective(c.dom) => IsInjective(Only(c.dom, U \ ToSet(g)))
  BY <1>4, OnlyFacts
<1>6. Shown(d, N \ ToSet(g), D)
  BY <1>2, <1>4, <1>5 DEF Shown, Is
<1>7. QED
  BY <1>2, <1>3, <1>6 DEF Is, Without

\* A move shows the same nodes.
LEMMA ShownMove ==
  ASSUME NEW U, NEW c \in ClientStates(U), NEW N, NEW D, Shown(c, N, D),
         NEW n \in N, NEW d, d = ApplyOp(c, MoveOp(n), {})
  PROVE  /\ MoveOp(n) \in Ops(U) /\ d \in ClientStates(U)
         /\ Shown(d, N, D) /\ d.deferred = c.deferred
<1>1. ~c.crashed /\ c.registry = N
  BY DEF Shown
<1>2. n \in U /\ c.dom \in Seq(U) /\ <<>> \in Seq(U)
  BY <1>1, ShownTypes
<1>3. MoveOp(n) \in Ops(U)
  BY <1>2, OpTypes
<1>4. Is(d, c.registry, Append(Detach(c.dom, n), n), c.deferred)
  BY <1>1, <1>2, OpEffects
<1>5. PICK s : s = Detach(c.dom, n)
  OBVIOUS
<1>6. s \in Seq(U) /\ ToSet(s) = ToSet(c.dom) \ {n} /\ (IsInjective(c.dom) => IsInjective(s))
  BY <1>2, <1>5, DetachFacts
<1>7. /\ ToSet(Append(s, n)) = ToSet(s) \cup {n}
      /\ IsInjective(Append(s, n)) <=> IsInjective(s) /\ n \notin ToSet(s)
  BY <1>2, <1>6, ToSetAppend, OnceAppend
<1>8. ToSet(d.dom) = ToSet(c.dom) \cup {n} /\ (IsInjective(c.dom) => IsInjective(d.dom))
  BY <1>4, <1>5, <1>6, <1>7 DEF Is
<1>9. Shown(d, N, D)
  BY <1>1, <1>4, <1>8 DEF Shown, Is
<1>10. d \in ClientStates(U)
  BY <1>3, ApplyType
<1>11. QED
  BY <1>3, <1>4, <1>9, <1>10 DEF Is

\* What the operations of a part of a change leave, if their kinds are known.
After(U, c, ops, d, N, D, kinds) ==
    /\ ops \in Seq(Ops(U)) /\ d \in ClientStates(U)
    /\ Shown(d, N, D)
    /\ Kinds(ops) \subseteq kinds
    /\ "insert" \in Kinds(ops) \/ d.deferred = c.deferred

\* flushBulkNew adds its nodes, at once or deferred.
LEMMA ShownBulk ==
  ASSUME NEW U, NEW c \in ClientStates(U), NEW N, NEW D, Shown(c, N, D),
         NEW ns \in Seq(U), IsInjective(ns), ToSet(ns) \cap (N \cup D) = {},
         NEW d, d = Applied(c, flushBulkNew(ns), {})
  PROVE  After(U, c, flushBulkNew(ns), d, N \cup ToSet(ns), D \cup ToSet(ns), {"html", "insert"})
<1>1. ~c.crashed /\ c.registry = N
  BY DEF Shown
<1>2. ToSet(ns) \cap c.registry = {}
  BY <1>1
<1>3. flushBulkNew(ns) \in Seq(Ops(U))
  BY <1>1, <1>2, BulkApplied
<1>4. d \in ClientStates(U)
  BY <1>3, AppliedType
<1>5. c.dom \in Seq(U) /\ c.deferred \in Seq(U)
  BY ShownTypes
<1>6. CASE Len(ns) >= BulkThreshold
  <2>1. /\ Kinds(flushBulkNew(ns)) = {"html"}
        /\ Is(d, c.registry \cup ToSet(ns), c.dom \o ns, c.deferred)
    BY <1>1, <1>2, <1>6, BulkApplied
  <2>2. PICK s : s = c.dom \o ns
    OBVIOUS
  <2>3. /\ ToSet(s) = ToSet(c.dom) \cup ToSet(ns)
        /\ IsInjective(s) <=> IsInjective(c.dom) /\ IsInjective(ns) /\ ToSet(c.dom) \cap ToSet(ns) = {}
    BY <1>5, <2>2, ToSetConcat, OnceConcat
  <2>4. IsInjective(s) /\ ToSet(s) \subseteq N \cup ToSet(ns)
    BY <2>3 DEF Shown
  <2>5. Shown(d, N \cup ToSet(ns), D \cup ToSet(ns))
    BY <2>1, <2>2, <2>3, <2>4 DEF Shown, Is
  <2>6. QED
    BY <1>3, <1>4, <2>1, <2>5 DEF Is, After
<1>7. CASE ~(Len(ns) >= BulkThreshold)
  <2>1. /\ Kinds(flushBulkNew(ns)) \subseteq {"insert"}
        /\ ns # <<>> => Kinds(flushBulkNew(ns)) = {"insert"}
        /\ Is(d, c.registry \cup ToSet(ns), c.dom, c.deferred \o ns)
    BY <1>1, <1>2, <1>7, BulkApplied
  <2>2. PICK s : s = c.deferred \o ns
    OBVIOUS
  <2>3. /\ ToSet(s) = ToSet(c.deferred) \cup ToSet(ns)
        /\ IsInjective(s) <=> IsInjective(c.deferred) /\ IsInjective(ns) /\ ToSet(c.deferred) \cap ToSet(ns) = {}
    BY <1>5, <2>2, ToSetConcat, OnceConcat
  <2>4. IsInjective(s) /\ ToSet(s) \subseteq D \cup ToSet(ns)
    BY <2>3 DEF Shown
  <2>5. Shown(d, N \cup ToSet(ns), D \cup ToSet(ns))
    BY <2>1, <2>2, <2>3, <2>4 DEF Shown, Is
  <2>6. ns = <<>> => d.deferred = c.deferred
    <3>1. ns = <<>> => c.deferred \o ns = c.deferred
      BY <1>5, ConcatEmpty
    <3>2. QED
      BY <2>1, <3>1 DEF Is
  <2>7. QED
    BY <1>3, <1>4, <2>1, <2>5, <2>6 DEF After
<1>8. QED
  BY <1>6, <1>7

\* ClearChildren leaves nothing, if no insert waits.
LEMMA ShownClear ==
  ASSUME NEW U, NEW c \in ClientStates(U), NEW N, NEW D, Shown(c, N, D), c.deferred = <<>>,
         NEW d, d = ApplyOp(c, ClearOp, {})
  PROVE  d \in ClientStates(U) /\ Is(d, {}, <<>>, <<>>) /\ Shown(d, {}, D)
<1>1. ~c.crashed /\ c.registry = N /\ ToSet(c.dom) = N /\ c.crashed = FALSE
  BY ToSetEmpty DEF Shown, ClientStates
<1>2. d = ApplyClear(c)
  BY <1>1 DEF ApplyOp, ClearOp
<1>3. Is(d, {}, <<>>, <<>>)
  BY <1>1, <1>2 DEF ApplyClear, Is, ClientStates
<1>4. <<>> \in Seq(U)
  OBVIOUS
<1>5. d \in ClientStates(U)
  BY <1>2, <1>4 DEF ApplyClear, ClientStates
<1>6. Shown(d, {}, D)
  BY <1>3, ToSetEmpty, OnceEmpty DEF Shown, Is
<1>7. QED
  BY <1>3, <1>5, <1>6

\* A swap shows the same nodes, if no insert waits.
LEMMA ShownSwap ==
  ASSUME NEW U, NEW c \in ClientStates(U), NEW N, NEW D, Shown(c, N, D), c.deferred = <<>>,
         NEW a \in N, NEW b \in N, NEW d, d = ApplyOp(c, SwapOp(a, b), {})
  PROVE  /\ SwapOp(a, b) \in Ops(U) /\ d \in ClientStates(U)
         /\ Shown(d, N, D) /\ d.deferred = c.deferred
<1>1. ~c.crashed /\ c.registry = N /\ ToSet(c.dom) = N
  BY ToSetEmpty DEF Shown
<1>2. a \in U /\ b \in U /\ c.dom \in Seq(U) /\ <<>> \in Seq(U)
  BY <1>1, ShownTypes
<1>3. SwapOp(a, b) \in Ops(U)
  BY <1>2, OpTypes
<1>4. {a, b} \subseteq c.registry /\ {a, b} \subseteq ToSet(c.dom)
  BY <1>1
<1>5. Is(d, c.registry, Swapped(c.dom, a, b), c.deferred)
  BY <1>1, <1>2, <1>4, SwapEffect
<1>6. ToSet(Swapped(c.dom, a, b)) = ToSet(c.dom) /\ (IsInjective(c.dom) => IsInjective(Swapped(c.dom, a, b)))
  BY <1>2, <1>4, SwappedFacts
<1>7. Shown(d, N, D)
  BY <1>1, <1>5, <1>6 DEF Shown, Is
<1>8. d \in ClientStates(U)
  BY <1>3, ApplyType
<1>9. QED
  BY <1>3, <1>5, <1>7, <1>8 DEF Is

\* The end of the frame: what was deferred and is still known is attached.
\* A client that shows the nodes N: those of c that it does not attach now,
\* then those it attaches.
Attached(U, c, end, N) ==
    /\ end \in ClientStates(U) /\ end.crashed = FALSE /\ end.registry = N
    /\ ToSet(end.dom) = N /\ IsInjective(end.dom)
    /\ end.dom = Only(c.dom, ToSet(c.dom) \ ToSet(Only(c.deferred, N))) \o Only(c.deferred, N)

\* The end of the frame attaches every node that is still known.
LEMMA ShownAttached ==
  ASSUME NEW U, NEW c \in ClientStates(U), NEW N, NEW D, Shown(c, N, D),
         NEW d \in ClientStates(U), Alike(d, c, N)
  PROVE  Attached(U, c, AttachDeferred(d), N)
<1>1. PICK known, rest : known = Only(c.deferred, N) /\ rest = Only(c.dom, ToSet(c.dom) \ ToSet(known))
  OBVIOUS
<1>2. d.registry = N /\ d.dom = c.dom /\ d.crashed = FALSE /\ Only(d.deferred, d.registry) = known
  BY <1>1 DEF Shown, Alike, ClientStates
<1>3. AttachDeferred(d) = [d EXCEPT !.dom = rest \o known]
  BY <1>1, <1>2 DEF AttachDeferred, ClientStates
<1>4. c.dom \in Seq(U) /\ c.deferred \in Seq(U)
  BY ShownTypes
<1>5. /\ known \in Seq(U) /\ ToSet(known) = ToSet(c.deferred) \cap N
      /\ IsInjective(c.deferred) => IsInjective(known)
  BY <1>1, <1>4, OnlyFacts
<1>6. /\ rest \in Seq(U) /\ ToSet(rest) = ToSet(c.dom) \ ToSet(known)
      /\ IsInjective(c.dom) => IsInjective(rest)
  <2>1. PICK R : R = ToSet(c.dom) \ ToSet(known)
    OBVIOUS
  <2>2. /\ rest \in Seq(U) /\ ToSet(rest) = ToSet(c.dom) \cap R
        /\ IsInjective(c.dom) => IsInjective(rest)
    BY <1>1, <1>4, <2>1, OnlyFacts
  <2>3. QED
    BY <2>1, <2>2
<1>7. /\ rest \o known \in Seq(U) /\ ToSet(rest \o known) = ToSet(rest) \cup ToSet(known)
      /\ IsInjective(rest \o known) <=> /\ IsInjective(rest) /\ IsInjective(known)
                                        /\ ToSet(rest) \cap ToSet(known) = {}
  BY <1>5, <1>6, ConcatFacts, ToSetConcat, OnceConcat
<1>8. ToSet(rest \o known) = N /\ IsInjective(rest \o known)
  <2>1. /\ IsInjective(c.dom) /\ IsInjective(c.deferred) /\ ToSet(c.dom) \subseteq N
        /\ N \subseteq ToSet(c.dom) \cup ToSet(c.deferred)
    BY DEF Shown
  <2>2. ToSet(rest) \cup ToSet(known) = N /\ ToSet(rest) \cap ToSet(known) = {}
    BY <1>5, <1>6, <2>1
  <2>3. QED
    BY <1>5, <1>6, <1>7, <2>1, <2>2
<1>9. /\ AttachDeferred(d) \in ClientStates(U)
      /\ AttachDeferred(d).crashed = FALSE /\ AttachDeferred(d).registry = N
      /\ AttachDeferred(d).dom = rest \o known
  BY <1>2, <1>3, <1>7 DEF ClientStates
<1>10. QED
  BY <1>1, <1>8, <1>9 DEF Attached

\* The end of the frame leaves a client state.
LEMMA AttachType ==
  ASSUME NEW U, NEW c \in ClientStates(U)
  PROVE  AttachDeferred(c) \in ClientStates(U)
<1>1. PICK known, rest : /\ known = Only(c.deferred, c.registry)
                         /\ rest = Only(c.dom, ToSet(c.dom) \ ToSet(known))
  OBVIOUS
<1>2. c.dom \in Seq(U) /\ c.deferred \in Seq(U)
  BY ShownTypes
<1>3. known \in Seq(U) /\ rest \in Seq(U)
  <2>1. PICK R, Q : R = ToSet(c.dom) \ ToSet(known) /\ Q = c.registry
    OBVIOUS
  <2>2. Only(c.deferred, Q) \in Seq(U) /\ Only(c.dom, R) \in Seq(U)
    BY <1>2, OnlyFacts
  <2>3. QED
    BY <1>1, <2>1, <2>2
<1>4. rest \o known \in Seq(U)
  BY <1>3, ConcatFacts
<1>5. AttachDeferred(c) \in {c, [c EXCEPT !.dom = rest \o known]}
  BY <1>1 DEF AttachDeferred, ClientStates
<1>6. QED
  BY <1>4, <1>5 DEF ClientStates

(***************************************************************************)
(* The operations of the rebuilding.                                       *)
(***************************************************************************)

\* Rebuild, as an equation.
IsRebuilt(s, isNew, inLIS, n, f) ==
    f = [i \in 0 .. n |-> IF i = 0 THEN [ops |-> <<>>, bulkNew |-> <<>>]
                          ELSE RebuildStep(f[i - 1], s[i], isNew, inLIS)]

\* The equation of Rebuild has a solution.
LEMMA RebuiltExists ==
  ASSUME NEW s, NEW isNew, NEW inLIS, NEW n \in Nat
  PROVE  \E f : IsRebuilt(s, isNew, inLIS, n, f)
<1> DEFINE T == {m \in Nat : \E f : IsRebuilt(s, isNew, inLIS, m, f)}
<1>1. 0 \in T
  <2>1. IsRebuilt(s, isNew, inLIS, 0, [i \in 0 .. 0 |-> [ops |-> <<>>, bulkNew |-> <<>>]])
    BY DEF IsRebuilt
  <2>2. QED
    BY <2>1
<1>2. ASSUME NEW m \in Nat, m \in T PROVE m + 1 \in T
  <2>1. PICK g : IsRebuilt(s, isNew, inLIS, m, g)
    BY <1>2
  <2> DEFINE f == [i \in 0 .. m + 1 |-> IF i = m + 1 THEN RebuildStep(g[m], s[i], isNew, inLIS) ELSE g[i]]
  <2>2. ASSUME NEW i \in 0 .. m + 1
        PROVE  f[i] = IF i = 0 THEN [ops |-> <<>>, bulkNew |-> <<>>]
                      ELSE RebuildStep(f[i - 1], s[i], isNew, inLIS)
    <3>1. CASE i = m + 1
      BY <3>1
    <3>2. CASE i \in 0 .. m
      <4>1. g[i] = IF i = 0 THEN [ops |-> <<>>, bulkNew |-> <<>>]
                   ELSE RebuildStep(g[i - 1], s[i], isNew, inLIS)
        BY <2>1, <3>2 DEF IsRebuilt
      <4>2. f[i] = g[i] /\ (i # 0 => f[i - 1] = g[i - 1])
        BY <3>2
      <4> HIDE DEF f
      <4>3. QED
        BY <4>1, <4>2
    <3>3. QED
      BY <3>1, <3>2
  <2>3. f = [i \in 0 .. m + 1 |-> IF i = 0 THEN [ops |-> <<>>, bulkNew |-> <<>>]
                                  ELSE RebuildStep(f[i - 1], s[i], isNew, inLIS)]
    BY <2>2
  <2>4. IsRebuilt(s, isNew, inLIS, m + 1, f)
    BY <2>3 DEF IsRebuilt
  <2>5. QED
    BY <2>4
<1>3. n \in T
  <2> HIDE DEF T
  <2>1. \A m \in Nat : m \in T
    BY <1>1, <1>2, AllNumbers
  <2>2. QED
    BY <2>1
<1>4. QED
  BY <1>3

\* The rebuilding starts with nothing queued.
LEMMA RebuiltStart ==
  ASSUME NEW s, NEW isNew, NEW inLIS, NEW n \in Nat, NEW f, IsRebuilt(s, isNew, inLIS, n, f)
  PROVE  f[0].ops = <<>> /\ f[0].bulkNew = <<>>
<1>1. f[0] = [ops |-> <<>>, bulkNew |-> <<>>]
  BY DEF IsRebuilt
<1>2. QED
  BY <1>1

\* One node more.
LEMMA RebuiltStep ==
  ASSUME NEW s, NEW isNew, NEW inLIS, NEW n \in Nat, NEW f, IsRebuilt(s, isNew, inLIS, n, f),
         NEW i \in Nat, i + 1 <= n
  PROVE  f[i + 1] = RebuildStep(f[i], s[i + 1], isNew, inLIS)
<1>1. i + 1 \in 0 .. n /\ i + 1 # 0 /\ (i + 1) - 1 = i
  OBVIOUS
<1>2. f[i + 1] = IF i + 1 = 0 THEN [ops |-> <<>>, bulkNew |-> <<>>]
                 ELSE RebuildStep(f[(i + 1) - 1], s[i + 1], isNew, inLIS)
  BY <1>1 DEF IsRebuilt
<1>3. QED
  BY <1>1, <1>2

\* Rebuild is the end of a solution of its equation.
LEMMA RebuiltIs ==
  ASSUME NEW U, NEW s \in Seq(U), NEW isNew, NEW inLIS
  PROVE  \E f : /\ IsRebuilt(s, isNew, inLIS, Len(s), f)
                /\ Rebuild(s, isNew, inLIS) = f[Len(s)].ops \o flushBulkNew(f[Len(s)].bulkNew)
<1>1. PICK f : f = CHOOSE g : IsRebuilt(s, isNew, inLIS, Len(s), g)
  OBVIOUS
<1>2. Rebuild(s, isNew, inLIS) = f[Len(s)].ops \o flushBulkNew(f[Len(s)].bulkNew)
  BY <1>1 DEF Rebuild, IsRebuilt
<1>3. Len(s) \in Nat
  OBVIOUS
<1>4. \E g : IsRebuilt(s, isNew, inLIS, Len(s), g)
  BY <1>3, RebuiltExists
<1>5. QED
  BY <1>1, <1>2, <1>4

\* The first i elements.
Prefix(s, i) == {s[j] : j \in 1 .. i}

\* The first elements, one more.
LEMMA PrefixStep ==
  ASSUME NEW s, NEW i \in Nat
  PROVE  Prefix(s, i + 1) = Prefix(s, i) \cup {s[i + 1]} /\ Prefix(s, 0) = {}
<1>1. \A j \in 1 .. i + 1 : j \in 1 .. i \/ j = i + 1
  OBVIOUS
<1>2. \A j \in 1 .. i : j \in 1 .. i + 1
  OBVIOUS
<1>3. i + 1 \in 1 .. i + 1
  OBVIOUS
<1>4. Prefix(s, i + 1) = Prefix(s, i) \cup {s[i + 1]}
  BY <1>1, <1>2, <1>3 DEF Prefix
<1>5. Prefix(s, 0) = {}
  BY DEF Prefix
<1>6. QED
  BY <1>4, <1>5

\* In a sequence with nothing twice the next element is new.
LEMMA PrefixOnce ==
  ASSUME NEW U, NEW s \in Seq(U), IsInjective(s), NEW i \in Nat, i + 1 <= Len(s)
  PROVE  s[i + 1] \in U /\ s[i + 1] \notin Prefix(s, i)
<1>1. Len(s) \in Nat /\ DOMAIN s = 1 .. Len(s) /\ i + 1 \in 1 .. Len(s)
  OBVIOUS
<1>2. \A j \in 1 .. i : j \in 1 .. Len(s) /\ j # i + 1
  BY <1>1
<1>3. s[i + 1] \notin Prefix(s, i)
  BY <1>1, <1>2 DEF IsInjective, Prefix
<1>4. QED
  BY <1>1, <1>3, ElementOf

\* All the first elements.
LEMMA PrefixAll ==
  ASSUME NEW U, NEW s \in Seq(U)
  PROVE  Prefix(s, Len(s)) = ToSet(s)
BY DEF Prefix, ToSet

\* What the client has after the operations queued for the first i nodes; the
\* nodes in bulkNew are still to be sent.
RebuildInv(U, c, s, isNew, N, D, i, st) ==
    /\ st.ops \in Seq(Ops(U)) /\ st.bulkNew \in Seq(U) /\ IsInjective(st.bulkNew)
    /\ ToSet(st.bulkNew) \subseteq Prefix(s, i) \cap isNew
    /\ Kinds(st.ops) \subseteq {"insert", "html", "move"}
    /\ Applied(c, st.ops, {}) \in ClientStates(U)
    /\ Shown(Applied(c, st.ops, {}), N \cup ((Prefix(s, i) \cap isNew) \ ToSet(st.bulkNew)),
             D \cup ((Prefix(s, i) \cap isNew) \ ToSet(st.bulkNew)))
    /\ "insert" \in Kinds(st.ops) \/ Applied(c, st.ops, {}).deferred = c.deferred

\* Sending the new nodes that wait.
LEMMA RebuildBulk ==
  ASSUME NEW U, NEW c \in ClientStates(U), NEW s, NEW isNew, NEW N, NEW D, NEW i, NEW st,
         RebuildInv(U, c, s, isNew, N, D, i, st), isNew \cap (N \cup D) = {},
         NEW ops, ops = st.ops \o flushBulkNew(st.bulkNew), NEW d, d = Applied(c, ops, {})
  PROVE  After(U, c, ops, d, N \cup (Prefix(s, i) \cap isNew), D \cup (Prefix(s, i) \cap isNew),
               {"insert", "html", "move"})
<1>1. PICK sent, ns, e, M, E :
          /\ sent = st.ops /\ ns = st.bulkNew /\ e = Applied(c, sent, {})
          /\ M = N \cup ((Prefix(s, i) \cap isNew) \ ToSet(ns))
          /\ E = D \cup ((Prefix(s, i) \cap isNew) \ ToSet(ns))
  OBVIOUS
<1>2. /\ sent \in Seq(Ops(U)) /\ ns \in Seq(U) /\ IsInjective(ns)
      /\ ToSet(ns) \subseteq Prefix(s, i) \cap isNew
      /\ Kinds(sent) \subseteq {"insert", "html", "move"}
      /\ e \in ClientStates(U) /\ Shown(e, M, E)
      /\ "insert" \in Kinds(sent) \/ e.deferred = c.deferred
  BY <1>1 DEF RebuildInv
<1>3. ToSet(ns) \cap (M \cup E) = {}
  BY <1>1, <1>2
<1>4. PICK bulk, f : bulk = flushBulkNew(ns) /\ f = Applied(e, bulk, {})
  OBVIOUS
<1>5. /\ bulk \in Seq(Ops(U)) /\ f \in ClientStates(U)
      /\ Shown(f, M \cup ToSet(ns), E \cup ToSet(ns))
      /\ Kinds(bulk) \subseteq {"html", "insert"}
      /\ "insert" \in Kinds(bulk) \/ f.deferred = e.deferred
  <2>1. After(U, e, bulk, f, M \cup ToSet(ns), E \cup ToSet(ns), {"html", "insert"})
    BY <1>2, <1>3, <1>4, ShownBulk
  <2>2. QED
    BY <2>1 DEF After
<1>6. ops = sent \o bulk /\ ops \in Seq(Ops(U))
  BY <1>1, <1>2, <1>4, <1>5, ConcatFacts
<1>7. d = f
  BY <1>1, <1>2, <1>4, <1>5, <1>6, AppliedConcat
<1>8. Kinds(ops) = Kinds(sent) \cup Kinds(bulk)
  BY <1>2, <1>5, <1>6, KindsConcat
<1>9. M \cup ToSet(ns) = N \cup (Prefix(s, i) \cap isNew) /\ E \cup ToSet(ns) = D \cup (Prefix(s, i) \cap isNew)
  BY <1>1, <1>2
<1>10. QED
  <2>1. Shown(d, N \cup (Prefix(s, i) \cap isNew), D \cup (Prefix(s, i) \cap isNew))
    BY <1>5, <1>7, <1>9
  <2>2. Kinds(ops) \subseteq {"insert", "html", "move"}
    BY <1>2, <1>5, <1>8
  <2>3. "insert" \in Kinds(ops) \/ d.deferred = c.deferred
    BY <1>2, <1>5, <1>7, <1>8
  <2>4. QED
    BY <1>5, <1>6, <1>7, <2>1, <2>2, <2>3 DEF After

\* A step of the rebuilding keeps what the client is to show.
LEMMA RebuildKeeps ==
  ASSUME NEW U, NEW c \in ClientStates(U), NEW s \in Seq(U), IsInjective(s),
         NEW isNew, NEW inLIS, NEW N, NEW D, isNew \cap (N \cup D) = {},
         ToSet(s) \subseteq isNew \cup N,
         NEW i \in Nat, i + 1 <= Len(s), NEW st, RebuildInv(U, c, s, isNew, N, D, i, st)
  PROVE  RebuildInv(U, c, s, isNew, N, D, i + 1, RebuildStep(st, s[i + 1], isNew, inLIS))
<1>1. PICK n, new : n = s[i + 1] /\ new = RebuildStep(st, n, isNew, inLIS)
  OBVIOUS
<1>2. n \in U /\ n \notin Prefix(s, i) /\ n \in isNew \cup N
  <2>1. i + 1 \in 1 .. Len(s)
    OBVIOUS
  <2>2. s[i + 1] \in ToSet(s)
    BY <2>1, ToSetFacts
  <2>3. QED
    BY <1>1, <2>2, PrefixOnce
<1>3. Prefix(s, i + 1) = Prefix(s, i) \cup {n}
  BY <1>1, PrefixStep
<1>4. /\ st.ops \in Seq(Ops(U)) /\ st.bulkNew \in Seq(U) /\ IsInjective(st.bulkNew)
      /\ ToSet(st.bulkNew) \subseteq Prefix(s, i) \cap isNew
  BY DEF RebuildInv
<1>5. CASE n \in isNew
  <2>1. new.ops = st.ops /\ new.bulkNew = Append(st.bulkNew, n)
    <3>1. new = [st EXCEPT !.bulkNew = Append(@, n)]
      BY <1>1, <1>5 DEF RebuildStep
    <3>2. QED
      BY <3>1
  <2>2. PICK b : b = st.bulkNew
    OBVIOUS
  <2>3. /\ Append(b, n) \in Seq(U) /\ ToSet(Append(b, n)) = ToSet(b) \cup {n}
        /\ IsInjective(Append(b, n)) <=> IsInjective(b) /\ n \notin ToSet(b)
    BY <1>2, <1>4, <2>2, AppendFacts, ToSetAppend, OnceAppend
  <2>4. n \notin ToSet(b)
    BY <1>2, <1>4, <2>2
  <2>5. (Prefix(s, i + 1) \cap isNew) \ ToSet(new.bulkNew) = (Prefix(s, i) \cap isNew) \ ToSet(st.bulkNew)
    BY <1>2, <1>3, <2>1, <2>2, <2>3
  <2>6. ToSet(new.bulkNew) \subseteq Prefix(s, i + 1) \cap isNew
    BY <1>3, <1>4, <1>5, <2>1, <2>2, <2>3
  <2>7. RebuildInv(U, c, s, isNew, N, D, i + 1, new)
    BY <1>4, <2>1, <2>2, <2>3, <2>4, <2>5, <2>6 DEF RebuildInv
  <2>8. QED
    BY <1>1, <2>7
<1>6. CASE n \notin isNew /\ n \in inLIS
  <2>1. new = st
    BY <1>1, <1>6 DEF RebuildStep
  <2>2. Prefix(s, i + 1) \cap isNew = Prefix(s, i) \cap isNew
    BY <1>3, <1>6
  <2>3. RebuildInv(U, c, s, isNew, N, D, i + 1, st)
    BY <2>2 DEF RebuildInv
  <2>4. QED
    BY <1>1, <2>1, <2>3
<1>7. CASE n \notin isNew /\ n \notin inLIS
  <2>1. PICK ops, d, M, E :
            /\ ops = st.ops \o flushBulkNew(st.bulkNew) /\ d = Applied(c, ops, {})
            /\ M = N \cup (Prefix(s, i) \cap isNew) /\ E = D \cup (Prefix(s, i) \cap isNew)
    OBVIOUS
  <2>2. /\ ops \in Seq(Ops(U)) /\ d \in ClientStates(U)
        /\ Kinds(ops) \subseteq {"insert", "html", "move"}
        /\ Shown(d, M, E)
        /\ "insert" \in Kinds(ops) \/ d.deferred = c.deferred
    <3>1. After(U, c, ops, d, M, E, {"insert", "html", "move"})
      BY <2>1, RebuildBulk
    <3>2. QED
      BY <3>1 DEF After
  <2>3. new.ops = ops \o <<MoveOp(n)>> /\ new.bulkNew = <<>>
    BY <1>1, <1>7, <2>1 DEF RebuildStep
  <2>4. n \in M
    BY <1>2, <1>7, <2>1
  <2>5. PICK o, e : o = MoveOp(n) /\ e = ApplyOp(d, o, {})
    OBVIOUS
  <2>6. o \in Ops(U) /\ e \in ClientStates(U) /\ Shown(e, M, E) /\ e.deferred = d.deferred
    BY <2>2, <2>4, <2>5, ShownMove
  <2>7. <<o>> \in Seq(Ops(U)) /\ Applied(d, <<o>>, {}) = e
    BY <2>5, <2>6, AppliedOne
  <2>8. new.ops \in Seq(Ops(U)) /\ Applied(c, new.ops, {}) = e
    <3>1. PICK t : t = <<o>>
      OBVIOUS
    <3>2. t \in Seq(Ops(U)) /\ new.ops = ops \o t
      BY <2>3, <2>5, <2>7, <3>1
    <3>3. ops \o t \in Seq(Ops(U)) /\ Applied(c, ops \o t, {}) = Applied(Applied(c, ops, {}), t, {})
      BY <2>2, <3>2, ConcatFacts, AppliedConcat
    <3>4. QED
      BY <2>1, <2>7, <3>1, <3>2, <3>3
  <2>9. Kinds(<<o>>) = {"move"}
    BY <2>5, OneKind DEF MoveOp
  <2>10. Kinds(new.ops) = Kinds(ops) \cup {"move"}
    <3>1. PICK t : t = <<o>>
      OBVIOUS
    <3>2. t \in Seq(Ops(U)) /\ new.ops = ops \o t
      BY <2>3, <2>5, <2>7, <3>1
    <3>3. Kinds(ops \o t) = Kinds(ops) \cup Kinds(t)
      BY <2>2, <3>2, KindsConcat
    <3>4. QED
      BY <2>9, <3>1, <3>2, <3>3
  <2>11. Prefix(s, i + 1) \cap isNew = Prefix(s, i) \cap isNew
    BY <1>3, <1>7
  <2>12. ToSet(<<>>) = {} /\ IsInjective(<<>>) /\ <<>> \in Seq(U)
    BY ToSetEmpty, OnceEmpty
  <2>13. N \cup ((Prefix(s, i + 1) \cap isNew) \ ToSet(new.bulkNew)) = M
         /\ D \cup ((Prefix(s, i + 1) \cap isNew) \ ToSet(new.bulkNew)) = E
    BY <2>1, <2>3, <2>11, <2>12
  <2>14. ToSet(new.bulkNew) \subseteq Prefix(s, i + 1) \cap isNew
    BY <2>3, <2>12
  <2>15. RebuildInv(U, c, s, isNew, N, D, i + 1, new)
    BY <2>2, <2>3, <2>6, <2>8, <2>10, <2>12, <2>13, <2>14 DEF RebuildInv
  <2>16. QED
    BY <1>1, <2>15
<1>8. QED
  BY <1>5, <1>6, <1>7

\* The client after the whole rebuilding.
LEMMA RebuildShown ==
  ASSUME NEW U, NEW c \in ClientStates(U), NEW s \in Seq(U), IsInjective(s),
         NEW isNew, NEW inLIS, NEW N, NEW D, isNew \cap (N \cup D) = {},
         ToSet(s) \subseteq isNew \cup N, Shown(c, N, D),
         NEW ops, ops = Rebuild(s, isNew, inLIS), NEW d, d = Applied(c, ops, {})
  PROVE  After(U, c, ops, d, N \cup (ToSet(s) \cap isNew), D \cup (ToSet(s) \cap isNew),
               {"insert", "html", "move"})
<1>1. PICK f : /\ IsRebuilt(s, isNew, inLIS, Len(s), f)
               /\ ops = f[Len(s)].ops \o flushBulkNew(f[Len(s)].bulkNew)
  BY RebuiltIs
<1>2. Len(s) \in Nat
  OBVIOUS
<1> DEFINE T == {i \in Nat : i <= Len(s) => RebuildInv(U, c, s, isNew, N, D, i, f[i])}
<1>3. 0 \in T
  <2>1. f[0].ops = <<>> /\ f[0].bulkNew = <<>>
    BY <1>1, <1>2, RebuiltStart
  <2>2. <<>> \in Seq(U) /\ ToSet(<<>>) = {} /\ IsInjective(<<>>)
    BY ToSetEmpty, OnceEmpty
  <2>3. PICK V : V = Ops(U)
    OBVIOUS
  <2>4. <<>> \in Seq(V) /\ Kinds(<<>>) = {}
    BY ToSetEmpty DEF Kinds
  <2>5. Applied(c, <<>>, {}) = c
    BY AppliedEmpty
  <2>6. Prefix(s, 0) = {}
    BY DEF Prefix
  <2>7. N \cup ((Prefix(s, 0) \cap isNew) \ ToSet(<<>>)) = N /\ D \cup ((Prefix(s, 0) \cap isNew) \ ToSet(<<>>)) = D
    BY <2>6
  <2>8. RebuildInv(U, c, s, isNew, N, D, 0, f[0])
    BY <2>1, <2>2, <2>3, <2>4, <2>5, <2>6, <2>7 DEF RebuildInv
  <2>9. QED
    BY <2>8
<1>4. ASSUME NEW i \in Nat, i \in T PROVE i + 1 \in T
  <2>1. SUFFICES ASSUME i + 1 <= Len(s) PROVE RebuildInv(U, c, s, isNew, N, D, i + 1, f[i + 1])
    OBVIOUS
  <2>2. RebuildInv(U, c, s, isNew, N, D, i, f[i])
    BY <1>2, <1>4, <2>1
  <2>3. f[i + 1] = RebuildStep(f[i], s[i + 1], isNew, inLIS)
    BY <1>1, <1>2, <2>1, RebuiltStep
  <2>4. PICK st : st = f[i]
    OBVIOUS
  <2>5. RebuildInv(U, c, s, isNew, N, D, i + 1, RebuildStep(st, s[i + 1], isNew, inLIS))
    BY <2>1, <2>2, <2>4, RebuildKeeps
  <2>6. QED
    BY <2>3, <2>4, <2>5
<1>5. RebuildInv(U, c, s, isNew, N, D, Len(s), f[Len(s)])
  <2> HIDE DEF T
  <2>1. \A i \in Nat : i \in T
    BY <1>3, <1>4, AllNumbers
  <2>2. QED
    BY <1>2, <2>1 DEF T
<1>6. Prefix(s, Len(s)) = ToSet(s)
  BY PrefixAll
<1>7. PICK st, i : st = f[Len(s)] /\ i = Len(s)
  OBVIOUS
<1>8. RebuildInv(U, c, s, isNew, N, D, i, st) /\ ops = st.ops \o flushBulkNew(st.bulkNew)
  BY <1>1, <1>5, <1>7
<1>9. After(U, c, ops, d, N \cup (Prefix(s, i) \cap isNew), D \cup (Prefix(s, i) \cap isNew),
            {"insert", "html", "move"})
  BY <1>8, RebuildBulk
<1>10. QED
  BY <1>6, <1>7, <1>9

(***************************************************************************)
(* What the rebuilding moves.                                              *)
(***************************************************************************)

\* The nodes that operations move or swap.
Moved(ops) ==
    UNION {ToSet(o.nodes) : o \in {p \in ToSet(ops) : p.op \in {"move", "swap"}}}

\* What a concatenation moves.
LEMMA MovedConcat ==
  ASSUME NEW U, NEW s \in Seq(Ops(U)), NEW t \in Seq(Ops(U))
  PROVE  Moved(s \o t) = Moved(s) \cup Moved(t)
<1>1. ToSet(s \o t) = ToSet(s) \cup ToSet(t)
  BY ToSetConcat
<1>2. QED
  BY <1>1 DEF Moved

\* Operations that are no moves and no swaps move nothing.
LEMMA MovedNone ==
  ASSUME NEW ops, "move" \notin Kinds(ops), "swap" \notin Kinds(ops)
  PROVE  Moved(ops) = {}
BY DEF Moved, Kinds

\* flushBulkNew queues inserts, or one bulk insert.
LEMMA BulkKinds ==
  ASSUME NEW U, NEW ns \in Seq(U)
  PROVE  flushBulkNew(ns) \in Seq(Ops(U)) /\ Kinds(flushBulkNew(ns)) \subseteq {"html", "insert"}
<1>1. CASE Len(ns) >= BulkThreshold
  <2>1. PICK o : o = InsertHTML(ns)
    OBVIOUS
  <2>2. flushBulkNew(ns) = <<o>>
    BY <1>1, <2>1 DEF flushBulkNew
  <2>3. o \in Ops(U)
    BY <2>1 DEF Ops, InsertHTML
  <2>4. Kinds(<<o>>) = {"html"}
    BY <2>1, OneKind DEF InsertHTML
  <2>5. <<o>> \in Seq(Ops(U))
    BY <2>3
  <2>6. QED
    BY <2>2, <2>4, <2>5
<1>2. CASE ~(Len(ns) >= BulkThreshold)
  <2>1. flushBulkNew(ns) = Inserts(ns)
    BY <1>2 DEF flushBulkNew, Inserts
  <2>2. Kinds(Inserts(ns)) \subseteq {"insert"}
    BY ListKinds
  <2>3. Inserts(ns) \in Seq(Ops(U))
    <3>1. CASE U = {}
      BY <3>1 DEF Inserts
    <3>2. CASE U # {}
      BY <3>2, InsertsAppend
    <3>3. QED
      BY <3>1, <3>2
  <2>4. QED
    BY <2>1, <2>2, <2>3
<1>3. QED
  BY <1>1, <1>2

\* A move moves its node.
LEMMA MovedOne ==
  ASSUME NEW U, NEW n \in U
  PROVE  <<MoveOp(n)>> \in Seq(Ops(U)) /\ Moved(<<MoveOp(n)>>) = {n}
<1>1. <<>> \in Seq(U)
  OBVIOUS
<1>2. PICK o : o = MoveOp(n)
  OBVIOUS
<1>3. o \in Ops(U) /\ o.op = "move" /\ o.nodes = <<n>>
  BY <1>1, <1>2, OpTypes DEF MoveOp
<1>4. ToSet(<<o>>) = {o} /\ ToSet(<<n>>) = {n}
  BY OneKind
<1>5. Moved(<<o>>) = {n}
  BY <1>3, <1>4 DEF Moved
<1>6. <<o>> \in Seq(Ops(U))
  BY <1>3
<1>7. QED
  BY <1>2, <1>5, <1>6

\* After i nodes the moves are those of the nodes that are neither new nor
\* marked.
MoveInv(U, s, isNew, inLIS, i, st) ==
    /\ st.ops \in Seq(Ops(U)) /\ st.bulkNew \in Seq(U)
    /\ Moved(st.ops) = Prefix(s, i) \ (isNew \cup inLIS)

\* The operations move M and no other node.
Moves(U, ops, M) == ops \in Seq(Ops(U)) /\ Moved(ops) = M

\* Queueing the new nodes moves nothing.
LEMMA MoveBulk ==
  ASSUME NEW U, NEW s, NEW isNew, NEW inLIS, NEW i, NEW st, MoveInv(U, s, isNew, inLIS, i, st),
         NEW ops, ops = st.ops \o flushBulkNew(st.bulkNew)
  PROVE  Moves(U, ops, Prefix(s, i) \ (isNew \cup inLIS))
<1>1. PICK sent, bulk, ns : sent = st.ops /\ ns = st.bulkNew /\ bulk = flushBulkNew(ns)
  OBVIOUS
<1>2. sent \in Seq(Ops(U)) /\ ns \in Seq(U) /\ Moved(sent) = Prefix(s, i) \ (isNew \cup inLIS)
  BY <1>1 DEF MoveInv
<1>3. bulk \in Seq(Ops(U)) /\ Kinds(bulk) \subseteq {"html", "insert"}
  BY <1>1, <1>2, BulkKinds
<1>4. Moved(bulk) = {}
  BY <1>3, MovedNone
<1>5. ops = sent \o bulk
  BY <1>1
<1>6. sent \o bulk \in Seq(Ops(U)) /\ Moved(sent \o bulk) = Moved(sent) \cup Moved(bulk)
  BY <1>2, <1>3, ConcatFacts, MovedConcat
<1>7. QED
  BY <1>2, <1>4, <1>5, <1>6 DEF Moves

\* A step of the rebuilding moves a node that is neither new nor marked.
LEMMA MoveKeeps ==
  ASSUME NEW U, NEW s \in Seq(U), NEW isNew, NEW inLIS,
         NEW i \in Nat, i + 1 <= Len(s), NEW st, MoveInv(U, s, isNew, inLIS, i, st)
  PROVE  MoveInv(U, s, isNew, inLIS, i + 1, RebuildStep(st, s[i + 1], isNew, inLIS))
<1>1. PICK n, new : n = s[i + 1] /\ new = RebuildStep(st, n, isNew, inLIS)
  OBVIOUS
<1>2. n \in U
  <2>1. i + 1 \in 1 .. Len(s)
    OBVIOUS
  <2>2. QED
    BY <1>1, <2>1, ElementOf
<1>3. Prefix(s, i + 1) = Prefix(s, i) \cup {n}
  BY <1>1, PrefixStep
<1>4. /\ st.ops \in Seq(Ops(U)) /\ st.bulkNew \in Seq(U)
      /\ Moved(st.ops) = Prefix(s, i) \ (isNew \cup inLIS)
  BY DEF MoveInv
<1>5. CASE n \in isNew
  <2>1. new = [st EXCEPT !.bulkNew = Append(@, n)]
    BY <1>1, <1>5 DEF RebuildStep
  <2>2. new.ops = st.ops /\ new.bulkNew = Append(st.bulkNew, n)
    BY <2>1
  <2>3. Append(st.bulkNew, n) \in Seq(U)
    BY <1>2, <1>4, AppendFacts
  <2>4. Prefix(s, i + 1) \ (isNew \cup inLIS) = Prefix(s, i) \ (isNew \cup inLIS)
    BY <1>3, <1>5
  <2>5. QED
    BY <1>1, <1>4, <2>2, <2>3, <2>4 DEF MoveInv
<1>6. CASE n \notin isNew /\ n \in inLIS
  <2>1. new = st
    BY <1>1, <1>6 DEF RebuildStep
  <2>2. Prefix(s, i + 1) \ (isNew \cup inLIS) = Prefix(s, i) \ (isNew \cup inLIS)
    BY <1>3, <1>6
  <2>3. QED
    BY <1>1, <1>4, <2>1, <2>2 DEF MoveInv
<1>7. CASE n \notin isNew /\ n \notin inLIS
  <2>1. PICK ops, t : ops = st.ops \o flushBulkNew(st.bulkNew) /\ t = <<MoveOp(n)>>
    OBVIOUS
  <2>2. ops \in Seq(Ops(U)) /\ Moved(ops) = Prefix(s, i) \ (isNew \cup inLIS)
    <3>1. Moves(U, ops, Prefix(s, i) \ (isNew \cup inLIS))
      BY <2>1, MoveBulk
    <3>2. QED
      BY <3>1 DEF Moves
  <2>3. t \in Seq(Ops(U)) /\ Moved(t) = {n}
    BY <1>2, <2>1, MovedOne
  <2>4. new.ops = ops \o t /\ new.bulkNew = <<>>
    BY <1>1, <1>7, <2>1 DEF RebuildStep
  <2>5. ops \o t \in Seq(Ops(U)) /\ Moved(ops \o t) = Moved(ops) \cup Moved(t)
    BY <2>2, <2>3, ConcatFacts, MovedConcat
  <2>6. Prefix(s, i + 1) \ (isNew \cup inLIS) = (Prefix(s, i) \ (isNew \cup inLIS)) \cup {n}
    BY <1>3, <1>7
  <2>7. <<>> \in Seq(U)
    OBVIOUS
  <2>8. QED
    BY <1>1, <2>2, <2>3, <2>4, <2>5, <2>6, <2>7 DEF MoveInv
<1>8. QED
  BY <1>5, <1>6, <1>7

\* The rebuilding moves the nodes that are neither new nor marked.
LEMMA RebuildMoves ==
  ASSUME NEW U, NEW s \in Seq(U), NEW isNew, NEW inLIS,
         NEW ops, ops = Rebuild(s, isNew, inLIS)
  PROVE  Moves(U, ops, ToSet(s) \ (isNew \cup inLIS))
<1>1. PICK f : /\ IsRebuilt(s, isNew, inLIS, Len(s), f)
               /\ ops = f[Len(s)].ops \o flushBulkNew(f[Len(s)].bulkNew)
  BY RebuiltIs
<1>2. Len(s) \in Nat
  OBVIOUS
<1> DEFINE T == {i \in Nat : i <= Len(s) => MoveInv(U, s, isNew, inLIS, i, f[i])}
<1>3. 0 \in T
  <2>1. f[0].ops = <<>> /\ f[0].bulkNew = <<>>
    BY <1>1, <1>2, RebuiltStart
  <2>2. PICK V : V = Ops(U)
    OBVIOUS
  <2>3. <<>> \in Seq(U) /\ <<>> \in Seq(V)
    OBVIOUS
  <2>4. Moved(<<>>) = {} /\ Prefix(s, 0) = {}
    BY ToSetEmpty DEF Moved, Prefix
  <2>5. MoveInv(U, s, isNew, inLIS, 0, f[0])
    BY <2>1, <2>2, <2>3, <2>4 DEF MoveInv
  <2>6. QED
    BY <2>5
<1>4. ASSUME NEW i \in Nat, i \in T PROVE i + 1 \in T
  <2>1. SUFFICES ASSUME i + 1 <= Len(s) PROVE MoveInv(U, s, isNew, inLIS, i + 1, f[i + 1])
    OBVIOUS
  <2>2. PICK st : st = f[i]
    OBVIOUS
  <2>3. MoveInv(U, s, isNew, inLIS, i, st)
    BY <1>2, <1>4, <2>1, <2>2
  <2>4. f[i + 1] = RebuildStep(st, s[i + 1], isNew, inLIS)
    BY <1>1, <1>2, <2>1, <2>2, RebuiltStep
  <2>5. MoveInv(U, s, isNew, inLIS, i + 1, RebuildStep(st, s[i + 1], isNew, inLIS))
    BY <2>1, <2>3, MoveKeeps
  <2>6. QED
    BY <2>4, <2>5
<1>5. MoveInv(U, s, isNew, inLIS, Len(s), f[Len(s)])
  <2> HIDE DEF T
  <2>1. \A i \in Nat : i \in T
    BY <1>3, <1>4, AllNumbers
  <2>2. QED
    BY <1>2, <2>1 DEF T
<1>6. PICK st, i : st = f[Len(s)] /\ i = Len(s)
  OBVIOUS
<1>7. MoveInv(U, s, isNew, inLIS, i, st) /\ ops = st.ops \o flushBulkNew(st.bulkNew)
  BY <1>1, <1>5, <1>6
<1>8. ops \in Seq(Ops(U)) /\ Moved(ops) = Prefix(s, i) \ (isNew \cup inLIS)
  <2>1. Moves(U, ops, Prefix(s, i) \ (isNew \cup inLIS))
    BY <1>7, MoveBulk
  <2>2. QED
    BY <2>1 DEF Moves
<1>9. QED
  BY <1>6, <1>8, PrefixAll DEF Moves

\* If every node is new or marked, the new ones go out together.
LEMMA RebuildAppends ==
  ASSUME NEW U, NEW s \in Seq(U), NEW isNew, NEW inLIS, ToSet(s) \subseteq isNew \cup inLIS
  PROVE  Rebuild(s, isNew, inLIS) = flushBulkNew(Only(s, isNew))
<1>1. PICK f : /\ IsRebuilt(s, isNew, inLIS, Len(s), f)
               /\ Rebuild(s, isNew, inLIS) = f[Len(s)].ops \o flushBulkNew(f[Len(s)].bulkNew)
  BY RebuiltIs
<1>2. PICK g : IsOnly(s, isNew, Len(s), g) /\ Only(s, isNew) = g[Len(s)]
  BY OnlyIs
<1>3. Len(s) \in Nat
  OBVIOUS
<1> DEFINE T == {i \in Nat : i <= Len(s) => f[i].ops = <<>> /\ f[i].bulkNew = g[i]}
<1>4. 0 \in T
  BY <1>1, <1>2, <1>3, RebuiltStart, OnlyStart
<1>5. ASSUME NEW i \in Nat, i \in T PROVE i + 1 \in T
  <2>1. SUFFICES ASSUME i + 1 <= Len(s) PROVE f[i + 1].ops = <<>> /\ f[i + 1].bulkNew = g[i + 1]
    OBVIOUS
  <2>2. PICK st, n : st = f[i] /\ n = s[i + 1]
    OBVIOUS
  <2>3. st.ops = <<>> /\ st.bulkNew = g[i]
    BY <1>3, <1>5, <2>1, <2>2
  <2>4. f[i + 1] = RebuildStep(st, n, isNew, inLIS)
    BY <1>1, <1>3, <2>1, <2>2, RebuiltStep
  <2>5. g[i + 1] = IF n \in isNew THEN Append(g[i], n) ELSE g[i]
    BY <1>2, <1>3, <2>1, <2>2, OnlyStep
  <2>6. n \in isNew \/ n \in inLIS
    <3>1. i + 1 \in 1 .. Len(s)
      BY <1>3, <2>1
    <3>2. n \in ToSet(s)
      BY <2>2, <3>1, ToSetFacts
    <3>3. QED
      BY <3>2
  <2>7. CASE n \in isNew
    <3>1. f[i + 1] = [st EXCEPT !.bulkNew = Append(@, n)]
      BY <2>4, <2>7 DEF RebuildStep
    <3>2. f[i + 1].ops = st.ops /\ f[i + 1].bulkNew = Append(st.bulkNew, n)
      BY <3>1
    <3>3. QED
      BY <2>3, <2>5, <2>7, <3>2
  <2>8. CASE n \notin isNew
    <3>1. f[i + 1] = st
      BY <2>4, <2>6, <2>8 DEF RebuildStep
    <3>2. QED
      BY <2>3, <2>5, <2>8, <3>1
  <2>9. QED
    BY <2>7, <2>8
<1>6. f[Len(s)].ops = <<>> /\ f[Len(s)].bulkNew = g[Len(s)]
  <2> HIDE DEF T
  <2>1. \A i \in Nat : i \in T
    BY <1>4, <1>5, AllNumbers
  <2>2. QED
    BY <1>3, <2>1 DEF T
<1>7. PICK ns : ns = Only(s, isNew)
  OBVIOUS
<1>8. ns \in Seq(U)
  BY <1>7, OnlyFacts
<1>9. flushBulkNew(ns) \in Seq(Ops(U))
  BY <1>8, BulkKinds
<1>10. <<>> \o flushBulkNew(ns) = flushBulkNew(ns)
  BY <1>9, ConcatEmpty
<1>11. QED
  BY <1>1, <1>2, <1>6, <1>7, <1>10

(***************************************************************************)
(* The server: the nodes that SetItems computes.                           *)
(***************************************************************************)

\* The nodes that have been rendered.
Rendered == {n \in AllNodes : n.nth <= renders[n.key]}

\* The children have distinct keys, For's map holds exactly them, and what was
\* removed from them has been rendered before and does not come back.
ServerInv ==
    /\ \A i, j \in DOMAIN children : children[i].key = children[j].key => i = j
    /\ ToSet(children) \subseteq Rendered
    /\ DOMAIN nodeMap = {n.key : n \in ToSet(children)}
    /\ \A n \in ToSet(children) : nodeMap[n.key] = n
    /\ orphans \subseteq Rendered /\ orphans \cap ToSet(children) = {}
    /\ changes = 0 => pendingOps = <<>> /\ unchanged = <<>>

\* A list that a change may set.
Settable(items) == items \in Seq(Keys) /\ IsInjective(items)

\* What the observer computes for items.
Computes(items, left, gone, old, new, added) ==
    /\ left = Survivors(items) /\ gone = Gone(items) /\ old = OldNodes(items)
    /\ new = NewNodes(items) /\ added = Added(items)
    /\ left \in Seq(AllNodes) /\ IsInjective(left)
    /\ gone \in Seq(AllNodes) /\ IsInjective(gone)
    /\ ToSet(left) \subseteq ToSet(children)
    /\ ToSet(gone) = ToSet(children) \ ToSet(left)
    /\ \A n \in ToSet(children) : n \in ToSet(left) <=> n.key \in ToSet(items)
    /\ new \in Seq(AllNodes) /\ Len(new) = Len(items)
    /\ \A i \in 1 .. Len(items) : new[i] = NodeFor(items, items[i]) /\ new[i].key = items[i]
    /\ IsInjective(new)
    /\ added = ToSet(new) \ ToSet(left)
    /\ ToSet(new) = added \cup ToSet(left)
    /\ added \cap Rendered = {}
    /\ old = Only(new, ToSet(left))

\* A node is its key and its number.
LEMMA NodeFacts ==
  ASSUME ListAssumption
  PROVE  /\ \A n \in AllNodes : n.key \in Keys /\ n.nth \in 1 .. MaxRenders /\ n = Node(n.key, n.nth)
         /\ \A k \in Keys : \A i \in 1 .. MaxRenders : Node(k, i) \in AllNodes
         /\ \A k, i : Node(k, i).key = k /\ Node(k, i).nth = i
BY DEF AllNodes, Node

\* What the invariant says of the children and of the map of For.
LEMMA ServerTypes ==
  ASSUME ListAssumption, TypeOK, ServerInv
  PROVE  /\ children \in Seq(AllNodes) /\ IsInjective(children)
         /\ ToSet(children) \subseteq AllNodes
         /\ \A n, m \in ToSet(children) : n.key = m.key => n = m
         /\ \A k \in DOMAIN nodeMap : k \in Keys /\ nodeMap[k] \in ToSet(children) /\ nodeMap[k].key = k
         /\ \A n \in ToSet(children) : n.key \in DOMAIN nodeMap /\ nodeMap[n.key] = n
         /\ renders \in [Keys -> 0 .. MaxRenders]
         /\ \A k \in Keys : renders[k] \in Nat
<1>1. children \in Seq(AllNodes) /\ IsInjective(children) /\ renders \in [Keys -> 0 .. MaxRenders]
  BY DEF TypeOK
<1>2. ToSet(children) \subseteq AllNodes
  BY <1>1, ToSetFacts
<1>3. \A n, m \in ToSet(children) : n.key = m.key => n = m
  BY DEF ServerInv, ToSet
<1>4. \A n \in ToSet(children) : n.key \in DOMAIN nodeMap /\ nodeMap[n.key] = n
  BY DEF ServerInv
<1>5. \A k \in DOMAIN nodeMap : k \in Keys /\ nodeMap[k] \in ToSet(children) /\ nodeMap[k].key = k
  BY <1>2, NodeFacts DEF ServerInv
<1>6. \A k \in Keys : renders[k] \in Nat
  BY <1>1 DEF ListAssumption
<1>7. QED
  BY <1>1, <1>2, <1>3, <1>4, <1>5, <1>6

\* The key of every item gives a node: a child with that key, or a fresh one.
LEMMA NodeForFacts ==
  ASSUME ListAssumption, TypeOK, ServerInv, NEW items, Settable(items),
         \A n \in Added(items) : n.nth <= MaxRenders,
         NEW k \in ToSet(items)
  PROVE  /\ NodeFor(items, k) \in AllNodes /\ NodeFor(items, k).key = k
         /\ k \in Kept(items) => NodeFor(items, k) \in ToSet(children) /\ NodeFor(items, k) = nodeMap[k]
         /\ k \notin Kept(items) => NodeFor(items, k) \notin Rendered
<1>1. k \in Keys
  <2>1. items \in Seq(Keys)
    BY DEF Settable
  <2>2. QED
    BY <2>1, ToSetFacts
<1>2. CASE k \in Kept(items)
  <2>1. k \in DOMAIN nodeMap /\ NodeFor(items, k) = nodeMap[k]
    BY <1>2 DEF Kept, NodeFor
  <2>2. QED
    BY <1>2, <2>1, ServerTypes
<1>3. CASE k \notin Kept(items)
  <2>1. PICK n : n = Node(k, renders[k] + 1)
    OBVIOUS
  <2>2. NodeFor(items, k) = n /\ n.key = k /\ n.nth = renders[k] + 1
    BY <1>3, <2>1, NodeFacts DEF NodeFor
  <2>3. n \in ToSet(NewNodes(items))
    <3>1. items \in Seq(Keys)
      BY DEF Settable
    <3>2. PICK i \in 1 .. Len(items) : items[i] = k
      BY <3>1, ToSetFacts
    <3>3. i \in DOMAIN NewNodes(items) /\ NewNodes(items)[i] = n
      BY <2>2, <3>2 DEF NewNodes
    <3>4. QED
      BY <3>3 DEF ToSet
  <2>4. n.nth <= MaxRenders
    BY <1>3, <2>2, <2>3 DEF Added
  <2>5. renders[k] + 1 \in 1 .. MaxRenders
    BY <1>1, <2>2, <2>4, ServerTypes DEF ListAssumption
  <2>6. n \in AllNodes
    BY <1>1, <2>1, <2>5, NodeFacts
  <2>7. n \notin Rendered
    BY <1>1, <2>2, ServerTypes DEF Rendered
  <2>8. QED
    BY <1>3, <2>2, <2>6, <2>7
<1>4. QED
  BY <1>2, <1>3

\* The nodes that stay, in their new order, are those of the new children.
LEMMA OldNodesOnly ==
  ASSUME ListAssumption, TypeOK, ServerInv, NEW items, Settable(items),
         \A n \in Added(items) : n.nth <= MaxRenders,
         NEW L, \A k \in ToSet(items) : NodeFor(items, k) \in L <=> k \in Kept(items)
  PROVE  /\ NewNodes(items) \in Seq(AllNodes)
         /\ OldNodes(items) = Only(NewNodes(items), L)
<1>1. PICK K, f : K = ToSet(items) /\ f = [k \in K |-> NodeFor(items, k)]
  OBVIOUS
<1>2. items \in Seq(Keys)
  BY DEF Settable
<1>3. items \in Seq(K) /\ Len(items) \in Nat /\ \A i \in 1 .. Len(items) : items[i] \in K
  <2>1. \A i \in 1 .. Len(items) : items[i] \in K
    BY <1>1, <1>2, ToSetFacts
  <2>2. QED
    BY <1>2, <2>1
<1>4. Maps(f, K, AllNodes)
  <2>1. \A k \in K : NodeFor(items, k) \in AllNodes
    BY <1>1, NodeForFacts
  <2>2. QED
    BY <1>1, <2>1 DEF Maps
<1>5. NewNodes(items) = Image(f, items)
  BY <1>1, <1>3 DEF NewNodes, Image
<1>6. Image(f, items) \in Seq(AllNodes)
  BY <1>3, <1>4, ImageFacts
<1>7. Only(Image(f, items), L) = Image(f, Only(items, {k \in K : f[k] \in L}))
  BY <1>3, <1>4, OnlyImage
<1>8. PICK R, keys : R = {k \in K : f[k] \in L} /\ keys = Only(items, Kept(items))
  OBVIOUS
<1>9. Only(items, R) = keys
  <2>1. ToSet(items) \cap R = ToSet(items) \cap Kept(items)
    BY <1>1, <1>8
  <2>2. QED
    BY <1>3, <1>8, <2>1, OnlySame
<1>10. keys \in Seq(K) /\ ToSet(keys) = K \cap Kept(items)
  BY <1>1, <1>3, <1>8, OnlyFacts
<1>11. \A i \in 1 .. Len(keys) : f[keys[i]] = nodeMap[keys[i]]
  <2>1. \A i \in 1 .. Len(keys) : keys[i] \in K /\ keys[i] \in Kept(items)
    BY <1>10, ToSetFacts
  <2>2. QED
    BY <1>1, <2>1 DEF NodeFor
<1>12. OldNodes(items) = Image(f, keys)
  BY <1>8, <1>11 DEF OldNodes, Image
<1>13. QED
  BY <1>5, <1>6, <1>7, <1>8, <1>9, <1>12

\* The nodes that the observer computes are those it should.
LEMMA ObserverComputes ==
  ASSUME ListAssumption, TypeOK, ServerInv, NEW items, Settable(items),
         \A n \in Added(items) : n.nth <= MaxRenders
  PROVE  Computes(items, Survivors(items), Gone(items), OldNodes(items), NewNodes(items), Added(items))
<1>1. PICK left, gone, old, new, added :
          /\ left = Survivors(items) /\ gone = Gone(items) /\ old = OldNodes(items)
          /\ new = NewNodes(items) /\ added = Added(items)
  OBVIOUS
<1>2. children \in Seq(AllNodes) /\ IsInjective(children)
  BY ServerTypes
<1>3. left \in Seq(AllNodes) /\ IsInjective(left) /\ gone \in Seq(AllNodes) /\ IsInjective(gone)
  BY <1>1, <1>2, OnlyFacts DEF Survivors, Gone
<1>4. /\ ToSet(left) = {n \in ToSet(children) : n.key \in ToSet(items)}
      /\ ToSet(gone) = {n \in ToSet(children) : n.key \notin ToSet(items)}
  BY <1>1, <1>2, OnlyFacts DEF Survivors, Gone
<1>5. \A k \in ToSet(items) : NodeFor(items, k) \in ToSet(left) <=> k \in Kept(items)
  <2>1. SUFFICES ASSUME NEW k \in ToSet(items)
                 PROVE  NodeFor(items, k) \in ToSet(left) <=> k \in Kept(items)
    OBVIOUS
  <2>2. NodeFor(items, k).key = k
    BY NodeForFacts
  <2>3. ASSUME k \in Kept(items) PROVE NodeFor(items, k) \in ToSet(left)
    <3>1. NodeFor(items, k) \in ToSet(children)
      BY <2>3, NodeForFacts
    <3>2. QED
      BY <1>4, <2>2, <3>1
  <2>4. ASSUME NodeFor(items, k) \in ToSet(left) PROVE k \in Kept(items)
    <3>1. NodeFor(items, k) \in ToSet(children)
      BY <1>4, <2>4
    <3>2. k \in DOMAIN nodeMap
      BY <2>2, <3>1, ServerTypes
    <3>3. QED
      BY <3>2 DEF Kept
  <2>5. QED
    BY <2>3, <2>4
<1>6. new \in Seq(AllNodes) /\ old = Only(new, ToSet(left))
  <2>1. PICK L : L = ToSet(left)
    OBVIOUS
  <2>2. \A k \in ToSet(items) : NodeFor(items, k) \in L <=> k \in Kept(items)
    BY <1>5, <2>1
  <2>3. NewNodes(items) \in Seq(AllNodes) /\ OldNodes(items) = Only(NewNodes(items), L)
    BY <2>2, OldNodesOnly
  <2>4. QED
    BY <1>1, <2>1, <2>3
<1>7. items \in Seq(Keys) /\ IsInjective(items) /\ Len(items) \in Nat /\ DOMAIN items = 1 .. Len(items)
  BY DEF Settable
<1>8. \A i \in 1 .. Len(items) : items[i] \in ToSet(items)
  BY <1>7, ToSetFacts
<1>9. /\ Len(new) = Len(items) /\ DOMAIN new = 1 .. Len(items)
      /\ \A i \in 1 .. Len(items) : new[i] = NodeFor(items, items[i])
  BY <1>1, <1>7 DEF NewNodes
<1>10. \A i \in 1 .. Len(items) : new[i].key = items[i]
  BY <1>8, <1>9, NodeForFacts
<1>11. IsInjective(new)
  BY <1>7, <1>9, <1>10 DEF IsInjective
<1>12. \A n : n \in ToSet(new) <=> \E k \in ToSet(items) : n = NodeFor(items, k)
  <2>1. \A n : n \in ToSet(new) <=> \E i \in 1 .. Len(items) : n = NodeFor(items, items[i])
    BY <1>9 DEF ToSet
  <2>2. \A k : k \in ToSet(items) <=> \E i \in 1 .. Len(items) : items[i] = k
    BY <1>7, ToSetFacts
  <2>3. QED
    BY <2>1, <2>2
<1>13. \A n \in ToSet(new) : n \in added <=> n \notin ToSet(left)
  <2>1. SUFFICES ASSUME NEW n \in ToSet(new) PROVE n \in added <=> n \notin ToSet(left)
    OBVIOUS
  <2>2. PICK k \in ToSet(items) : n = NodeFor(items, k)
    BY <1>12
  <2>3. n.key = k
    BY <2>2, NodeForFacts
  <2>4. n \in added <=> k \notin Kept(items)
    BY <1>1, <2>3 DEF Added
  <2>5. QED
    BY <1>5, <2>2, <2>4
<1>14. added \subseteq ToSet(new)
  BY <1>1 DEF Added
<1>15. ToSet(left) \subseteq ToSet(new)
  <2>1. SUFFICES ASSUME NEW n \in ToSet(left) PROVE n \in ToSet(new)
    OBVIOUS
  <2>2. n \in ToSet(children) /\ n.key \in ToSet(items)
    BY <1>4
  <2>3. n.key \in Kept(items) /\ nodeMap[n.key] = n
    BY <2>2, ServerTypes DEF Kept
  <2>4. NodeFor(items, n.key) = n
    BY <2>2, <2>3, NodeForFacts
  <2>5. QED
    BY <1>12, <2>2, <2>4
<1>16. added \cap Rendered = {}
  <2>1. SUFFICES ASSUME NEW n \in added PROVE n \notin Rendered
    OBVIOUS
  <2>2. PICK k \in ToSet(items) : n = NodeFor(items, k)
    BY <1>12, <1>14, <2>1
  <2>3. k \notin Kept(items)
    BY <1>5, <1>13, <1>14, <2>1, <2>2
  <2>4. QED
    BY <2>2, <2>3, NodeForFacts
<1>17. /\ added = ToSet(new) \ ToSet(left) /\ ToSet(new) = added \cup ToSet(left)
       /\ ToSet(gone) = ToSet(children) \ ToSet(left) /\ ToSet(left) \subseteq ToSet(children)
  BY <1>4, <1>13, <1>14, <1>15
<1>18. \A n \in ToSet(children) : n \in ToSet(left) <=> n.key \in ToSet(items)
  BY <1>4
<1>19. QED
  BY <1>1, <1>3, <1>6, <1>9, <1>10, <1>11, <1>16, <1>17, <1>18 DEF Computes

\* The nodes that stay are the survivors, in the new order.
LEMMA OldFacts ==
  ASSUME NEW items, NEW left, NEW gone, NEW old, NEW new, NEW added,
         Computes(items, left, gone, old, new, added)
  PROVE  old \in Seq(AllNodes) /\ ToSet(old) = ToSet(left) /\ IsInjective(old)
<1>1. PICK L : L = ToSet(left)
  OBVIOUS
<1>2. old = Only(new, L) /\ new \in Seq(AllNodes) /\ IsInjective(new) /\ ToSet(new) = added \cup L
  BY <1>1 DEF Computes
<1>3. old \in Seq(AllNodes) /\ ToSet(old) = ToSet(new) \cap L /\ IsInjective(old)
  BY <1>2, OnlyFacts
<1>4. QED
  BY <1>1, <1>2, <1>3

(***************************************************************************)
(* What a change renders.                                                  *)
(***************************************************************************)

\* A change renders the added nodes and no node twice.
LEMMA RenderedGrows ==
  ASSUME ListAssumption, TypeOK, ServerInv, NEW items, Settable(items), SetItems(items)
  PROVE  /\ Rendered \subseteq Rendered' /\ Added(items) \subseteq Rendered'
         /\ renders' \in [Keys -> 0 .. MaxRenders]
<1>1. /\ \A n \in Added(items) : n.nth <= MaxRenders
      /\ renders' = [k \in Keys |-> IF k \in ToSet(items) \ Kept(items)
                                    THEN renders[k] + 1 ELSE renders[k]]
  BY DEF SetItems
<1>2. \A k \in Keys : renders[k] \in Nat /\ renders[k] <= MaxRenders /\ MaxRenders \in Nat
  BY ServerTypes DEF ListAssumption
<1>3. items \in Seq(Keys)
  BY DEF Settable
<1>4. \A k \in ToSet(items) : k \notin Kept(items) =>
          /\ NodeFor(items, k) = Node(k, renders[k] + 1)
          /\ Node(k, renders[k] + 1) \in AllNodes
  <2>1. SUFFICES ASSUME NEW k \in ToSet(items), k \notin Kept(items)
                 PROVE  /\ NodeFor(items, k) = Node(k, renders[k] + 1)
                        /\ Node(k, renders[k] + 1) \in AllNodes
    OBVIOUS
  <2>2. NodeFor(items, k) = Node(k, renders[k] + 1)
    BY <2>1 DEF NodeFor
  <2>3. NodeFor(items, k) \in AllNodes
    BY <1>1, NodeForFacts
  <2>4. QED
    BY <2>2, <2>3
<1>5. \A k \in ToSet(items) : k \in Keys
  BY <1>3, ToSetFacts
<1>6. \A k \in Keys : renders'[k] \in 0 .. MaxRenders /\ renders'[k] >= renders[k]
  <2>1. SUFFICES ASSUME NEW k \in Keys PROVE renders'[k] \in 0 .. MaxRenders /\ renders'[k] >= renders[k]
    OBVIOUS
  <2>2. CASE k \in ToSet(items) \ Kept(items)
    <3>1. Node(k, renders[k] + 1) \in AllNodes
      BY <1>4, <2>2
    <3>2. renders[k] + 1 \in 1 .. MaxRenders
      BY <3>1, NodeFacts
    <3>3. QED
      BY <1>1, <1>2, <2>2, <3>2
  <2>3. CASE k \notin ToSet(items) \ Kept(items)
    BY <1>1, <1>2, <2>3
  <2>4. QED
    BY <2>2, <2>3
<1>7. renders' \in [Keys -> 0 .. MaxRenders]
  BY <1>1, <1>6
<1>8. AllNodes' = AllNodes
  BY DEF AllNodes
<1>9. Rendered \subseteq Rendered'
  <2>1. SUFFICES ASSUME NEW n \in Rendered PROVE n \in Rendered'
    OBVIOUS
  <2>2. n \in AllNodes /\ n.nth <= renders[n.key] /\ n.key \in Keys /\ n.nth \in Nat
    BY NodeFacts DEF Rendered, ListAssumption
  <2>3. n.nth <= renders'[n.key]
    BY <1>2, <1>6, <2>2
  <2>4. QED
    BY <1>8, <2>2, <2>3 DEF Rendered
<1>10. Added(items) \subseteq Rendered'
  <2>1. SUFFICES ASSUME NEW n \in Added(items) PROVE n \in Rendered'
    OBVIOUS
  <2>2. n \in ToSet(NewNodes(items)) /\ n.key \notin Kept(items)
    BY DEF Added
  <2>3. PICK i \in 1 .. Len(items) : n = NodeFor(items, items[i])
    BY <2>2 DEF NewNodes, ToSet
  <2>4. PICK k : k = items[i]
    OBVIOUS
  <2>5. k \in ToSet(items) /\ n = NodeFor(items, k)
    BY <1>3, <2>3, <2>4, ToSetFacts
  <2>6. n.key = k
    BY <1>1, <2>5, NodeForFacts
  <2>7. n = Node(k, renders[k] + 1) /\ n \in AllNodes
    BY <1>4, <2>2, <2>5, <2>6
  <2>8. n.nth = renders[k] + 1 /\ renders'[k] = renders[k] + 1
    BY <1>1, <1>5, <2>2, <2>5, <2>6, <2>7, NodeFacts
  <2>9. n.nth <= renders'[n.key]
    BY <1>2, <1>5, <2>5, <2>6, <2>8
  <2>10. QED
    BY <1>8, <2>7, <2>9 DEF Rendered
<1>11. QED
  BY <1>7, <1>9, <1>10

\* A change keeps the types and the invariant of the server.
LEMMA ServerStep ==
  ASSUME ListAssumption, TypeOK, ServerInv, NEW items, Settable(items), SetItems(items)
  PROVE  TypeOK' /\ ServerInv'
<1>1. PICK left, gone, old, new, added : Computes(items, left, gone, old, new, added)
  <2>1. \A n \in Added(items) : n.nth <= MaxRenders
    BY DEF SetItems
  <2>2. QED
    BY <2>1, ObserverComputes
<1>2. /\ new = NewNodes(items) /\ gone = Gone(items) /\ added = Added(items)
      /\ new \in Seq(AllNodes) /\ IsInjective(new) /\ Len(new) = Len(items)
      /\ \A i \in 1 .. Len(items) : new[i] = NodeFor(items, items[i]) /\ new[i].key = items[i]
      /\ ToSet(new) = added \cup ToSet(left) /\ added \cap Rendered = {}
      /\ ToSet(left) \subseteq ToSet(children) /\ ToSet(gone) = ToSet(children) \ ToSet(left)
  BY <1>1 DEF Computes
<1>3. /\ children' = new
      /\ nodeMap' = [k \in ToSet(items) |-> NodeFor(items, k)]
      /\ orphans' = orphans \cup Orphaned(items)
      /\ changes < MaxChanges /\ changes' = changes + 1
      /\ registry' = registry /\ dom' = dom /\ crashed' = crashed
  BY <1>2 DEF SetItems, clientVars
<1>4. items \in Seq(Keys) /\ IsInjective(items) /\ Len(items) \in Nat /\ DOMAIN items = 1 .. Len(items)
  BY DEF Settable
<1>5. DOMAIN new = 1 .. Len(items)
  BY <1>2
<1>6. Rendered \subseteq Rendered' /\ added \subseteq Rendered' /\ renders' \in [Keys -> 0 .. MaxRenders]
  BY <1>2, RenderedGrows
<1>7. ToSet(children) \subseteq Rendered /\ orphans \subseteq Rendered /\ orphans \cap ToSet(children) = {}
  BY DEF ServerInv
<1>8. Orphaned(items) \subseteq ToSet(gone)
  BY <1>2 DEF Orphaned
<1>9. ToSet(new) \subseteq Rendered'
  BY <1>2, <1>6, <1>7
<1>10. orphans' \subseteq Rendered' /\ orphans' \cap ToSet(new) = {}
  BY <1>2, <1>3, <1>6, <1>7, <1>8
<1>11. \A n \in ToSet(new) : \E i \in 1 .. Len(items) : n = new[i]
  BY <1>5 DEF ToSet
<1>12. \A i \in 1 .. Len(items) : new[i] \in ToSet(new)
  BY <1>5 DEF ToSet
<1>13. ToSet(items) = {n.key : n \in ToSet(new)}
  <2>1. \A k : k \in ToSet(items) <=> \E i \in 1 .. Len(items) : items[i] = k
    BY <1>4, ToSetFacts
  <2>2. \A k : k \in {n.key : n \in ToSet(new)} <=> \E i \in 1 .. Len(items) : new[i].key = k
    BY <1>11, <1>12
  <2>3. QED
    BY <1>2, <2>1, <2>2
<1>14. \A i \in 1 .. Len(items) : nodeMap'[items[i]] = new[i]
  <2>1. \A i \in 1 .. Len(items) : items[i] \in ToSet(items)
    BY <1>4, ToSetFacts
  <2>2. QED
    BY <1>2, <1>3, <2>1
<1>15. \A n \in ToSet(new) : nodeMap'[n.key] = n
  BY <1>2, <1>11, <1>14
<1>16. \A k \in ToSet(items) : nodeMap'[k] \in ToSet(new) /\ nodeMap'[k].key = k
  <2>1. \A k \in ToSet(items) : \E n \in ToSet(new) : n.key = k
    BY <1>13
  <2>2. QED
    BY <1>15, <2>1
<1>17. ServerInv'
  <2>1. \A i, j \in DOMAIN new : new[i].key = new[j].key => i = j
    BY <1>2, <1>4, <1>5 DEF IsInjective
  <2>2. DOMAIN nodeMap' = {n.key : n \in ToSet(new)}
    BY <1>3, <1>13
  <2>3. changes' # 0
    BY <1>3 DEF TypeOK
  <2>4. QED
    BY <1>3, <1>9, <1>10, <1>15, <2>1, <2>2, <2>3 DEF ServerInv
<1>18. TypeOK'
  <2>1. nodeMap' \in [{n.key : n \in ToSet(new)} -> ToSet(new)]
    <3>1. nodeMap' \in [ToSet(items) -> ToSet(new)]
      BY <1>3, <1>16
    <3>2. QED
      BY <1>13, <3>1
  <2>2. \A k \in DOMAIN nodeMap' : nodeMap'[k].key = k
    BY <1>3, <1>16
  <2>3. orphans' \subseteq AllNodes /\ AllNodes' = AllNodes
    BY <1>10 DEF Rendered, AllNodes
  <2>4. changes' \in 0 .. MaxChanges
    BY <1>3 DEF TypeOK, ListAssumption
  <2>5. QED
    BY <1>2, <1>3, <1>6, <2>1, <2>2, <2>3, <2>4 DEF TypeOK
<1>19. QED
  BY <1>17, <1>18

(***************************************************************************)
(* The operations that a change queues.                                    *)
(***************************************************************************)

\* The old positions are positions of the same nodes.
LEMMA PositionFacts ==
  ASSUME NEW U, NEW new \in Seq(U), NEW old \in Seq(U), ToSet(new) \subseteq ToSet(old),
         NEW p, p = Positions(new, old)
  PROVE  /\ p \in Seq(Int) /\ Len(p) = Len(new)
         /\ \A i \in 1 .. Len(new) : p[i] \in 1 .. Len(old) /\ old[p[i]] = new[i]
<1>1. Len(new) \in Nat /\ Len(old) \in Nat
  OBVIOUS
<1>2. \A i \in 1 .. Len(new) : \E j \in 1 .. Len(old) : old[j] = new[i]
  <2>1. \A i \in 1 .. Len(new) : new[i] \in ToSet(new)
    BY ToSetFacts
  <2>2. QED
    BY <2>1, ToSetFacts
<1>3. /\ p = [i \in 1 .. Len(new) |-> CHOOSE j \in 1 .. Len(old) : old[j] = new[i]]
  BY DEF Positions
<1>4. \A i \in 1 .. Len(new) : p[i] \in 1 .. Len(old) /\ old[p[i]] = new[i]
  BY <1>2, <1>3
<1>5. \A i \in 1 .. Len(new) : p[i] \in Int
  BY <1>1, <1>4
<1>6. p \in Seq(Int) /\ Len(p) = Len(new)
  BY <1>1, <1>3, <1>5
<1>7. QED
  BY <1>4, <1>6

\* If Only leaves as many elements, it leaves all.
LEMMA OnlyLength ==
  ASSUME NEW T, NEW s \in Seq(T), NEW S
  PROVE  Len(Only(s, S)) = Len(s) => Only(s, S) = s
<1> DEFINE G == {t \in Seq(T) : /\ Only(t, S) \in Seq(T) /\ Len(Only(t, S)) <= Len(t)
                                /\ Len(Only(t, S)) = Len(t) => Only(t, S) = t}
<1>1. <<>> \in G
  <2>1. Only(<<>>, S) = <<>> /\ <<>> \in Seq(T) /\ Len(<<>>) = 0
    BY OnlyEmpty
  <2>2. PICK e : e = <<>>
    OBVIOUS
  <2>3. Only(e, S) = e /\ e \in Seq(T) /\ Len(e) <= Len(e)
    BY <2>1, <2>2
  <2>4. e \in G
    BY <2>3
  <2>5. QED
    BY <2>2, <2>4
<1>2. \A t \in Seq(T) : \A x \in T : t \in G => Append(t, x) \in G
  <2>1. SUFFICES ASSUME NEW t \in Seq(T), NEW x \in T, t \in G PROVE Append(t, x) \in G
    OBVIOUS
  <2>2. PICK u, k : u = Append(t, x) /\ k = Only(t, S)
    OBVIOUS
  <2>3. u \in Seq(T) /\ Len(u) = Len(t) + 1 /\ Len(t) \in Nat
    BY <2>2
  <2>4. k \in Seq(T) /\ Len(k) <= Len(t) /\ (Len(k) = Len(t) => k = t) /\ Len(k) \in Nat
    BY <2>1, <2>2
  <2>5. Only(u, S) = IF x \in S THEN Append(k, x) ELSE k
    BY <2>2, OnlyAppend
  <2>6. CASE x \in S
    <3>1. Append(k, x) \in Seq(T) /\ Len(Append(k, x)) = Len(k) + 1
      BY <2>4
    <3>2. Only(u, S) = Append(k, x)
      BY <2>5, <2>6
    <3>3. Len(Append(k, x)) <= Len(u)
      BY <2>3, <2>4, <3>1
    <3>4. Len(Append(k, x)) = Len(u) => Append(k, x) = u
      <4>1. ASSUME Len(k) + 1 = Len(t) + 1 PROVE k = t
        BY <2>3, <2>4, <4>1
      <4>2. QED
        BY <2>2, <2>3, <3>1, <4>1
    <3>5. QED
      BY <2>2, <2>3, <3>1, <3>2, <3>3, <3>4
  <2>7. CASE x \notin S
    BY <2>2, <2>3, <2>4, <2>5, <2>7
  <2>8. QED
    BY <2>6, <2>7
<1>3. QED
  <2> HIDE DEF G
  <2>1. \A t \in Seq(T) : t \in G
    BY <1>1, <1>2, AllSequences
  <2>2. QED
    BY <2>1 DEF G

\* What Placement is, for the nodes that the observer computes: the nodes that
\* lisIndices does not mark are moved, or swapped.
Placed(items, left, old, new, added, marked) ==
    /\ marked = lisIndices(Positions(old, left))
    /\ marked \in SUBSET (1 .. Len(old))
    /\ \/ \E a, b \in ToSet(left) :
             /\ Placement(items) = <<SwapOp(a, b)>> /\ added = {}
             /\ {a, b} = {old[i] : i \in (1 .. Len(old)) \ marked}
       \/ Placement(items) = Rebuild(new, added, {old[i] : i \in marked})

\* Placement swaps the two nodes that lisIndices did not mark, or rebuilds.
LEMMA PlacementCases ==
  ASSUME NEW items, NEW left, NEW gone, NEW old, NEW new, NEW added,
         Computes(items, left, gone, old, new, added),
         NEW marked, marked = lisIndices(Positions(old, left))
  PROVE  Placed(items, left, old, new, added, marked)
<1>1. /\ left = Survivors(items) /\ old = OldNodes(items) /\ new = NewNodes(items) /\ added = Added(items)
      /\ left \in Seq(AllNodes) /\ new \in Seq(AllNodes) /\ Len(new) = Len(items)
      /\ added = ToSet(new) \ ToSet(left) /\ ToSet(new) = added \cup ToSet(left)
      /\ old = Only(new, ToSet(left))
  BY DEF Computes
<1>2. old \in Seq(AllNodes) /\ ToSet(old) = ToSet(left)
  BY OldFacts
<1>3. PICK p : p = Positions(old, left)
  OBVIOUS
<1>4. p \in Seq(Int) /\ Len(p) = Len(old)
  BY <1>1, <1>2, <1>3, PositionFacts
<1>5. marked \in SUBSET (1 .. Len(old))
  <2>1. lisIndices(p) \in IncreasingSets(p)
    BY <1>4, LisCorrect
  <2>2. QED
    BY <1>3, <1>4, <2>1 DEF IncreasingSets
<1>6. PICK nums, moving : /\ nums = [i \in 1 .. Len(old) |-> i]
                          /\ moving = Only(nums, (1 .. Len(old)) \ marked)
  OBVIOUS
<1>7. Placement(items) =
          IF Len(old) = Len(items) /\ Len(old) >= 2 /\ Len(moving) = 2
          THEN <<SwapOp(old[moving[1]], old[moving[2]])>>
          ELSE Rebuild(new, added, {old[i] : i \in marked})
  BY <1>1, <1>6 DEF Placement
<1>8. CASE ~(Len(old) = Len(items) /\ Len(old) >= 2 /\ Len(moving) = 2)
  BY <1>5, <1>7, <1>8 DEF Placed
<1>9. CASE Len(old) = Len(items) /\ Len(old) >= 2 /\ Len(moving) = 2
  <2>1. Len(old) \in Nat /\ nums \in Seq(1 .. Len(old)) /\ ToSet(nums) = 1 .. Len(old)
    BY <1>2, <1>6 DEF ToSet
  <2>2. moving \in Seq(1 .. Len(old)) /\ ToSet(moving) = (1 .. Len(old)) \ marked
    <3>1. ToSet(moving) = ToSet(nums) \cap ((1 .. Len(old)) \ marked)
      BY <1>6, <2>1, OnlyFacts
    <3>2. QED
      BY <1>6, <2>1, <3>1, OnlyFacts
  <2>3. PICK i, j, a, b : i = moving[1] /\ j = moving[2] /\ a = old[i] /\ b = old[j]
    OBVIOUS
  <2>4. \A x : x \in ToSet(moving) <=> x = i \/ x = j
    <3>1. \A x : x \in ToSet(moving) <=> \E l \in 1 .. 2 : moving[l] = x
      BY <1>9, <2>2, ToSetFacts
    <3>2. \A l : l \in 1 .. 2 <=> l = 1 \/ l = 2
      OBVIOUS
    <3>3. QED
      BY <2>3, <3>1, <3>2
  <2>5. {a, b} = {old[l] : l \in (1 .. Len(old)) \ marked}
    <3>1. \A l : l \in (1 .. Len(old)) \ marked <=> l = i \/ l = j
      BY <2>2, <2>4
    <3>2. QED
      BY <2>3, <3>1
  <2>6. a \in ToSet(left) /\ b \in ToSet(left)
    <3>1. i \in 1 .. Len(old) /\ j \in 1 .. Len(old)
      BY <2>2, <2>4
    <3>2. QED
      BY <1>2, <2>3, <3>1, ToSetFacts
  <2>7. old = new
    BY <1>1, <1>9, OnlyLength
  <2>8. added = {}
    BY <1>1, <1>2, <2>7
  <2>9. Placement(items) = <<SwapOp(a, b)>>
    BY <1>7, <1>9, <2>3
  <2>10. QED
    BY <1>5, <2>5, <2>6, <2>8, <2>9 DEF Placed
<1>10. QED
  BY <1>8, <1>9

\* A swap moves its two nodes.
LEMMA SwapFacts ==
  ASSUME NEW U, NEW a \in U, NEW b \in U, NEW ops, ops = <<SwapOp(a, b)>>
  PROVE  Moves(U, ops, {a, b}) /\ Kinds(ops) = {"swap"}
<1>1. PICK o : o = SwapOp(a, b)
  OBVIOUS
<1>2. <<>> \in Seq(U)
  OBVIOUS
<1>3. o \in Ops(U) /\ o.op = "swap" /\ o.nodes = <<a, b>>
  BY <1>1, <1>2, OpTypes DEF SwapOp
<1>4. ToSet(<<o>>) = {o} /\ Kinds(<<o>>) = {"swap"}
  BY <1>3, OneKind
<1>5. ToSet(<<a, b>>) = {a, b}
  BY DEF ToSet
<1>6. Moved(<<o>>) = {a, b}
  BY <1>3, <1>4, <1>5 DEF Moved
<1>7. <<o>> \in Seq(Ops(U))
  BY <1>3
<1>8. QED
  BY <1>1, <1>4, <1>6, <1>7 DEF Moves

\* What a change moves: the children that are left and not marked.
LEMMA PlacementMoves ==
  ASSUME NEW items, NEW left, NEW gone, NEW old, NEW new, NEW added,
         Computes(items, left, gone, old, new, added),
         NEW marked, Placed(items, left, old, new, added, marked)
  PROVE  Moves(AllNodes, Placement(items), {old[i] : i \in (1 .. Len(old)) \ marked})
<1>1. /\ left \in Seq(AllNodes) /\ new \in Seq(AllNodes) /\ IsInjective(new)
      /\ added = ToSet(new) \ ToSet(left) /\ ToSet(new) = added \cup ToSet(left)
      /\ old = Only(new, ToSet(left))
  BY DEF Computes
<1>2. old \in Seq(AllNodes) /\ ToSet(old) = ToSet(left) /\ IsInjective(old)
  BY OldFacts
<1>3. marked \in SUBSET (1 .. Len(old))
  BY DEF Placed
<1>4. CASE \E a, b \in ToSet(left) :
             /\ Placement(items) = <<SwapOp(a, b)>>
             /\ {a, b} = {old[i] : i \in (1 .. Len(old)) \ marked}
  <2>1. PICK a, b \in ToSet(left) :
             /\ Placement(items) = <<SwapOp(a, b)>>
             /\ {a, b} = {old[i] : i \in (1 .. Len(old)) \ marked}
    BY <1>4
  <2>2. a \in AllNodes /\ b \in AllNodes
    BY <1>1, ToSetFacts
  <2>3. Moves(AllNodes, Placement(items), {a, b})
    BY <2>1, <2>2, SwapFacts
  <2>4. QED
    BY <2>1, <2>3
<1>5. CASE Placement(items) = Rebuild(new, added, {old[i] : i \in marked})
  <2>1. PICK inLIS, ops : inLIS = {old[i] : i \in marked} /\ ops = Rebuild(new, added, inLIS)
    OBVIOUS
  <2>2. Moves(AllNodes, ops, ToSet(new) \ (added \cup inLIS))
    BY <1>1, <2>1, RebuildMoves
  <2>3. ToSet(new) \ (added \cup inLIS) = ToSet(old) \ inLIS
    BY <1>1, <1>2
  <2>4. ToSet(old) \ inLIS = {old[i] : i \in (1 .. Len(old)) \ marked}
    <3>1. DOMAIN old = 1 .. Len(old) /\ ToSet(old) = {old[i] : i \in 1 .. Len(old)}
      BY <1>2 DEF ToSet
    <3>2. \A i, j \in 1 .. Len(old) : old[i] = old[j] => i = j
      BY <1>2, <3>1 DEF IsInjective
    <3>3. QED
      BY <1>3, <2>1, <3>1, <3>2
  <2>5. QED
    BY <1>5, <2>1, <2>2, <2>3, <2>4 DEF Moves
<1>6. QED
  BY <1>4, <1>5 DEF Placed

\* The clear of the list.
LEMMA ClearFacts ==
  ASSUME NEW U, NEW ops, ops = <<ClearOp>>
  PROVE  ops \in Seq(Ops(U)) /\ Kinds(ops) = {"clear"} /\ ClearOp \in Ops(U)
<1>1. PICK o : o = ClearOp
  OBVIOUS
<1>2. <<>> \in Seq(U)
  OBVIOUS
<1>3. o \in Ops(U) /\ o.op = "clear"
  BY <1>1, <1>2 DEF Ops, ClearOp
<1>4. Kinds(<<o>>) = {"clear"}
  BY <1>3, OneKind
<1>5. <<o>> \in Seq(Ops(U))
  BY <1>3
<1>6. QED
  BY <1>1, <1>3, <1>4, <1>5

\* The first part of the observer queues one clear, or removes; it moves nothing.
LEMMA RemovalFacts ==
  ASSUME NEW items, NEW left, NEW gone, NEW old, NEW new, NEW added,
         Computes(items, left, gone, old, new, added)
  PROVE  /\ Removal(items) = IF Cleared(items) THEN <<ClearOp>> ELSE Removes(gone)
         /\ Moves(AllNodes, Removal(items), {})
         /\ Kinds(Removal(items)) \subseteq {"clear", "remove"}
         /\ Cleared(items) => Kinds(Removal(items)) = {"clear"}
<1>1. gone = Gone(items) /\ gone \in Seq(AllNodes)
  BY DEF Computes
<1>2. Removal(items) = IF Cleared(items) THEN <<ClearOp>> ELSE Removes(gone)
  BY <1>1 DEF Removal, Removes
<1>3. CASE Cleared(items)
  <2>1. PICK ops : ops = <<ClearOp>>
    OBVIOUS
  <2>2. ops \in Seq(Ops(AllNodes)) /\ Kinds(ops) = {"clear"}
    BY <2>1, ClearFacts
  <2>3. Moved(ops) = {}
    BY <2>2, MovedNone
  <2>4. QED
    BY <1>2, <1>3, <2>1, <2>2, <2>3 DEF Moves
<1>4. CASE ~Cleared(items)
  <2>1. PICK ops : ops = Removes(gone)
    OBVIOUS
  <2>2. Kinds(ops) \subseteq {"remove"}
    BY <1>1, <2>1, ListKinds
  <2>3. ops \in Seq(Ops(AllNodes))
    <3>1. CASE AllNodes = {}
      BY <1>1, <2>1, <3>1 DEF Removes
    <3>2. CASE AllNodes # {}
      BY <1>1, <2>1, <3>2, RemovesAppend
    <3>3. QED
      BY <3>1, <3>2
  <2>4. Moved(ops) = {}
    BY <2>2, MovedNone
  <2>5. QED
    BY <1>2, <1>4, <2>1, <2>2, <2>3, <2>4 DEF Moves
<1>5. QED
  BY <1>3, <1>4, <1>2

(***************************************************************************)
(* What a client shows after the operations of a change.                   *)
(***************************************************************************)

\* After the first part the client shows the survivors.
LEMMA RemovalShown ==
  ASSUME NEW items, NEW left, NEW gone, NEW old, NEW new, NEW added,
         Computes(items, left, gone, old, new, added),
         NEW c \in ClientStates(AllNodes), NEW D, Shown(c, ToSet(children), D),
         Cleared(items) => c.deferred = <<>>,
         NEW ops, ops = Removal(items), NEW e, e = Applied(c, ops, {})
  PROVE  After(AllNodes, c, ops, e, ToSet(left), D, {"clear", "remove"})
<1>1. /\ gone \in Seq(AllNodes) /\ ToSet(gone) = ToSet(children) \ ToSet(left)
      /\ ToSet(left) \subseteq ToSet(children)
      /\ \A n \in ToSet(children) : n \in ToSet(left) <=> n.key \in ToSet(items)
  BY DEF Computes
<1>2. /\ ops = IF Cleared(items) THEN <<ClearOp>> ELSE Removes(gone)
      /\ Kinds(ops) \subseteq {"clear", "remove"}
      /\ Moves(AllNodes, ops, {})
  BY RemovalFacts
<1>3. ops \in Seq(Ops(AllNodes))
  BY <1>2 DEF Moves
<1>4. CASE Cleared(items)
  <2>1. PICK o : o = ClearOp
    OBVIOUS
  <2>2. o \in Ops(AllNodes)
    <3>1. PICK one : one = <<ClearOp>>
      OBVIOUS
    <3>2. QED
      BY <2>1, <3>1, ClearFacts
  <2>3. e = ApplyOp(c, o, {})
    BY <1>2, <1>4, <2>1, <2>2, AppliedOne
  <2>4. e \in ClientStates(AllNodes) /\ Is(e, {}, <<>>, <<>>) /\ Shown(e, {}, D)
    BY <1>4, <2>1, <2>3, ShownClear
  <2>5. ToSet(left) = {}
    <3>1. ToSet(items) = {}
      BY <1>4, ToSetEmpty DEF Cleared
    <3>2. QED
      BY <1>1, <3>1
  <2>6. e.deferred = c.deferred
    BY <1>4, <2>4 DEF Is
  <2>7. QED
    BY <1>2, <1>3, <2>4, <2>5, <2>6 DEF After
<1>5. CASE ~Cleared(items)
  <2>1. e = Applied(c, Removes(gone), {})
    BY <1>2, <1>5
  <2>2. PICK N, M : N = ToSet(children) /\ M = N \ ToSet(gone)
    OBVIOUS
  <2>3. e \in ClientStates(AllNodes) /\ Shown(e, M, D) /\ e.deferred = c.deferred
    <3>1. Shown(c, N, D) /\ gone \in Seq(AllNodes)
      BY <1>1, <2>2
    <3>2. Without(AllNodes, c, gone, e, N, D)
      BY <2>1, <3>1, ShownRemoves
    <3>3. QED
      BY <2>2, <3>2 DEF Without
  <2>4. M = ToSet(left)
    BY <1>1, <2>2
  <2>5. QED
    BY <1>2, <1>3, <2>3, <2>4 DEF After
<1>6. QED
  BY <1>4, <1>5

\* After the second part the client shows the new children.
LEMMA PlacementShown ==
  ASSUME NEW items, NEW left, NEW gone, NEW old, NEW new, NEW added,
         Computes(items, left, gone, old, new, added),
         NEW marked, Placed(items, left, old, new, added, marked),
         NEW c \in ClientStates(AllNodes), NEW D, Shown(c, ToSet(left), D), added \cap D = {},
         NEW ops, ops = Placement(items), "swap" \in Kinds(ops) => c.deferred = <<>>,
         NEW d, d = Applied(c, ops, {})
  PROVE  After(AllNodes, c, ops, d, ToSet(new), D \cup added, {"insert", "html", "move", "swap"})
<1>1. /\ left \in Seq(AllNodes) /\ new \in Seq(AllNodes) /\ IsInjective(new)
      /\ added = ToSet(new) \ ToSet(left) /\ ToSet(new) = added \cup ToSet(left)
  BY DEF Computes
<1>2. PICK N : N = ToSet(left)
  OBVIOUS
<1>3. Shown(c, N, D)
  BY <1>2
<1>4. CASE \E a, b \in ToSet(left) :
             /\ Placement(items) = <<SwapOp(a, b)>> /\ added = {}
  <2>1. PICK a, b \in N : ops = <<SwapOp(a, b)>> /\ added = {}
    BY <1>2, <1>4
  <2>2. a \in AllNodes /\ b \in AllNodes
    BY <1>1, <1>2, ToSetFacts
  <2>3. Moves(AllNodes, ops, {a, b}) /\ Kinds(ops) = {"swap"}
    BY <2>1, <2>2, SwapFacts
  <2>4. c.deferred = <<>>
    BY <2>3
  <2>5. PICK o : o = SwapOp(a, b)
    OBVIOUS
  <2>6. o \in Ops(AllNodes)
    <3>1. <<>> \in Seq(AllNodes)
      OBVIOUS
    <3>2. QED
      BY <2>2, <2>5, <3>1, OpTypes
  <2>7. d = ApplyOp(c, o, {})
    BY <2>1, <2>5, <2>6, AppliedOne
  <2>8. d \in ClientStates(AllNodes) /\ Shown(d, N, D) /\ d.deferred = c.deferred
    BY <1>3, <2>4, <2>5, <2>7, ShownSwap
  <2>9. N = ToSet(new) /\ D = D \cup added
    BY <1>1, <1>2, <2>1
  <2>10. QED
    BY <2>3, <2>8, <2>9 DEF After, Moves
<1>5. CASE Placement(items) = Rebuild(new, added, {old[i] : i \in marked})
  <2>1. PICK inLIS : inLIS = {old[i] : i \in marked}
    OBVIOUS
  <2>2. ops = Rebuild(new, added, inLIS)
    BY <1>5, <2>1
  <2>3. added \cap (N \cup D) = {} /\ ToSet(new) \subseteq added \cup N
    BY <1>1, <1>2
  <2>4. After(AllNodes, c, ops, d, N \cup (ToSet(new) \cap added), D \cup (ToSet(new) \cap added),
              {"insert", "html", "move"})
    BY <1>1, <1>3, <2>2, <2>3, RebuildShown
  <2>5. N \cup (ToSet(new) \cap added) = ToSet(new) /\ ToSet(new) \cap added = added
    BY <1>1, <1>2
  <2>6. QED
    BY <2>4, <2>5 DEF After
<1>6. QED
  BY <1>4, <1>5 DEF Placed

\* Two parts of a change, one after the other.
LEMMA AfterConcat ==
  ASSUME NEW U, NEW c, NEW s, NEW e, NEW N, NEW D, NEW k, After(U, c, s, e, N, D, k),
         NEW t, NEW d, NEW M, NEW E, NEW l, After(U, e, t, d, M, E, l),
         NEW ops, ops = s \o t
  PROVE  After(U, c, ops, d, M, E, k \cup l)
<1>1. /\ s \in Seq(Ops(U)) /\ t \in Seq(Ops(U)) /\ d \in ClientStates(U) /\ Shown(d, M, E)
      /\ Kinds(s) \subseteq k /\ Kinds(t) \subseteq l
      /\ "insert" \in Kinds(s) \/ e.deferred = c.deferred
      /\ "insert" \in Kinds(t) \/ d.deferred = e.deferred
  BY DEF After
<1>2. ops \in Seq(Ops(U)) /\ Kinds(ops) = Kinds(s) \cup Kinds(t)
  BY <1>1, ConcatFacts, KindsConcat
<1>3. QED
  BY <1>1, <1>2 DEF After

\* The operations of a change bring a client that shows the old children, or
\* waits to attach them, to the new ones.  Clearing and swapping need a client
\* that does not wait.
LEMMA ChangeShown ==
  ASSUME NEW items, NEW left, NEW gone, NEW old, NEW new, NEW added,
         Computes(items, left, gone, old, new, added),
         NEW c \in ClientStates(AllNodes), Shown(c, ToSet(children), Rendered),
         NEW ops, ops = Removal(items) \o Placement(items),
         "clear" \in Kinds(ops) \/ "swap" \in Kinds(ops) => c.deferred = <<>>,
         NEW d, d = Applied(c, ops, {})
  PROVE  After(AllNodes, c, ops, d, ToSet(new), Rendered \cup added,
               {"clear", "remove", "insert", "html", "move", "swap"})
<1>1. PICK s, t, e, f, marked :
          /\ s = Removal(items) /\ t = Placement(items) /\ e = Applied(c, s, {}) /\ f = Applied(e, t, {})
          /\ marked = lisIndices(Positions(old, left))
  OBVIOUS
<1>2. Placed(items, left, old, new, added, marked)
  BY <1>1, PlacementCases
<1>3. s \in Seq(Ops(AllNodes)) /\ t \in Seq(Ops(AllNodes))
  <2>1. Moves(AllNodes, s, {})
    BY <1>1, RemovalFacts
  <2>2. Moves(AllNodes, t, {old[i] : i \in (1 .. Len(old)) \ marked})
    BY <1>1, <1>2, PlacementMoves
  <2>3. QED
    BY <2>1, <2>2 DEF Moves
<1>4. ops = s \o t /\ Kinds(ops) = Kinds(s) \cup Kinds(t)
  BY <1>1, <1>3, KindsConcat
<1>5. Cleared(items) => c.deferred = <<>>
  <2>1. Cleared(items) => Kinds(s) = {"clear"}
    BY <1>1, RemovalFacts
  <2>2. QED
    BY <1>4, <2>1
<1>6. After(AllNodes, c, s, e, ToSet(left), Rendered, {"clear", "remove"})
  <2>1. PICK D : D = Rendered
    OBVIOUS
  <2>2. Shown(c, ToSet(children), D)
    BY <2>1
  <2>3. After(AllNodes, c, s, e, ToSet(left), D, {"clear", "remove"})
    BY <1>1, <1>5, <2>2, RemovalShown
  <2>4. QED
    BY <2>1, <2>3
<1>7. e \in ClientStates(AllNodes) /\ Shown(e, ToSet(left), Rendered) /\ e.deferred = c.deferred
  BY <1>6 DEF After
<1>8. "swap" \in Kinds(t) => e.deferred = <<>>
  BY <1>4, <1>7
<1>9. added \cap Rendered = {}
  BY DEF Computes
<1>10. After(AllNodes, e, t, f, ToSet(new), Rendered \cup added, {"insert", "html", "move", "swap"})
  <2>1. PICK D : D = Rendered
    OBVIOUS
  <2>2. Shown(e, ToSet(left), D) /\ added \cap D = {} /\ e \in ClientStates(AllNodes)
    BY <1>7, <1>9, <2>1
  <2>3. After(AllNodes, e, t, f, ToSet(new), D \cup added, {"insert", "html", "move", "swap"})
    BY <1>1, <1>2, <1>8, <2>2, PlacementShown
  <2>4. QED
    BY <2>1, <2>3
<1>11. PICK k, l, M, E, N, D :
           /\ k = {"clear", "remove"} /\ l = {"insert", "html", "move", "swap"}
           /\ M = ToSet(new) /\ E = Rendered \cup added /\ N = ToSet(left) /\ D = Rendered
  OBVIOUS
<1>12. After(AllNodes, c, s, e, N, D, k) /\ After(AllNodes, e, t, f, M, E, l)
  BY <1>6, <1>10, <1>11
<1>13. After(AllNodes, c, ops, f, M, E, k \cup l) /\ f = d
  <2>1. After(AllNodes, c, ops, f, M, E, k \cup l)
    BY <1>4, <1>12, AfterConcat
  <2>2. f = d
    BY <1>1, <1>3, <1>4, AppliedConcat
  <2>3. QED
    BY <2>1, <2>2
<1>14. k \cup l = {"clear", "remove", "insert", "html", "move", "swap"}
  BY <1>11
<1>15. QED
  BY <1>11, <1>13, <1>14

(***************************************************************************)
(* The order of the children.                                              *)
(***************************************************************************)

\* The children are those that the client shows and then those it will attach.
InOrder(s, c) == s = c.dom \o Only(c.deferred, ToSet(s))

\* Removing nodes keeps the order of the others.
LEMMA OrderRemoval ==
  ASSUME NEW items, NEW left, NEW gone, NEW old, NEW new, NEW added,
         Computes(items, left, gone, old, new, added), children \in Seq(AllNodes),
         NEW c \in ClientStates(AllNodes), NEW D, Shown(c, ToSet(children), D),
         Cleared(items) => c.deferred = <<>>,
         InOrder(children, c) \/ left = <<>>,
         NEW e, e = Applied(c, Removal(items), {})
  PROVE  InOrder(left, e)
<1>1. PICK N, L : N = ToSet(children) /\ L = ToSet(left)
  OBVIOUS
<1>2. /\ gone \in Seq(AllNodes) /\ ToSet(gone) = N \ L /\ L \subseteq N /\ left \in Seq(AllNodes)
      /\ \A n \in N : n \in L <=> n.key \in ToSet(items)
      /\ left = Survivors(items)
  BY <1>1 DEF Computes
<1>3. After(AllNodes, c, Removal(items), e, L, D, {"clear", "remove"})
  <2>1. PICK ops : ops = Removal(items)
    OBVIOUS
  <2>2. After(AllNodes, c, ops, e, ToSet(left), D, {"clear", "remove"})
    BY <2>1, RemovalShown
  <2>3. QED
    BY <1>1, <2>1, <2>2
<1>4. e \in ClientStates(AllNodes) /\ Shown(e, L, D)
  BY <1>3 DEF After
<1>5. CASE left = <<>>
  <2>1. L = {}
    BY <1>1, <1>5, ToSetEmpty
  <2>2. e.dom \in Seq(AllNodes) /\ e.deferred \in Seq(AllNodes) /\ ToSet(e.dom) \subseteq {}
    BY <1>4, <2>1, ShownTypes DEF Shown
  <2>3. e.dom = <<>>
    <3>1. Len(e.dom) = 0
      <4>1. SUFFICES ASSUME Len(e.dom) # 0 PROVE FALSE
        OBVIOUS
      <4>2. 1 \in 1 .. Len(e.dom)
        BY <2>2, <4>1
      <4>3. e.dom[1] \in ToSet(e.dom)
        BY <2>2, <4>2, ToSetFacts
      <4>4. QED
        BY <2>2, <4>3
    <3>2. QED
      BY <2>2, <3>1
  <2>4. Only(e.deferred, L) = <<>>
    BY <2>1, <2>2, OnlyNone
  <2>5. <<>> = e.dom \o Only(e.deferred, L)
    <3>1. PICK s : s = <<>>
      OBVIOUS
    <3>2. s \in Seq(AllNodes)
      BY <3>1
    <3>3. s \o <<>> = s
      BY <3>2, ConcatEmpty
    <3>4. QED
      BY <2>3, <2>4, <3>1, <3>3
  <2>6. QED
    BY <1>1, <1>5, <2>5 DEF InOrder
<1>6. CASE left # <<>>
  <2>1. ~Cleared(items)
    <3>1. SUFFICES ASSUME Cleared(items) PROVE FALSE
      OBVIOUS
    <3>2. ToSet(items) = {}
      BY <3>1, ToSetEmpty DEF Cleared
    <3>3. L = {}
      BY <1>2, <3>2
    <3>4. 1 \in 1 .. Len(left)
      BY <1>2, <1>6
    <3>5. left[1] \in ToSet(left)
      BY <1>2, <3>4, ToSetFacts
    <3>6. QED
      BY <1>1, <3>3, <3>5
  <2>2. Removal(items) = Removes(gone)
    BY <2>1, RemovalFacts
  <2>3. Shown(c, N, D)
    BY <1>1
  <2>4. Without(AllNodes, c, gone, e, N, D)
    BY <1>2, <2>2, <2>3, ShownRemoves
  <2>5. e.deferred = c.deferred /\ e.dom = Only(c.dom, AllNodes \ ToSet(gone))
    BY <2>4 DEF Without
  <2>6. /\ c.dom \in Seq(AllNodes) /\ c.deferred \in Seq(AllNodes)
        /\ ToSet(c.dom) \subseteq N /\ ToSet(c.dom) \subseteq AllNodes
    BY <2>3, ShownTypes DEF Shown
  <2>7. Only(c.dom, AllNodes \ ToSet(gone)) = Only(c.dom, L)
    <3>1. ToSet(c.dom) \cap (AllNodes \ ToSet(gone)) = ToSet(c.dom) \cap L
      BY <1>2, <2>6
    <3>2. QED
      BY <2>6, <3>1, OnlySame
  <2>8. left = Only(children, L)
    <3>1. PICK R : R = {n \in N : n.key \in ToSet(items)}
      OBVIOUS
    <3>2. left = Only(children, R)
      BY <1>1, <1>2, <3>1 DEF Survivors
    <3>3. ToSet(children) \cap R = ToSet(children) \cap L
      BY <1>1, <1>2, <3>1
    <3>4. QED
      BY <3>2, <3>3, OnlySame
  <2>9. PICK known : known = Only(c.deferred, N)
    OBVIOUS
  <2>10. children = c.dom \o known
    BY <1>1, <1>6, <2>9 DEF InOrder
  <2>11. known \in Seq(AllNodes)
    BY <2>6, <2>9, OnlyFacts
  <2>12. Only(c.dom \o known, L) = Only(c.dom, L) \o Only(known, L)
    <3>1. PICK s : s = c.dom
      OBVIOUS
    <3>2. s \in Seq(AllNodes) /\ known \in Seq(AllNodes)
      BY <2>6, <2>11, <3>1
    <3>3. Only(s \o known, L) = Only(s, L) \o Only(known, L)
      BY <3>2, OnlyConcat
    <3>4. QED
      BY <3>1, <3>3
  <2>13. Only(known, L) = Only(c.deferred, N \cap L)
    BY <2>6, <2>9, OnlyOnly
  <2>14. N \cap L = L
    BY <1>2
  <2>15. left = e.dom \o Only(e.deferred, L)
    BY <2>5, <2>7, <2>8, <2>10, <2>12, <2>13, <2>14
  <2>16. QED
    BY <1>1, <2>15 DEF InOrder
<1>7. QED
  BY <1>5, <1>6

\* The positions of a sequence in itself.
LEMMA SamePositions ==
  ASSUME NEW U, NEW s \in Seq(U), IsInjective(s), NEW marked, marked = lisIndices(Positions(s, s))
  PROVE  marked = 1 .. Len(s)
<1>1. PICK p : p = Positions(s, s)
  OBVIOUS
<1>2. /\ p \in Seq(Int) /\ Len(p) = Len(s)
      /\ \A i \in 1 .. Len(s) : p[i] \in 1 .. Len(s) /\ s[p[i]] = s[i]
  BY <1>1, PositionFacts
<1>3. Len(s) \in Nat /\ DOMAIN s = 1 .. Len(s)
  OBVIOUS
<1>4. \A i \in 1 .. Len(s) : p[i] = i
  BY <1>2, <1>3 DEF IsInjective
<1>5. (1 .. Len(s)) \in IncreasingSets(p)
  BY <1>2, <1>3, <1>4 DEF IncreasingSets, Increasing
<1>6. /\ lisIndices(p) \in IncreasingSets(p)
      /\ \A S \in IncreasingSets(p) : Cardinality(S) <= Cardinality(lisIndices(p))
  BY <1>2, LisCorrect
<1>7. PICK all : all = 1 .. Len(s)
  OBVIOUS
<1>8. all \in SUBSET (1 .. Len(s)) /\ marked \in SUBSET (1 .. Len(s))
  BY <1>1, <1>2, <1>6, <1>7 DEF IncreasingSets
<1>9. Cardinality(all) = Len(s)
  BY <1>3, <1>7, FS_Interval
<1>10. Cardinality(marked) <= Len(s) /\ Cardinality(marked) \in Nat
  BY <1>3, <1>8, Indices
<1>11. Cardinality(all) <= Cardinality(marked)
  BY <1>1, <1>5, <1>6, <1>7
<1>12. Cardinality(marked) = Len(s)
  BY <1>3, <1>9, <1>10, <1>11
<1>13. QED
  BY <1>3, <1>8, <1>12, Indices

\* Nothing is placed but the nodes that are added at the end.
Appends(items, tail, added) ==
    /\ Placement(items) = flushBulkNew(tail)
    /\ ToSet(tail) = added /\ IsInjective(tail)

\* A change that adds items at the end moves nothing.
LEMMA AppendsPlacement ==
  ASSUME NEW items, NEW left, NEW gone, NEW old, NEW new, NEW added,
         Computes(items, left, gone, old, new, added),
         NEW tail \in Seq(AllNodes), new = left \o tail
  PROVE  Appends(items, tail, added)
<1>1. PICK L, marked : L = ToSet(left) /\ marked = lisIndices(Positions(old, left))
  OBVIOUS
<1>2. /\ left \in Seq(AllNodes) /\ IsInjective(left) /\ IsInjective(new)
      /\ added = ToSet(new) \ L /\ old = Only(new, L)
  BY <1>1 DEF Computes
<1>3. Placed(items, left, old, new, added, marked)
  BY <1>1, PlacementCases
<1>4. IsInjective(tail) /\ L \cap ToSet(tail) = {}
  BY <1>1, <1>2, OnceConcat
<1>5. ToSet(new) = L \cup ToSet(tail)
  BY <1>1, <1>2, ToSetConcat
<1>6. ToSet(tail) = added
  BY <1>2, <1>4, <1>5
<1>7. old = left
  <2>1. Only(left \o tail, L) = Only(left, L) \o Only(tail, L)
    BY <1>2, OnlyConcat
  <2>2. Only(left, L) = left
    BY <1>1, <1>2, OnlyThose
  <2>3. Only(tail, L) = <<>>
    <3>1. ToSet(tail) \cap L = {}
      BY <1>4
    <3>2. QED
      BY <3>1, OnlyNone
  <2>4. left \o <<>> = left
    BY <1>2, ConcatEmpty
  <2>5. QED
    BY <1>2, <2>1, <2>2, <2>3, <2>4
<1>8. marked = 1 .. Len(old)
  BY <1>1, <1>2, <1>7, SamePositions
<1>9. PICK inLIS : inLIS = {old[i] : i \in marked}
  OBVIOUS
<1>10. Placement(items) = Rebuild(new, added, inLIS)
  <2>1. {old[i] : i \in (1 .. Len(old)) \ marked} = {}
    BY <1>8
  <2>2. \A a, b : {a, b} # {old[i] : i \in (1 .. Len(old)) \ marked}
    BY <2>1
  <2>3. QED
    BY <1>3, <1>9, <2>2 DEF Placed
<1>11. inLIS = L
  BY <1>1, <1>2, <1>7, <1>8, <1>9 DEF ToSet
<1>12. ToSet(new) \subseteq added \cup inLIS /\ new \in Seq(AllNodes)
  BY <1>2, <1>11, ConcatFacts
<1>13. Rebuild(new, added, inLIS) = flushBulkNew(Only(new, added))
  BY <1>12, RebuildAppends
<1>14. Only(new, added) = tail
  <2>1. Only(left \o tail, added) = Only(left, added) \o Only(tail, added)
    BY <1>2, OnlyConcat
  <2>2. Only(tail, added) = tail
    BY <1>6, OnlyThose
  <2>3. Only(left, added) = <<>>
    <3>1. ToSet(left) \cap added = {}
      BY <1>1, <1>2
    <3>2. QED
      BY <1>2, <3>1, OnlyNone
  <2>4. <<>> \o tail = tail
    BY ConcatEmpty
  <2>5. QED
    BY <2>1, <2>2, <2>3, <2>4
<1>15. QED
  BY <1>4, <1>6, <1>10, <1>13, <1>14 DEF Appends

\* Nodes added at the end are shown, or attached, at the end.
LEMMA OrderPlacement ==
  ASSUME NEW left \in Seq(AllNodes), NEW tail \in Seq(AllNodes), NEW new, new = left \o tail,
         IsInjective(tail), NEW D, ToSet(tail) \cap D = {}, ToSet(tail) \cap ToSet(left) = {},
         NEW e \in ClientStates(AllNodes), Shown(e, ToSet(left), D), InOrder(left, e),
         NEW ops, ops = flushBulkNew(tail), "html" \in Kinds(ops) => e.deferred = <<>>,
         NEW d, d = Applied(e, ops, {})
  PROVE  InOrder(new, d)
<1>1. PICK L : L = ToSet(left)
  OBVIOUS
<1>2. /\ ~e.crashed /\ e.registry = L /\ e.dom \in Seq(AllNodes) /\ e.deferred \in Seq(AllNodes)
      /\ ToSet(e.deferred) \subseteq D
  BY <1>1, ShownTypes DEF Shown
<1>3. ToSet(tail) \cap e.registry = {}
  BY <1>1, <1>2
<1>4. ToSet(new) = L \cup ToSet(tail)
  BY <1>1, ToSetConcat
<1>5. PICK known : known = Only(e.deferred, L)
  OBVIOUS
<1>6. known \in Seq(AllNodes) /\ left = e.dom \o known
  BY <1>1, <1>2, <1>5, OnlyFacts DEF InOrder
<1>7. CASE Len(tail) >= BulkThreshold
  <2>1. /\ Kinds(ops) = {"html"}
        /\ Is(d, e.registry \cup ToSet(tail), e.dom \o tail, e.deferred)
    BY <1>2, <1>3, <1>7, BulkApplied
  <2>2. e.deferred = <<>> /\ d.deferred = <<>> /\ d.dom = e.dom \o tail
    BY <2>1 DEF Is
  <2>3. known = <<>> /\ Only(d.deferred, ToSet(new)) = <<>>
    BY <1>5, <2>2, OnlyEmpty
  <2>4. left = e.dom
    BY <1>2, <1>6, <2>3, ConcatEmpty
  <2>5. d.dom = new /\ new \in Seq(AllNodes)
    BY <2>2, <2>4, ConcatFacts
  <2>6. new \o <<>> = new
    BY <2>5, ConcatEmpty
  <2>7. QED
    BY <2>3, <2>5, <2>6 DEF InOrder
<1>8. CASE ~(Len(tail) >= BulkThreshold)
  <2>1. Is(d, e.registry \cup ToSet(tail), e.dom, e.deferred \o tail)
    BY <1>2, <1>3, <1>8, BulkApplied
  <2>2. d.dom = e.dom /\ d.deferred = e.deferred \o tail
    BY <2>1 DEF Is
  <2>3. PICK M : M = ToSet(new)
    OBVIOUS
  <2>4. Only(e.deferred \o tail, M) = Only(e.deferred, M) \o Only(tail, M)
    <3>1. PICK s : s = e.deferred
      OBVIOUS
    <3>2. s \in Seq(AllNodes)
      BY <1>2, <3>1
    <3>3. Only(s \o tail, M) = Only(s, M) \o Only(tail, M)
      BY <3>2, OnlyConcat
    <3>4. QED
      BY <3>1, <3>3
  <2>5. Only(tail, M) = tail
    <3>1. ToSet(tail) \subseteq M
      BY <1>4, <2>3
    <3>2. QED
      BY <3>1, OnlyThose
  <2>6. Only(e.deferred, M) = known
    <3>1. ToSet(e.deferred) \cap M = ToSet(e.deferred) \cap L
      BY <1>2, <1>4, <2>3
    <3>2. QED
      BY <1>2, <1>5, <3>1, OnlySame
  <2>7. new = e.dom \o (known \o tail)
    <3>1. PICK s : s = e.dom
      OBVIOUS
    <3>2. s \in Seq(AllNodes) /\ known \in Seq(AllNodes) /\ left = s \o known
      BY <1>2, <1>6, <3>1
    <3>3. (s \o known) \o tail = s \o (known \o tail)
      BY <3>2, ConcatAssoc
    <3>4. QED
      BY <3>1, <3>2, <3>3
  <2>8. QED
    BY <2>2, <2>3, <2>4, <2>5, <2>6, <2>7 DEF InOrder
<1>9. QED
  BY <1>7, <1>8

(***************************************************************************)
(* The inductive invariant.                                                *)
(***************************************************************************)

\* The client, if the operations that wait were applied now.
Played == Applied(Client, pendingOps, {})

\* The types of the queue and of the history of the changes.
QueueInv ==
    /\ pendingOps \in Seq(Ops(AllNodes))
    /\ hasty \subseteq {"clear", "swap", "html"}
    /\ tailEdits \in BOOLEAN

\* The client will know the children, each once, and has them or will attach
\* them; it waits to attach a node only behind an insert.
ShownInv ==
    hasty \subseteq {"html"} =>
        /\ ~crashed
        /\ Shown(Played, ToSet(children), Rendered)
        /\ Played.deferred = <<>> \/ "insert" \in Kinds(pendingOps)

\* With edits at the end only, the client will show the order of the list.
OrderInv == hasty = {} /\ tailEdits => InOrder(children, Played)

\* The inductive invariant.
ListInv == TypeOK /\ ServerInv /\ QueueInv /\ ShownInv /\ OrderInv

\* The client, now and after the queue, has its type.
LEMMA ClientTypes ==
  ASSUME ListAssumption, TypeOK, QueueInv
  PROVE  Client \in ClientStates(AllNodes) /\ Played \in ClientStates(AllNodes)
<1>1. Client \in ClientStates(AllNodes)
  <2>1. PICK e : e = <<>>
    OBVIOUS
  <2>2. e \in Seq(AllNodes)
    BY <2>1
  <2>3. registry \in SUBSET AllNodes /\ dom \in Seq(AllNodes) /\ crashed \in BOOLEAN
    BY DEF TypeOK
  <2>4. QED
    BY <2>1, <2>2, <2>3 DEF Client, ClientStates
<1>2. pendingOps \in Seq(Ops(AllNodes))
  BY DEF QueueInv
<1>3. QED
  BY <1>1, <1>2, AppliedType DEF Played

\* What a change queues is applied to what was queued before.
LEMMA ChangeQueue ==
  ASSUME ListAssumption, TypeOK, ServerInv, QueueInv, NEW items, Settable(items), SetItems(items),
         NEW ops, ops = Removal(items) \o Placement(items)
  PROVE  /\ ops \in Seq(Ops(AllNodes)) /\ pendingOps' = pendingOps \o ops
         /\ QueueInv' /\ Kinds(pendingOps') = Kinds(pendingOps) \cup Kinds(ops)
         /\ Played' = Applied(Played, ops, {})
         /\ hasty \subseteq hasty'
         /\ \A k \in {"clear", "swap", "html"} :
               "insert" \in Kinds(pendingOps) /\ k \in Kinds(ops) => k \in hasty'
<1>1. PICK left, gone, old, new, added : Computes(items, left, gone, old, new, added)
  <2>1. \A n \in Added(items) : n.nth <= MaxRenders
    BY DEF SetItems
  <2>2. QED
    BY <2>1, ObserverComputes
<1>2. PICK marked : marked = lisIndices(Positions(old, left))
  OBVIOUS
<1>3. Placed(items, left, old, new, added, marked)
  BY <1>1, <1>2, PlacementCases
<1>4. PICK s, t : s = Removal(items) /\ t = Placement(items)
  OBVIOUS
<1>5. s \in Seq(Ops(AllNodes)) /\ t \in Seq(Ops(AllNodes))
  <2>1. Moves(AllNodes, s, {})
    BY <1>1, <1>4, RemovalFacts
  <2>2. Moves(AllNodes, t, {old[i] : i \in (1 .. Len(old)) \ marked})
    BY <1>1, <1>3, <1>4, PlacementMoves
  <2>3. QED
    BY <2>1, <2>2 DEF Moves
<1>6. ops \in Seq(Ops(AllNodes))
  BY <1>4, <1>5, ConcatFacts
<1>7. pendingOps \in Seq(Ops(AllNodes)) /\ pendingOps' = pendingOps \o ops
  BY DEF SetItems, QueueInv
<1>8. pendingOps' \in Seq(Ops(AllNodes)) /\ Kinds(pendingOps') = Kinds(pendingOps) \cup Kinds(ops)
  BY <1>6, <1>7, ConcatFacts, KindsConcat
<1>9. Played' = Applied(Played, ops, {})
  <2>1. Client' = Client
    BY DEF SetItems, clientVars, Client
  <2>2. PICK c, p : c = Client /\ p = pendingOps
    OBVIOUS
  <2>3. Played' = Applied(c, p \o ops, {}) /\ Played = Applied(c, p, {})
    BY <1>7, <2>1, <2>2 DEF Played
  <2>4. p \in Seq(Ops(AllNodes))
    BY <1>7, <2>2
  <2>5. Applied(c, p \o ops, {}) = Applied(Applied(c, p, {}), ops, {})
    <3>1. PICK T : T = Ops(AllNodes)
      OBVIOUS
    <3>2. p \in Seq(T) /\ ops \in Seq(T)
      BY <1>6, <2>4, <3>1
    <3>3. PICK q : q = ops
      OBVIOUS
    <3>4. q \in Seq(T)
      BY <3>2, <3>3
    <3>5. Applied(c, p \o q, {}) = Applied(Applied(c, p, {}), q, {})
      BY <3>2, <3>4, AppliedConcat
    <3>6. QED
      BY <3>3, <3>5
  <2>6. QED
    BY <2>3, <2>5
<1>10. hasty' = hasty \cup {k \in {"clear", "swap", "html"} :
                               Queues(pendingOps, "insert") /\ Queues(ops, k)}
  BY DEF SetItems
<1>11. hasty \subseteq hasty' /\ hasty' \subseteq {"clear", "swap", "html"}
  BY <1>10 DEF QueueInv
<1>12. \A k \in {"clear", "swap", "html"} :
           "insert" \in Kinds(pendingOps) /\ k \in Kinds(ops) => k \in hasty'
  BY <1>10, QueuesKinds
<1>13. tailEdits' \in BOOLEAN
  BY DEF SetItems, QueueInv
<1>14. QueueInv'
  <2>1. AllNodes' = AllNodes /\ Ops(AllNodes)' = Ops(AllNodes)
    BY DEF AllNodes
  <2>2. QED
    BY <1>8, <1>11, <1>13, <2>1 DEF QueueInv
<1>15. QED
  BY <1>6, <1>7, <1>8, <1>9, <1>11, <1>12, <1>14

\* A change of the list keeps the inductive invariant.
LEMMA ChangeKeeps ==
  ASSUME ListAssumption, ListInv, NEW items, Settable(items), SetItems(items)
  PROVE  ListInv'
<1>1. TypeOK /\ ServerInv /\ QueueInv /\ ShownInv /\ OrderInv
  BY DEF ListInv
<1>2. TypeOK' /\ ServerInv'
  BY <1>1, ServerStep
<1>3. PICK ops, c, d : ops = Removal(items) \o Placement(items) /\ c = Played /\ d = Applied(c, ops, {})
  OBVIOUS
<1>4. /\ ops \in Seq(Ops(AllNodes)) /\ QueueInv'
      /\ Kinds(pendingOps') = Kinds(pendingOps) \cup Kinds(ops)
      /\ Played' = d /\ hasty \subseteq hasty'
      /\ \A k \in {"clear", "swap", "html"} :
            "insert" \in Kinds(pendingOps) /\ k \in Kinds(ops) => k \in hasty'
  BY <1>1, <1>3, ChangeQueue
<1>5. PICK left, gone, old, new, added : Computes(items, left, gone, old, new, added)
  <2>1. \A n \in Added(items) : n.nth <= MaxRenders
    BY DEF SetItems
  <2>2. QED
    BY <1>1, <2>1, ObserverComputes
<1>6. c \in ClientStates(AllNodes)
  BY <1>1, <1>3, ClientTypes
<1>7. children' = new
  BY <1>5 DEF SetItems, Computes
<1>8. Rendered \cup added \subseteq Rendered'
  <2>1. Rendered \subseteq Rendered' /\ Added(items) \subseteq Rendered'
    BY <1>1, RenderedGrows
  <2>2. QED
    BY <1>5, <2>1 DEF Computes
<1>9. ASSUME hasty' \subseteq {"html"}
      PROVE  /\ ~crashed /\ Shown(c, ToSet(children), Rendered)
             /\ c.deferred = <<>> \/ "insert" \in Kinds(pendingOps)
             /\ "clear" \in Kinds(ops) \/ "swap" \in Kinds(ops) => c.deferred = <<>>
  <2>1. hasty \subseteq {"html"}
    BY <1>4, <1>9
  <2>2. /\ ~crashed /\ Shown(c, ToSet(children), Rendered)
        /\ c.deferred = <<>> \/ "insert" \in Kinds(pendingOps)
    BY <1>1, <1>3, <2>1 DEF ShownInv
  <2>3. "clear" \notin hasty' /\ "swap" \notin hasty'
    BY <1>9
  <2>4. QED
    BY <1>4, <2>2, <2>3
<1>10. ShownInv'
  <2>1. SUFFICES ASSUME hasty' \subseteq {"html"}
                 PROVE  /\ ~crashed' /\ Shown(d, ToSet(new), Rendered')
                        /\ d.deferred = <<>> \/ "insert" \in Kinds(pendingOps')
    BY <1>4, <1>7 DEF ShownInv
  <2>2. After(AllNodes, c, ops, d, ToSet(new), Rendered \cup added,
              {"clear", "remove", "insert", "html", "move", "swap"})
    BY <1>3, <1>5, <1>6, <1>9, <2>1, ChangeShown
  <2>3. /\ Shown(d, ToSet(new), Rendered \cup added)
        /\ "insert" \in Kinds(ops) \/ d.deferred = c.deferred
    BY <2>2 DEF After
  <2>4. Shown(d, ToSet(new), Rendered')
    BY <1>8, <2>3 DEF Shown
  <2>5. crashed' = crashed
    BY DEF SetItems, clientVars
  <2>6. QED
    BY <1>4, <1>9, <2>1, <2>3, <2>4, <2>5
<1>11. OrderInv'
  <2>1. SUFFICES ASSUME hasty' = {}, tailEdits' PROVE InOrder(new, d)
    BY <1>4, <1>7 DEF OrderInv
  <2>2. hasty = {} /\ hasty' \subseteq {"html"}
    BY <1>4, <2>1
  <2>3. /\ Shown(c, ToSet(children), Rendered)
        /\ c.deferred = <<>> \/ "insert" \in Kinds(pendingOps)
        /\ "clear" \in Kinds(ops) => c.deferred = <<>>
        /\ "html" \in Kinds(ops) => c.deferred = <<>>
    BY <1>4, <1>9, <2>1, <2>2
  <2>4. PICK tail : tail = SubSeq(new, Len(left) + 1, Len(new))
    OBVIOUS
  <2>5. new = left \o tail /\ (tailEdits \/ left = <<>>)
    BY <1>5, <2>1, <2>4 DEF SetItems, Computes
  <2>6. InOrder(children, c) \/ left = <<>>
    BY <1>1, <1>3, <2>2, <2>5 DEF OrderInv
  <2>7. /\ new \in Seq(AllNodes) /\ left \in Seq(AllNodes) /\ added = ToSet(new) \ ToSet(left)
        /\ added \cap Rendered = {}
    BY <1>5 DEF Computes
  <2>8. tail \in Seq(AllNodes)
    <3>1. Len(left) \in Nat /\ Len(new) \in Nat /\ \A i \in 1 .. Len(new) : new[i] \in AllNodes
      BY <2>7, ElementOf
    <3>2. \A i \in Len(left) + 1 .. Len(new) : new[i] \in AllNodes
      BY <3>1
    <3>3. PICK m, n : m = Len(left) + 1 /\ n = Len(new)
      OBVIOUS
    <3>4. m \in Int /\ n \in Int /\ \A i \in m .. n : new[i] \in AllNodes
      BY <3>1, <3>2, <3>3
    <3>5. SubSeq(new, m, n) \in Seq(AllNodes)
      BY <3>4, SubSeqProperties
    <3>6. QED
      BY <2>4, <3>3, <3>5
  <2>9. Placement(items) = flushBulkNew(tail) /\ ToSet(tail) = added /\ IsInjective(tail)
    <3>1. new = left \o tail
      BY <2>5
    <3>2. Appends(items, tail, added)
      BY <1>5, <2>8, <3>1, AppendsPlacement
    <3>3. QED
      BY <3>2 DEF Appends
  <2>10. PICK s, t, e : s = Removal(items) /\ t = Placement(items) /\ e = Applied(c, s, {})
    OBVIOUS
  <2>11. s \in Seq(Ops(AllNodes)) /\ t \in Seq(Ops(AllNodes))
    <3>1. Moves(AllNodes, s, {})
      BY <1>5, <2>10, RemovalFacts
    <3>2. t \in Seq(Ops(AllNodes))
      BY <2>8, <2>9, <2>10, BulkKinds
    <3>3. QED
      BY <3>1, <3>2 DEF Moves
  <2>12. ops = s \o t /\ Kinds(ops) = Kinds(s) \cup Kinds(t)
    BY <1>3, <2>10, <2>11, KindsConcat
  <2>13. d = Applied(e, t, {})
    BY <1>3, <2>10, <2>11, <2>12, AppliedConcat
  <2>14. Cleared(items) => c.deferred = <<>>
    <3>1. Cleared(items) => Kinds(s) = {"clear"}
      BY <1>5, <2>10, RemovalFacts
    <3>2. QED
      BY <2>3, <2>12, <3>1
  <2>15. PICK D : D = Rendered
    OBVIOUS
  <2>16. Shown(c, ToSet(children), D) /\ ToSet(tail) \cap D = {} /\ ToSet(tail) \cap ToSet(left) = {}
    BY <2>3, <2>7, <2>9, <2>15
  <2>17. After(AllNodes, c, s, e, ToSet(left), D, {"clear", "remove"})
    BY <1>5, <1>6, <2>10, <2>14, <2>16, RemovalShown
  <2>18. e \in ClientStates(AllNodes) /\ Shown(e, ToSet(left), D) /\ e.deferred = c.deferred
    BY <2>17 DEF After
  <2>19. children \in Seq(AllNodes)
    BY <1>1 DEF TypeOK
  <2>20. InOrder(left, e)
    BY <1>5, <1>6, <2>6, <2>10, <2>14, <2>16, <2>19, OrderRemoval
  <2>21. "html" \in Kinds(t) => e.deferred = <<>>
    BY <2>3, <2>12, <2>18
  <2>22. t = flushBulkNew(tail)
    BY <2>9, <2>10
  <2>23. QED
    BY <2>5, <2>7, <2>8, <2>9, <2>13, <2>16, <2>18, <2>20, <2>21, <2>22, OrderPlacement
<1>12. QED
  BY <1>2, <1>4, <1>10, <1>11 DEF ListInv

\* A flush keeps the inductive invariant.
LEMMA FlushKeeps ==
  ASSUME ListAssumption, ListInv, Flush
  PROVE  ListInv'
<1>1. TypeOK /\ ServerInv /\ QueueInv /\ ShownInv /\ OrderInv
  BY DEF ListInv
<1>2. PICK c, p, d, end, N, D :
          /\ c = Played /\ p = pendingOps /\ d = Applied(Client, p, orphans)
          /\ end = AttachDeferred(d) /\ N = ToSet(children) /\ D = Rendered
  OBVIOUS
<1>3. /\ registry' = end.registry /\ dom' = end.dom /\ crashed' = end.crashed
      /\ pendingOps' = <<>> /\ changes' = 0 /\ unchanged' = <<>>
      /\ children' = children /\ nodeMap' = nodeMap /\ renders' = renders
      /\ orphans' = orphans /\ tailEdits' = tailEdits /\ hasty' = hasty
  BY <1>2 DEF Flush
<1>4. c \in ClientStates(AllNodes) /\ Client \in ClientStates(AllNodes) /\ p \in Seq(Ops(AllNodes))
  BY <1>1, <1>2, ClientTypes DEF QueueInv
<1>5. d \in ClientStates(AllNodes)
  BY <1>2, <1>4, AppliedType
<1>6. end \in ClientStates(AllNodes)
  BY <1>2, <1>5, AttachType
<1>7. /\ end.registry \subseteq AllNodes /\ end.dom \in Seq(AllNodes) /\ end.crashed \in BOOLEAN
  BY <1>6, ShownTypes
<1>8. AllNodes' = AllNodes /\ Rendered' = Rendered
  BY <1>3 DEF AllNodes, Rendered
<1>9. TypeOK'
  <2>1. changes' \in 0 .. MaxChanges
    BY <1>3 DEF ListAssumption
  <2>2. QED
    BY <1>1, <1>3, <1>7, <1>8, <2>1 DEF TypeOK
<1>10. ServerInv'
  BY <1>1, <1>3, <1>8 DEF ServerInv
<1>11. QueueInv'
  <2>1. PICK V : V = Ops(AllNodes)
    OBVIOUS
  <2>2. <<>> \in Seq(V)
    OBVIOUS
  <2>3. Ops(AllNodes)' = V
    BY <1>8, <2>1
  <2>4. QED
    BY <1>1, <1>3, <2>2, <2>3 DEF QueueInv
<1>12. Played' = Client' /\ Client'.deferred = <<>> /\ Client'.registry = end.registry
       /\ Client'.dom = end.dom /\ Client'.crashed = end.crashed
  <2>1. Client' = [registry |-> end.registry, dom |-> end.dom, deferred |-> <<>>, crashed |-> end.crashed]
    BY <1>3 DEF Client
  <2>2. PICK k : k = Client'
    OBVIOUS
  <2>3. Played' = Applied(k, <<>>, {})
    BY <1>3, <2>2 DEF Played
  <2>4. Applied(k, <<>>, {}) = k
    BY AppliedEmpty
  <2>5. QED
    BY <2>1, <2>2, <2>3, <2>4
<1>13. ASSUME hasty \subseteq {"html"}
       PROVE  /\ Shown(c, N, D) /\ end.crashed = FALSE /\ end.registry = N
              /\ ToSet(end.dom) = N /\ IsInjective(end.dom)
              /\ end.dom = Only(c.dom, ToSet(c.dom) \ ToSet(Only(c.deferred, N))) \o Only(c.deferred, N)
  <2>1. Shown(c, N, D)
    BY <1>1, <1>2, <1>13 DEF ShownInv
  <2>2. N \cap orphans = {}
    BY <1>1, <1>2 DEF ServerInv
  <2>3. PICK k, O : k = Client /\ O = orphans
    OBVIOUS
  <2>4. Alike(Applied(k, p, O), Applied(k, p, {}), N)
    BY <1>4, <2>2, <2>3, OrphansOnlyDefer
  <2>5. Alike(d, c, N)
    BY <1>2, <2>3, <2>4 DEF Played
  <2>6. Attached(AllNodes, c, end, N)
    BY <1>2, <1>4, <1>5, <2>1, <2>5, ShownAttached
  <2>7. QED
    BY <2>1, <2>6 DEF Attached
<1>14. ShownInv'
  <2>1. SUFFICES ASSUME hasty \subseteq {"html"}
                 PROVE  /\ ~crashed' /\ Shown(Played', N, D) /\ Played'.deferred = <<>>
    BY <1>2, <1>3, <1>8 DEF ShownInv
  <2>2. ToSet(<<>>) = {} /\ IsInjective(<<>>)
    BY ToSetEmpty, OnceEmpty
  <2>3. QED
    BY <1>3, <1>12, <1>13, <2>1, <2>2 DEF Shown
<1>15. OrderInv'
  <2>1. SUFFICES ASSUME hasty = {}, tailEdits PROVE InOrder(children, Played')
    BY <1>3 DEF OrderInv
  <2>2. InOrder(children, c)
    BY <1>1, <1>2, <2>1 DEF OrderInv
  <2>3. hasty \subseteq {"html"}
    BY <2>1
  <2>4. PICK s, known : s = c.dom /\ known = Only(c.deferred, N)
    OBVIOUS
  <2>5. children = s \o known
    BY <1>2, <2>2, <2>4 DEF InOrder
  <2>6. c.deferred \in Seq(AllNodes) /\ s \in Seq(AllNodes)
    BY <1>4, <2>4, ShownTypes
  <2>7. known \in Seq(AllNodes)
    BY <2>4, <2>6, OnlyFacts
  <2>8. IsInjective(s \o known)
    BY <1>1, <2>5 DEF TypeOK
  <2>9. ToSet(s) \cap ToSet(known) = {}
    BY <2>6, <2>7, <2>8, OnceConcat
  <2>10. Only(s, ToSet(s) \ ToSet(known)) = s
    <3>1. PICK R : R = ToSet(s) \ ToSet(known)
      OBVIOUS
    <3>2. ToSet(s) \subseteq R
      BY <2>9, <3>1
    <3>3. Only(s, R) = s
      BY <2>6, <3>2, OnlyThose
    <3>4. QED
      BY <3>1, <3>3
  <2>11. end.dom = children
    BY <1>13, <2>3, <2>4, <2>5, <2>10
  <2>12. Only(Played'.deferred, ToSet(children)) = <<>> /\ Played'.dom = children
    BY <1>12, <2>11, OnlyEmpty
  <2>13. children \o <<>> = children
    <3>1. children \in Seq(AllNodes)
      BY <1>1 DEF TypeOK
    <3>2. QED
      BY <3>1, ConcatEmpty
  <2>14. QED
    BY <2>12, <2>13 DEF InOrder
<1>16. QED
  BY <1>9, <1>10, <1>11, <1>14, <1>15 DEF ListInv

(***************************************************************************)
(* The initial state, the steps, and the theorems.                         *)
(***************************************************************************)

\* The mounted page satisfies the inductive invariant.
LEMMA InitHolds ==
  ASSUME ListAssumption, Init
  PROVE  ListInv
<1>1. PICK first : first = [i \in 1 .. Len(InitialItems) |-> Node(InitialItems[i], 1)]
  OBVIOUS
<1>2. /\ children = first /\ nodeMap = [k \in ToSet(InitialItems) |-> Node(k, 1)]
      /\ renders = [k \in Keys |-> IF k \in ToSet(InitialItems) THEN 1 ELSE 0]
      /\ orphans = {} /\ pendingOps = <<>> /\ changes = 0
      /\ registry = ToSet(first) /\ dom = first /\ crashed = FALSE
      /\ tailEdits = TRUE /\ unchanged = <<>> /\ hasty = {}
  BY <1>1 DEF Init
<1>3. /\ InitialItems \in Seq(Keys) /\ IsInjective(InitialItems)
      /\ Len(InitialItems) \in Nat /\ DOMAIN InitialItems = 1 .. Len(InitialItems)
      /\ 1 \in 1 .. MaxRenders /\ MaxRenders \in Nat
  BY DEF ListAssumption
<1>4. \A i \in 1 .. Len(InitialItems) : InitialItems[i] \in Keys /\ InitialItems[i] \in ToSet(InitialItems)
  BY <1>3, ToSetFacts
<1>5. ToSet(InitialItems) \subseteq Keys
  BY <1>3, ToSetFacts
<1>6. \A k \in Keys : Node(k, 1) \in AllNodes /\ Node(k, 1).key = k /\ Node(k, 1).nth = 1
  BY <1>3, NodeFacts
<1>7. /\ first \in Seq(AllNodes) /\ DOMAIN first = 1 .. Len(InitialItems)
      /\ \A i \in 1 .. Len(InitialItems) : first[i] = Node(InitialItems[i], 1)
  BY <1>1, <1>3, <1>4, <1>6
<1>8. \A i \in 1 .. Len(InitialItems) : first[i].key = InitialItems[i]
  BY <1>4, <1>6, <1>7
<1>9. IsInjective(first) /\ \A i, j \in DOMAIN first : first[i].key = first[j].key => i = j
  BY <1>3, <1>7, <1>8 DEF IsInjective
<1>10. \A n : n \in ToSet(first) <=> \E k \in ToSet(InitialItems) : n = Node(k, 1)
  <2>1. \A n : n \in ToSet(first) <=> \E i \in 1 .. Len(InitialItems) : n = Node(InitialItems[i], 1)
    BY <1>7 DEF ToSet
  <2>2. \A k : k \in ToSet(InitialItems) <=> \E i \in 1 .. Len(InitialItems) : InitialItems[i] = k
    BY <1>3, ToSetFacts
  <2>3. QED
    BY <2>1, <2>2
<1>11. {n.key : n \in ToSet(first)} = ToSet(InitialItems)
  BY <1>5, <1>6, <1>10
<1>12. ToSet(first) \subseteq AllNodes
  BY <1>7, ToSetFacts
<1>13. ToSet(first) \subseteq Rendered
  <2>1. SUFFICES ASSUME NEW n \in ToSet(first) PROVE n \in Rendered
    OBVIOUS
  <2>2. PICK k \in ToSet(InitialItems) : n = Node(k, 1)
    BY <1>10
  <2>3. n.key = k /\ n.nth = 1 /\ renders[k] = 1
    BY <1>2, <1>5, <1>6, <2>2
  <2>4. QED
    BY <1>12, <2>3 DEF Rendered
<1>14. ServerInv
  <2>1. \A n \in ToSet(first) : nodeMap[n.key] = n
    BY <1>2, <1>5, <1>6, <1>10
  <2>2. DOMAIN nodeMap = {n.key : n \in ToSet(first)}
    BY <1>2, <1>11
  <2>3. QED
    BY <1>2, <1>9, <1>13, <2>1, <2>2 DEF ServerInv
<1>15. TypeOK
  <2>1. \A k \in ToSet(InitialItems) : nodeMap[k] \in ToSet(first) /\ nodeMap[k].key = k
    BY <1>2, <1>5, <1>6, <1>10
  <2>2. nodeMap \in [{n.key : n \in ToSet(first)} -> ToSet(first)]
    <3>1. nodeMap \in [ToSet(InitialItems) -> ToSet(first)]
      BY <1>2, <2>1
    <3>2. QED
      BY <1>11, <3>1
  <2>3. \A k \in DOMAIN nodeMap : nodeMap[k].key = k
    BY <1>2, <2>1
  <2>4. renders \in [Keys -> 0 .. MaxRenders]
    BY <1>2, <1>3
  <2>5. changes \in 0 .. MaxChanges
    BY <1>2 DEF ListAssumption
  <2>6. QED
    BY <1>2, <1>7, <1>9, <1>12, <2>2, <2>3, <2>4, <2>5 DEF TypeOK
<1>16. QueueInv
  <2>1. PICK V : V = Ops(AllNodes)
    OBVIOUS
  <2>2. <<>> \in Seq(V)
    OBVIOUS
  <2>3. QED
    BY <1>2, <2>1, <2>2 DEF QueueInv
<1>17. /\ Played.dom = first /\ Played.deferred = <<>> /\ Played.registry = ToSet(first)
       /\ Played.crashed = FALSE
  <2>1. PICK c : c = Client
    OBVIOUS
  <2>2. c = [registry |-> ToSet(first), dom |-> first, deferred |-> <<>>, crashed |-> FALSE]
    BY <1>2, <2>1 DEF Client
  <2>3. Played = Applied(c, <<>>, {})
    BY <1>2, <2>1 DEF Played
  <2>4. Applied(c, <<>>, {}) = c
    BY AppliedEmpty
  <2>5. QED
    BY <2>2, <2>3, <2>4
<1>18. ShownInv
  <2>1. ToSet(<<>>) = {} /\ IsInjective(<<>>)
    BY ToSetEmpty, OnceEmpty
  <2>2. Shown(Played, ToSet(first), Rendered)
    BY <1>9, <1>17, <2>1 DEF Shown
  <2>3. QED
    BY <1>2, <1>17, <2>2 DEF ShownInv
<1>19. OrderInv
  <2>1. Only(Played.deferred, ToSet(first)) = <<>>
    BY <1>17, OnlyEmpty
  <2>2. first \o <<>> = first
    BY <1>7, ConcatEmpty
  <2>3. InOrder(first, Played)
    BY <1>17, <2>1, <2>2 DEF InOrder
  <2>4. QED
    BY <1>2, <2>3 DEF OrderInv
<1>20. QED
  BY <1>14, <1>15, <1>16, <1>18, <1>19 DEF ListInv

\* A change sets some list without a key twice.
LEMMA ChangeItems ==
  ASSUME ListAssumption, Change
  PROVE  \E items : Settable(items) /\ SetItems(items)
<1>1. PICK items \in SeqOf(Keys, Cardinality(Keys)) : IsInjective(items) /\ SetItems(items)
  BY DEF Change
<1>2. Cardinality(Keys) \in Nat
  BY FS_CardinalityType DEF ListAssumption
<1>3. PICK m \in 0 .. Cardinality(Keys) : items \in [1 .. m -> Keys]
  BY DEF SeqOf
<1>4. m \in Nat
  BY <1>2
<1>5. items \in Seq(Keys)
  BY <1>3, <1>4
<1>6. QED
  BY <1>1, <1>5 DEF Settable

\* A stuttering step keeps the inductive invariant.
LEMMA StutterKeeps ==
  ASSUME ListInv, UNCHANGED vars
  PROVE  ListInv'
<1>1. /\ children' = children /\ nodeMap' = nodeMap /\ renders' = renders /\ orphans' = orphans
      /\ pendingOps' = pendingOps /\ changes' = changes /\ registry' = registry /\ dom' = dom
      /\ crashed' = crashed /\ tailEdits' = tailEdits /\ unchanged' = unchanged /\ hasty' = hasty
  BY DEF vars, serverVars, clientVars
<1>2. AllNodes' = AllNodes /\ Rendered' = Rendered /\ Client' = Client /\ Ops(AllNodes)' = Ops(AllNodes)
  BY <1>1 DEF AllNodes, Rendered, Client
<1>3. Played' = Played
  BY <1>1, <1>2 DEF Played
<1>4. TypeOK'
  BY <1>1, <1>2 DEF ListInv, TypeOK
<1>5. ServerInv'
  BY <1>1, <1>2 DEF ListInv, ServerInv
<1>6. QueueInv'
  BY <1>1, <1>2 DEF ListInv, QueueInv
<1>7. ShownInv'
  BY <1>1, <1>2, <1>3 DEF ListInv, ShownInv
<1>8. OrderInv'
  BY <1>1, <1>3 DEF ListInv, OrderInv
<1>9. QED
  BY <1>4, <1>5, <1>6, <1>7, <1>8 DEF ListInv

\* The inductive invariant, whatever changes and flushes come: the operations that
\* wait on For's container bring the browser from what it shows to the children of
\* the list, unless a clear or a swap was queued behind a waiting insert.
THEOREM KeyedListInvariant == Spec => []ListInv
<1>1. Init => ListInv
  BY InitHolds, ListAssumption
<1>2. ListInv /\ [Next]_vars => ListInv'
  <2>1. SUFFICES ASSUME ListInv, [Next]_vars PROVE ListInv'
    OBVIOUS
  <2>2. CASE Change
    <3>1. PICK items : Settable(items) /\ SetItems(items)
      BY <2>2, ListAssumption, ChangeItems
    <3>2. QED
      BY <2>1, <3>1, ListAssumption, ChangeKeeps
  <2>3. CASE Flush
    BY <2>1, <2>3, ListAssumption, FlushKeeps
  <2>4. CASE UNCHANGED vars
    BY <2>1, <2>4, StutterKeeps
  <2>5. QED
    BY <2>1, <2>2, <2>3, <2>4 DEF Next
<1>3. QED
  BY <1>1, <1>2, PTL DEF Spec

\* With an empty queue the client is what it will be.
LEMMA FlushedPlayed ==
  ASSUME ListInv, Flushed
  PROVE  Played.dom = dom /\ Played.deferred = <<>> /\ Played.registry = registry
<1>1. pendingOps = <<>>
  BY DEF ListInv, ServerInv, Flushed
<1>2. PICK c : c = Client
  OBVIOUS
<1>3. Played = Applied(c, <<>>, {})
  BY <1>1, <1>2 DEF Played
<1>4. Applied(c, <<>>, {}) = c
  BY AppliedEmpty
<1>5. QED
  BY <1>2, <1>3, <1>4 DEF Client

\* SameChildren, for lists of any length: after a flush the browser shows the
\* nodes of the list, each once, knows no other ID, and has not crashed.
THEOREM ChildrenSame == Spec => []SameChildren
<1>1. ListInv => SameChildren
  <2>1. SUFFICES ASSUME ListInv PROVE SameChildren
    OBVIOUS
  <2>2. TypeOK /\ ShownInv
    BY <2>1 DEF ListInv
  <2>3. ASSUME hasty \subseteq {"html"} PROVE ~crashed /\ Shown(Played, ToSet(children), Rendered)
    BY <2>2, <2>3 DEF ShownInv
  <2>4. ASSUME hasty \subseteq {"html"}, Flushed
        PROVE  ToSet(dom) = ToSet(children) /\ IsInjective(dom) /\ registry = ToSet(children)
    <3>1. Played.dom = dom /\ Played.deferred = <<>> /\ Played.registry = registry
      BY <2>1, <2>4, FlushedPlayed
    <3>2. ToSet(<<>>) = {}
      BY ToSetEmpty
    <3>3. QED
      BY <2>3, <2>4, <3>1, <3>2 DEF Shown
  <2>5. QED
    BY <2>2, <2>3, <2>4 DEF SameChildren
<1>2. QED
  BY <1>1, KeyedListInvariant, PTL

\* TailEditsKeepOrder, for lists of any length: as long as items are only
\* removed or added at the end, the browser shows them in the list's order.
THEOREM TailEditsInOrder == Spec => []TailEditsKeepOrder
<1>1. ListInv => TailEditsKeepOrder
  <2>1. SUFFICES ASSUME ListInv, Flushed, tailEdits, hasty = {} PROVE dom = children
    BY DEF TailEditsKeepOrder
  <2>2. InOrder(children, Played) /\ dom \in Seq(AllNodes)
    BY <2>1 DEF ListInv, OrderInv, TypeOK
  <2>3. Played.dom = dom /\ Played.deferred = <<>>
    BY <2>1, FlushedPlayed
  <2>4. Only(Played.deferred, ToSet(children)) = <<>>
    BY <2>3, OnlyEmpty
  <2>5. dom \o <<>> = dom
    BY <2>2, ConcatEmpty
  <2>6. QED
    BY <2>2, <2>3, <2>4, <2>5 DEF InOrder
<1>2. QED
  BY <1>1, KeyedListInvariant, PTL

\* MovesAreMinimal, of the children before and after and the queue.
FewestMoves(before, after, ops) ==
    LET old    == Only(before, ToSet(after))
        new    == Only(after, ToSet(before))
        was    == Positions(new, old)
        stayed == {i \in 1 .. Len(new) : new[i] \notin Moved(ops)}
    IN  /\ stayed \in IncreasingSets(was)
        /\ \A S \in IncreasingSets(was) : Cardinality(S) <= Cardinality(stayed)

\* The operations of one change move the fewest nodes.
LEMMA ChangeMovesFewest ==
  ASSUME ListAssumption, ListInv, NEW items, Settable(items), SetItems(items),
         NEW ops, ops = Removal(items) \o Placement(items)
  PROVE  FewestMoves(children, NewNodes(items), ops)
<1>1. TypeOK /\ ServerInv
  BY DEF ListInv
<1>2. PICK left, gone, old, new, added : Computes(items, left, gone, old, new, added)
  <2>1. \A n \in Added(items) : n.nth <= MaxRenders
    BY DEF SetItems
  <2>2. QED
    BY <1>1, <2>1, ObserverComputes
<1>3. PICK N, L, p, marked : /\ N = ToSet(children) /\ L = ToSet(left)
                             /\ p = Positions(old, left) /\ marked = lisIndices(p)
  OBVIOUS
<1>4. /\ new = NewNodes(items) /\ new \in Seq(AllNodes) /\ left \in Seq(AllNodes)
      /\ left = Survivors(items) /\ L \subseteq N /\ added \cap Rendered = {}
      /\ ToSet(new) = added \cup L /\ old = Only(new, L)
      /\ \A n \in N : n \in L <=> n.key \in ToSet(items)
  BY <1>2, <1>3 DEF Computes
<1>5. children \in Seq(AllNodes) /\ N \subseteq Rendered
  BY <1>1, <1>3 DEF TypeOK, ServerInv
<1>6. old \in Seq(AllNodes) /\ ToSet(old) = L /\ IsInjective(old)
  BY <1>2, <1>3, OldFacts
<1>7. Only(children, ToSet(new)) = left
  <2>1. PICK R, M : R = {n \in N : n.key \in ToSet(items)} /\ M = ToSet(new)
    OBVIOUS
  <2>2. left = Only(children, R)
    BY <1>3, <1>4, <2>1 DEF Survivors
  <2>3. ToSet(children) \cap R = ToSet(children) \cap M
    BY <1>3, <1>4, <1>5, <2>1
  <2>4. Only(children, R) = Only(children, M)
    BY <1>5, <2>3, OnlySame
  <2>5. QED
    BY <2>1, <2>2, <2>4
<1>8. Only(new, N) = old
  <2>1. ToSet(new) \cap N = ToSet(new) \cap L
    BY <1>4, <1>5
  <2>2. QED
    BY <1>4, <2>1, OnlySame
<1>9. Placed(items, left, old, new, added, marked)
  BY <1>2, <1>3, PlacementCases
<1>10. Moved(ops) = {old[i] : i \in (1 .. Len(old)) \ marked}
  <2>1. PICK s, t, K : /\ s = Removal(items) /\ t = Placement(items)
                       /\ K = {old[i] : i \in (1 .. Len(old)) \ marked}
    OBVIOUS
  <2>2. Moves(AllNodes, s, {})
    BY <1>2, <2>1, RemovalFacts
  <2>3. Moves(AllNodes, t, K)
    BY <1>2, <1>9, <2>1, PlacementMoves
  <2>4. s \in Seq(Ops(AllNodes)) /\ t \in Seq(Ops(AllNodes)) /\ Moved(s) = {} /\ Moved(t) = K
    BY <2>2, <2>3 DEF Moves
  <2>5. Moved(s \o t) = Moved(s) \cup Moved(t)
    <3>1. s \in Seq(Ops(AllNodes)) /\ t \in Seq(Ops(AllNodes))
      BY <2>4
    <3>2. QED
      BY <3>1, MovedConcat
  <2>6. QED
    BY <2>1, <2>4, <2>5
<1>11. marked \in SUBSET (1 .. Len(old))
  BY <1>9 DEF Placed
<1>12. {i \in 1 .. Len(old) : old[i] \notin Moved(ops)} = marked
  <2>1. \A i, j \in 1 .. Len(old) : old[i] = old[j] => i = j
    BY <1>6 DEF IsInjective
  <2>2. QED
    BY <1>10, <1>11, <2>1
<1>13. p \in Seq(Int)
  BY <1>3, <1>4, <1>6, PositionFacts
<1>14. /\ marked \in IncreasingSets(p)
       /\ \A S \in IncreasingSets(p) : Cardinality(S) <= Cardinality(marked)
  BY <1>3, <1>13, LisCorrect
<1>15. QED
  BY <1>3, <1>4, <1>7, <1>8, <1>12, <1>14 DEF FewestMoves

\* MovesAreMinimal, in the form of the lemma above.
LEMMA MovesMinimalIs ==
  MovesAreMinimal <=> (changes = 1 => FewestMoves(unchanged, children, pendingOps))
BY DEF MovesAreMinimal, FewestMoves, Moved

\* MovesAreMinimal, for lists of any length: a change moves or swaps the fewest
\* nodes that any way to reach the new order must.
THEOREM MovesMinimal == Spec => []MovesAreMinimal
<1>1. Init => MovesAreMinimal
  BY MovesMinimalIs DEF Init
<1>2. ListInv /\ MovesAreMinimal /\ [Next]_vars => MovesAreMinimal'
  <2>1. SUFFICES ASSUME ListInv, MovesAreMinimal, [Next]_vars, changes' = 1
                 PROVE  FewestMoves(unchanged', children', pendingOps')
    <3>1. MovesAreMinimal' <=> (changes' = 1 => FewestMoves(unchanged', children', pendingOps'))
      BY DEF MovesAreMinimal, FewestMoves, Moved
    <3>2. QED
      BY <3>1
  <2>2. CASE Change
    <3>1. PICK items : Settable(items) /\ SetItems(items)
      BY <2>2, ListAssumption, ChangeItems
    <3>2. changes = 0 /\ pendingOps = <<>>
      BY <2>1, <3>1 DEF SetItems, ListInv, TypeOK, ServerInv
    <3>3. PICK ops : ops = Removal(items) \o Placement(items)
      OBVIOUS
    <3>4. FewestMoves(children, NewNodes(items), ops)
      BY <2>1, <3>1, <3>3, ListAssumption, ChangeMovesFewest
    <3>5. ops \in Seq(Ops(AllNodes)) /\ pendingOps' = pendingOps \o ops
      BY <2>1, <3>1, <3>3, ListAssumption, ChangeQueue DEF ListInv
    <3>6. pendingOps' = ops
      BY <3>2, <3>5, ConcatEmpty
    <3>7. unchanged' = children /\ children' = NewNodes(items)
      BY <3>1, <3>2 DEF SetItems
    <3>8. QED
      BY <3>4, <3>6, <3>7
  <2>3. CASE Flush
    BY <2>1, <2>3 DEF Flush
  <2>4. CASE UNCHANGED vars
    <3>1. changes = 1 /\ unchanged' = unchanged /\ children' = children /\ pendingOps' = pendingOps
      BY <2>1, <2>4 DEF vars, serverVars
    <3>2. FewestMoves(unchanged, children, pendingOps)
      BY <2>1, <3>1, MovesMinimalIs
    <3>3. QED
      BY <3>1, <3>2
  <2>5. QED
    BY <2>1, <2>2, <2>3, <2>4 DEF Next
<1>3. QED
  BY <1>1, <1>2, KeyedListInvariant, PTL DEF Spec
=============================================================================
