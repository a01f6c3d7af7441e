---------------------- MODULE ClientConnectionProofs ----------------------
(***************************************************************************)
(* Proofs about ClientConnection, for every size of the queue, both hosts, *)
(* and any number of intents, losses and lives.                            *)
(***************************************************************************)
EXTENDS ClientConnection, SequenceTheorems, TLAPS

(***************************************************************************)
(* The inductive invariant.                                                *)
(***************************************************************************)

Ascending(s) == \A i, j \in DOMAIN s : i < j => s[i] < s[j]

\* What was received was made before what waits, both in order.
OrderInv == /\ Ascending(received)
            /\ Ascending(queue)
            /\ \A x \in ToSet(received), y \in ToSet(queue) : x < y

\* While intents are sent, none waits: IsOnline is 1 up to the first loss.
NothingWaits == isOnline \/ phase \in {"starting", "failed"} => queue = <<>>

ConnectionInv == IntentsAccounted /\ OrderInv /\ NothingWaits

(***************************************************************************)
(* Sequences and the operators of the model.                               *)
(***************************************************************************)

\* The elements of a sequence after Append, Tail and concatenation.
LEMMA ElementsAppend ==
  ASSUME NEW S, NEW q \in Seq(S), NEW x \in S
  PROVE  ToSet(Append(q, x)) = ToSet(q) \cup {x}
<1>1. /\ DOMAIN q = 1 .. Len(q) /\ DOMAIN Append(q, x) = 1 .. Len(q) + 1 /\ Len(q) \in Nat
      /\ \A i \in 1 .. Len(q) : Append(q, x)[i] = q[i]
      /\ Append(q, x)[Len(q) + 1] = x
  OBVIOUS
<1>2. ASSUME NEW y \in ToSet(Append(q, x)) PROVE y \in ToSet(q) \cup {x}
  <2>1. PICK i \in 1 .. Len(q) + 1 : y = Append(q, x)[i]
    BY <1>1, <1>2 DEF ToSet
  <2>2. CASE i = Len(q) + 1
    BY <1>1, <2>1, <2>2
  <2>3. CASE i # Len(q) + 1
    <3>1. i \in 1 .. Len(q)
      BY <1>1, <2>3
    <3>2. QED
      BY <1>1, <2>1, <3>1 DEF ToSet
  <2>4. QED
    BY <2>2, <2>3
<1>3. ASSUME NEW y \in ToSet(q) PROVE y \in ToSet(Append(q, x))
  <2>1. PICK i \in 1 .. Len(q) : y = q[i]
    BY <1>1, <1>3 DEF ToSet
  <2>2. i \in 1 .. Len(q) + 1 /\ Append(q, x)[i] = y
    BY <1>1, <2>1
  <2>3. QED
    BY <1>1, <2>2 DEF ToSet
<1>4. x \in ToSet(Append(q, x))
  <2>1. Len(q) + 1 \in 1 .. Len(q) + 1
    BY <1>1
  <2>2. QED
    BY <1>1, <2>1 DEF ToSet
<1>5. QED
  BY <1>2, <1>3, <1>4

\* The places of a concatenation.
LEMMA Concatenation ==
  ASSUME NEW S, NEW p \in Seq(S), NEW q \in Seq(S)
  PROVE  /\ p \o q \in Seq(S)
         /\ Len(p) \in Nat /\ Len(q) \in Nat /\ Len(p \o q) = Len(p) + Len(q)
         /\ DOMAIN p = 1 .. Len(p) /\ DOMAIN q = 1 .. Len(q)
         /\ DOMAIN (p \o q) = 1 .. Len(p) + Len(q)
         /\ \A k \in 1 .. Len(p) : (p \o q)[k] = p[k]
         /\ \A k \in 1 .. Len(p) + Len(q) : k > Len(p) =>
                (p \o q)[k] = q[k - Len(p)] /\ k - Len(p) \in 1 .. Len(q)
<1>1. p \o q \in Seq(S) /\ Len(p \o q) = Len(p) + Len(q)
  OBVIOUS
<1>2. /\ Len(p) \in Nat /\ Len(q) \in Nat
      /\ DOMAIN p = 1 .. Len(p) /\ DOMAIN q = 1 .. Len(q)
  OBVIOUS
<1>3. DOMAIN (p \o q) = 1 .. Len(p) + Len(q)
  BY <1>1
<1>4. \A k \in 1 .. Len(p) : (p \o q)[k] = p[k]
  BY <1>2
<1>5. ASSUME NEW k \in 1 .. Len(p) + Len(q), k > Len(p)
      PROVE  (p \o q)[k] = q[k - Len(p)] /\ k - Len(p) \in 1 .. Len(q)
  BY <1>2, <1>5
<1>6. QED
  BY <1>1, <1>2, <1>3, <1>4, <1>5

\* A sequence over a set is one over a larger set.
LEMMA LargerSet ==
  ASSUME NEW S, NEW T, S \subseteq T, NEW q \in Seq(S)
  PROVE  q \in Seq(T)
<1>1. Len(q) \in Nat /\ DOMAIN q = 1 .. Len(q) /\ \A i \in 1 .. Len(q) : q[i] \in T
  OBVIOUS
<1>2. QED
  BY <1>1

\* The elements of a concatenation.
LEMMA ElementsConcatenation ==
  ASSUME NEW S, NEW p \in Seq(S), NEW q \in Seq(S)
  PROVE  ToSet(p \o q) = ToSet(p) \cup ToSet(q)
<1>1. /\ Len(p) \in Nat /\ Len(q) \in Nat
      /\ DOMAIN p = 1 .. Len(p) /\ DOMAIN q = 1 .. Len(q)
      /\ DOMAIN (p \o q) = 1 .. Len(p) + Len(q)
      /\ \A k \in 1 .. Len(p) : (p \o q)[k] = p[k]
      /\ \A k \in 1 .. Len(p) + Len(q) : k > Len(p) =>
             (p \o q)[k] = q[k - Len(p)] /\ k - Len(p) \in 1 .. Len(q)
  BY Concatenation
<1>2. ASSUME NEW y \in ToSet(p \o q) PROVE y \in ToSet(p) \cup ToSet(q)
  <2>1. PICK k \in 1 .. Len(p) + Len(q) : y = (p \o q)[k]
    BY <1>1, <1>2 DEF ToSet
  <2>2. CASE k <= Len(p)
    <3>1. k \in DOMAIN p /\ y = p[k]
      BY <1>1, <2>1, <2>2
    <3>2. QED
      BY <3>1 DEF ToSet
  <2>3. CASE k > Len(p)
    <3>1. k - Len(p) \in DOMAIN q /\ y = q[k - Len(p)]
      BY <1>1, <2>1, <2>3
    <3>2. QED
      BY <3>1 DEF ToSet
  <2>4. QED
    BY <1>1, <2>2, <2>3
<1>3. ASSUME NEW i \in DOMAIN p PROVE p[i] \in ToSet(p \o q)
  <2>1. i \in DOMAIN (p \o q) /\ (p \o q)[i] = p[i]
    BY <1>1, <1>3
  <2>2. QED
    BY <2>1 DEF ToSet
<1>4. ASSUME NEW i \in DOMAIN q PROVE q[i] \in ToSet(p \o q)
  <2>1. i + Len(p) \in 1 .. Len(p) + Len(q) /\ i + Len(p) > Len(p) /\ i + Len(p) - Len(p) = i
    BY <1>1, <1>4
  <2>2. i + Len(p) \in DOMAIN (p \o q) /\ (p \o q)[i + Len(p)] = q[i]
    BY <1>1, <2>1
  <2>3. QED
    BY <2>2 DEF ToSet
<1>5. QED
  BY <1>2, <1>3, <1>4 DEF ToSet

\* Ascending sequences whose elements are in order concatenate to one.
LEMMA AscendingConcatenation ==
  ASSUME NEW p \in Seq(Nat), NEW q \in Seq(Nat), Ascending(p), Ascending(q),
         \A x \in ToSet(p), y \in ToSet(q) : x < y
  PROVE  Ascending(p \o q)
<1>1. /\ Len(p) \in Nat /\ Len(q) \in Nat
      /\ DOMAIN p = 1 .. Len(p) /\ DOMAIN q = 1 .. Len(q)
      /\ DOMAIN (p \o q) = 1 .. Len(p) + Len(q)
      /\ \A k \in 1 .. Len(p) : (p \o q)[k] = p[k]
      /\ \A k \in 1 .. Len(p) + Len(q) : k > Len(p) =>
             (p \o q)[k] = q[k - Len(p)] /\ k - Len(p) \in 1 .. Len(q)
  BY Concatenation
<1>2. SUFFICES ASSUME NEW i \in 1 .. Len(p) + Len(q), NEW j \in 1 .. Len(p) + Len(q), i < j
               PROVE  (p \o q)[i] < (p \o q)[j]
  BY <1>1 DEF Ascending
<1>3. CASE j <= Len(p)
  <2>1. i \in 1 .. Len(p) /\ j \in 1 .. Len(p)
    BY <1>1, <1>2, <1>3
  <2>2. QED
    BY <1>1, <1>2, <2>1 DEF Ascending
<1>4. CASE i > Len(p)
  <2>1. /\ (p \o q)[i] = q[i - Len(p)] /\ i - Len(p) \in DOMAIN q
        /\ (p \o q)[j] = q[j - Len(p)] /\ j - Len(p) \in DOMAIN q
        /\ i - Len(p) < j - Len(p)
    BY <1>1, <1>2, <1>4
  <2>2. QED
    BY <2>1 DEF Ascending
<1>5. CASE i <= Len(p) /\ j > Len(p)
  <2>1. i \in DOMAIN p /\ (p \o q)[i] = p[i]
    BY <1>1, <1>5
  <2>2. (p \o q)[j] = q[j - Len(p)] /\ j - Len(p) \in DOMAIN q
    BY <1>1, <1>5
  <2>3. QED
    BY <2>1, <2>2 DEF ToSet
<1>6. QED
  BY <1>1, <1>3, <1>4, <1>5

\* What is left of a sequence behind a place.
LEMMA Remainder ==
  ASSUME NEW l \in Nat, NEW n \in 0 .. l
  PROVE  /\ (IF n + 1 <= l THEN l - (n + 1) + 1 ELSE 0) = l - n
         /\ l - n \in Nat
OBVIOUS

\* An ascending sequence is cut in two ascending parts without a common element.
LEMMA CutInTwo ==
  ASSUME NEW S \in SUBSET Nat, NEW q \in Seq(S), Ascending(q), NEW n \in 0 .. Len(q)
  PROVE  LET p == SubSeq(q, 1, n)
             r == SubSeq(q, n + 1, Len(q))
         IN  /\ p \in Seq(S) /\ Ascending(p)
             /\ ToSet(q) = ToSet(p) \cup ToSet(r)
             /\ ToSet(p) \cap ToSet(r) = {}
<1> DEFINE p == SubSeq(q, 1, n)
           r == SubSeq(q, n + 1, Len(q))
<1>1. Len(q) \in Nat /\ DOMAIN q = 1 .. Len(q)
  OBVIOUS
<1>2. p \in Seq(S) /\ DOMAIN p = 1 .. n /\ \A i \in 1 .. n : p[i] = q[i]
  BY <1>1
<1>3. /\ DOMAIN r = 1 .. Len(q) - n
      /\ \A i \in 1 .. Len(q) - n : r[i] = q[n + i]
  <2>1. n + 1 \in Int /\ Len(q) \in Int
    BY <1>1
  <2>2. \A i \in n + 1 .. Len(q) : q[i] \in S
    BY <1>1
  <2>3. /\ r \in Seq(S)
        /\ Len(r) = IF n + 1 <= Len(q) THEN Len(q) - (n + 1) + 1 ELSE 0
        /\ \A i \in 1 .. Len(q) - (n + 1) + 1 : r[i] = q[n + 1 + i - 1]
    BY <2>1, <2>2, SubSeqProperties
  <2>4. Len(r) = IF n + 1 <= Len(q) THEN Len(q) - (n + 1) + 1 ELSE 0
    BY <2>3
  <2> HIDE DEF r
  <2>5. Len(r) = Len(q) - n /\ Len(r) \in Nat
    BY <1>1, <2>4, Remainder
  <2>6. DOMAIN r = 1 .. Len(q) - n
    BY <2>3, <2>5
  <2>7. ASSUME NEW i \in 1 .. Len(q) - n PROVE r[i] = q[n + i]
    <3>1. i \in 1 .. Len(q) - (n + 1) + 1 /\ n + 1 + i - 1 = n + i
      BY <1>1, <2>7
    <3>2. QED
      BY <2>3, <3>1
  <2>8. QED
    BY <2>6, <2>7
<1> HIDE DEF p, r
<1>4. Ascending(p)
  BY <1>1, <1>2 DEF Ascending
<1>5. ASSUME NEW i \in DOMAIN q PROVE q[i] \in ToSet(p) \cup ToSet(r)
  <2>1. CASE i <= n
    <3>1. i \in DOMAIN p /\ p[i] = q[i]
      BY <1>1, <1>2, <2>1
    <3>2. QED
      BY <3>1 DEF ToSet
  <2>2. CASE i > n
    <3>1. i - n \in 1 .. Len(q) - n /\ n + (i - n) = i
      BY <1>1, <2>2
    <3>2. i - n \in DOMAIN r /\ r[i - n] = q[i]
      BY <1>3, <3>1
    <3>3. QED
      BY <3>2 DEF ToSet
  <2>3. QED
    BY <1>1, <2>1, <2>2
<1>6. ASSUME NEW i \in DOMAIN p PROVE i \in DOMAIN q /\ i <= n /\ p[i] = q[i]
  BY <1>1, <1>2
<1>7. ASSUME NEW i \in DOMAIN r
      PROVE  n + i \in DOMAIN q /\ n + i > n /\ r[i] = q[n + i]
  BY <1>1, <1>3
<1>8. ToSet(q) = ToSet(p) \cup ToSet(r)
  BY <1>5, <1>6, <1>7 DEF ToSet
<1>9. ASSUME NEW i \in DOMAIN p, NEW j \in DOMAIN r PROVE p[i] # r[j]
  <2>1. i \in DOMAIN q /\ n + j \in DOMAIN q /\ i < n + j
    BY <1>1, <1>6, <1>7
  <2>2. q[i] < q[n + j]
    BY <2>1 DEF Ascending
  <2>3. q[i] \in S /\ q[n + j] \in S
    BY <2>1
  <2>4. q[i] \in Nat /\ q[n + j] \in Nat
    BY <2>3
  <2>5. q[i] # q[n + j]
    BY <2>2, <2>4
  <2>6. QED
    BY <1>6, <1>7, <2>5
<1>10. ToSet(p) \cap ToSet(r) = {}
  BY <1>9 DEF ToSet
<1>11. QED
  BY <1>2, <1>4, <1>8, <1>10 DEF p, r

\* Elements of a sequence over a set are in it.
LEMMA ElementsIn ==
  ASSUME NEW S, NEW q \in Seq(S)
  PROVE  ToSet(q) \subseteq S
BY DEF ToSet

\* An element that is greater than all keeps a sequence ascending.
LEMMA AscendingAppend ==
  ASSUME NEW q \in Seq(Nat), NEW x \in Nat, Ascending(q), \A y \in ToSet(q) : y < x
  PROVE  Ascending(Append(q, x))
<1>1. /\ Len(q) \in Nat /\ DOMAIN q = 1 .. Len(q)
      /\ DOMAIN Append(q, x) = 1 .. Len(q) + 1
      /\ \A i \in 1 .. Len(q) : Append(q, x)[i] = q[i]
      /\ Append(q, x)[Len(q) + 1] = x
  OBVIOUS
<1>2. SUFFICES ASSUME NEW i \in 1 .. Len(q) + 1, NEW j \in 1 .. Len(q) + 1, i < j
               PROVE  Append(q, x)[i] < Append(q, x)[j]
  BY <1>1 DEF Ascending
<1>3. i \in DOMAIN q /\ Append(q, x)[i] = q[i]
  BY <1>1, <1>2
<1>4. CASE j = Len(q) + 1
  BY <1>1, <1>3, <1>4 DEF ToSet
<1>5. CASE j # Len(q) + 1
  <2>1. j \in DOMAIN q /\ Append(q, x)[j] = q[j]
    BY <1>1, <1>5
  <2>2. QED
    BY <1>2, <1>3, <2>1 DEF Ascending
<1>6. QED
  BY <1>4, <1>5

(***************************************************************************)
(* The steps.                                                              *)
(***************************************************************************)

\* The client that starts satisfies the invariant.
LEMMA ConnectionInit == Init => ConnectionInv
<1> SUFFICES ASSUME Init PROVE ConnectionInv
  OBVIOUS
<1> USE DEF Init
<1>1. ToSet(<<>>) = {} /\ DOMAIN <<>> = {}
  BY DEF ToSet
<1>2. TypeOK
  <2>1. isOnline \in BOOLEAN
    BY Zenon
  <2>2. /\ phase \in Phases /\ link \in {"up", "down"} /\ page \in 0 .. session
        /\ writes \in Nat /\ delay \in 1 .. maxDelay /\ elapsed \in Nat /\ session \in Nat
        /\ made \in 0 .. MaxIntents /\ losses \in 0 .. MaxLosses /\ life \in 1 .. MaxLives
        /\ forgone \subseteq 1 .. made
    BY ConnectionAssumption DEF Phases, maxDelay
  <2>3. queue \in Seq(1 .. made) /\ Len(queue) <= QueueSize /\ received \in Seq(1 .. made)
    BY ConnectionAssumption
  <2>4. QED
    BY <2>1, <2>2, <2>3, Zenon DEF TypeOK
<1>3. IntentsAccounted
  BY <1>1, <1>2 DEF IntentsAccounted
<1>4. OrderInv /\ NothingWaits
  BY <1>1 DEF OrderInv, NothingWaits, Ascending
<1>5. QED
  BY <1>3, <1>4 DEF ConnectionInv

\* Steps that move no intent.
LEMMA QuietSteps ==
  ASSUME ConnectionInv,
         \/ Connect \/ ConnectFails \/ TreeArrives \/ LinkDrops \/ CloseEvent
         \/ Wake \/ DialFails
  PROVE  ConnectionInv'
<1> USE DEF Connect, ConnectFails, TreeArrives, LinkDrops, CloseEvent, Wake, DialFails,
            serverVars, countVars
<1>1. TypeOK
  BY DEF ConnectionInv, IntentsAccounted
<1>2. delay' \in 1 .. maxDelay
  <2>1. delay \in 1 .. 10
    BY <1>1 DEF TypeOK, maxDelay
  <2>2. Min({delay * 2, 10}) = IF delay * 2 < 10 THEN delay * 2 ELSE 10
    BY <2>1 DEF Min
  <2>3. QED
    BY <2>1, <2>2 DEF maxDelay
<1>3. UNCHANGED <<queue, received, made, forgone, life, writes>>
  OBVIOUS
<1>4. TypeOK'
  <2>1. isOnline' \in BOOLEAN
    BY <1>1, Zenon DEF TypeOK
  <2>2. phase' \in Phases /\ link' \in {"up", "down"}
    BY <1>1 DEF TypeOK, Phases, Reconnecting
  <2>3. page' \in 0 .. session' /\ elapsed' \in Nat /\ losses' \in 0 .. MaxLosses
        /\ session' \in Nat
    BY <1>1, ConnectionAssumption DEF TypeOK, maxDelay
  <2>4. QED
    BY <1>1, <1>2, <1>3, <2>1, <2>2, <2>3 DEF TypeOK
<1>5. IntentsAccounted' /\ OrderInv'
  BY <1>3, <1>4 DEF ConnectionInv, IntentsAccounted, OrderInv, Ascending
<1>6. NothingWaits'
  BY DEF ConnectionInv, NothingWaits
<1>7. QED
  BY <1>5, <1>6 DEF ConnectionInv

\* What waits is forgone with the memory of the client.
LEMMA Forgotten ==
  ASSUME ConnectionInv, queue' = <<>>, forgone' = forgone \cup ToSet(queue),
         UNCHANGED <<received, made>>, TypeOK'
  PROVE  ConnectionInv'
<1>1. ToSet(<<>>) = {} /\ DOMAIN <<>> = {}
  BY DEF ToSet
<1>2. IntentsAccounted'
  BY <1>1 DEF ConnectionInv, IntentsAccounted
<1>3. OrderInv' /\ NothingWaits'
  BY <1>1 DEF ConnectionInv, OrderInv, NothingWaits, Ascending
<1>4. QED
  BY <1>2, <1>3 DEF ConnectionInv

\* The program ends, or the page is loaded anew.
LEMMA MemoryGone ==
  ASSUME ConnectionInv, Crash \/ Reload
  PROVE  ConnectionInv'
<1> USE DEF Crash, Reload, serverVars
<1>1. TypeOK
  BY DEF ConnectionInv, IntentsAccounted
<1>2. /\ queue' = <<>> /\ forgone' = forgone \cup ToSet(queue)
      /\ UNCHANGED <<received, made, session, losses>>
  OBVIOUS
<1>3. TypeOK'
  <2>1. isOnline' \in BOOLEAN
    BY <1>1, Zenon DEF TypeOK
  <2>2. phase' \in Phases /\ link' \in {"up", "down"}
    BY <1>1 DEF TypeOK, Phases
  <2>3. /\ page' \in 0 .. session' /\ elapsed' \in Nat /\ writes' \in Nat
        /\ delay' \in 1 .. maxDelay /\ life' \in 1 .. MaxLives
    BY <1>1, ConnectionAssumption DEF TypeOK, maxDelay
  <2>4. queue' \in Seq(1 .. made') /\ Len(queue') <= QueueSize
    BY <1>2, ConnectionAssumption
  <2>5. ToSet(queue) \subseteq 1 .. made
    BY <1>1, ElementsIn DEF TypeOK
  <2>6. forgone' \subseteq 1 .. made'
    BY <1>1, <1>2, <2>5 DEF TypeOK
  <2>7. QED
    BY <1>1, <1>2, <2>1, <2>2, <2>3, <2>4, <2>6 DEF TypeOK
<1>4. QED
  BY <1>2, <1>3, Forgotten

\* A write is not done, or a callback panics.
LEMMA ServeWriteStep ==
  ASSUME ConnectionInv, ServeWrite
  PROVE  ConnectionInv'
<1>1. CASE Crash
  BY <1>1, MemoryGone
<1>2. CASE /\ writes > 0 /\ writes' = writes - 1
           /\ UNCHANGED <<phase, link, isOnline, page, queue, delay, elapsed,
                          serverVars, countVars>>
  <2>1. TypeOK'
    BY <1>2 DEF ConnectionInv, IntentsAccounted, TypeOK, serverVars, countVars
  <2>2. QED
    BY <1>2, <2>1 DEF ConnectionInv, IntentsAccounted, OrderInv, Ascending, NothingWaits,
                      serverVars, countVars
<1>3. QED
  BY <1>1, <1>2 DEF ServeWrite

\* Nothing is loaded, or a callback panics.
LEMMA LoadStep ==
  ASSUME ConnectionInv, LoadPersistedQueue
  PROVE  ConnectionInv'
<1>1. CASE Crash
  BY <1>1, MemoryGone
<1>2. CASE /\ phase = "loading" /\ phase' = "sleeping"
           /\ delay' = 1 /\ elapsed' = 0
           /\ UNCHANGED <<link, isOnline, page, queue, writes, serverVars, countVars>>
  <2>1. TypeOK'
    BY <1>2 DEF ConnectionInv, IntentsAccounted, TypeOK, Phases, Reconnecting, maxDelay,
                serverVars, countVars
  <2>2. QED
    BY <1>2, <2>1 DEF ConnectionInv, IntentsAccounted, OrderInv, Ascending, NothingWaits,
                      serverVars, countVars
<1>3. QED
  BY <1>1, <1>2 DEF LoadPersistedQueue

\* An attempt succeeds: a first part of the queue is received, the rest lost.
LEMMA DialStep ==
  ASSUME ConnectionInv, Dial
  PROVE  ConnectionInv'
<1>1. TypeOK /\ IntentsAccounted /\ OrderInv
  BY DEF ConnectionInv, IntentsAccounted
<1>2. PICK n \in 0 .. Len(queue) :
          /\ Drain(n)
          /\ IF n = Len(queue) THEN link' = "up" /\ UNCHANGED losses
             ELSE link' = "down" /\ losses < MaxLosses /\ losses' = losses + 1
  BY DEF Dial
<1>3. /\ phase' = "connected" /\ session' = session + 1 /\ queue' = <<>>
      /\ writes' = writes + 1
      /\ UNCHANGED <<isOnline, page, delay, elapsed, made, life>>
  BY DEF Dial
<1> DEFINE p == SubSeq(queue, 1, n)
           r == SubSeq(queue, n + 1, Len(queue))
<1>4. received' = received \o p /\ forgone' = forgone \cup ToSet(r)
  BY <1>2 DEF Drain
<1>5. /\ queue \in Seq(1 .. made) /\ received \in Seq(1 .. made)
      /\ made \in Nat /\ 1 .. made \in SUBSET Nat
  BY <1>1, ConnectionAssumption DEF TypeOK
<1>6. /\ p \in Seq(1 .. made) /\ Ascending(p)
      /\ ToSet(queue) = ToSet(p) \cup ToSet(r)
      /\ ToSet(p) \cap ToSet(r) = {}
  BY <1>1, <1>5, CutInTwo DEF OrderInv
<1> HIDE DEF p, r
<1>7. /\ received' \in Seq(1 .. made)
      /\ ToSet(received') = ToSet(received) \cup ToSet(p)
  BY <1>4, <1>5, <1>6, ElementsConcatenation, Concatenation
<1>8. ToSet(<<>>) = {} /\ DOMAIN <<>> = {}
  BY DEF ToSet
<1>9. TypeOK'
  <2>1. isOnline' \in BOOLEAN
    BY <1>1, <1>3, Zenon DEF TypeOK
  <2>2. phase' \in Phases /\ link' \in {"up", "down"} /\ losses' \in 0 .. MaxLosses
    BY <1>1, <1>2, <1>3, ConnectionAssumption DEF TypeOK, Phases
  <2>3. /\ page' \in 0 .. session' /\ session' \in Nat /\ writes' \in Nat
    BY <1>1, <1>3 DEF TypeOK
  <2>4. queue' \in Seq(1 .. made') /\ Len(queue') <= QueueSize
    BY <1>3, ConnectionAssumption
  <2>5. ToSet(queue) \subseteq 1 .. made
    BY <1>5, ElementsIn
  <2>6. forgone' \subseteq 1 .. made'
    BY <1>1, <1>3, <1>4, <1>6, <2>5 DEF TypeOK
  <2>7. QED
    BY <1>1, <1>3, <1>7, <2>1, <2>2, <2>3, <2>4, <2>6 DEF TypeOK
<1>10. IntentsAccounted'
  BY <1>1, <1>3, <1>4, <1>6, <1>7, <1>8, <1>9 DEF IntentsAccounted
<1>11. OrderInv'
  <2>1. received \in Seq(Nat) /\ p \in Seq(Nat)
    BY <1>5, <1>6, LargerSet
  <2>2. \A x \in ToSet(received), y \in ToSet(p) : x < y
    BY <1>1, <1>6 DEF OrderInv
  <2>3. Ascending(received')
    BY <1>1, <1>4, <1>6, <2>1, <2>2, AscendingConcatenation DEF OrderInv
  <2>4. QED
    BY <1>3, <1>8, <2>3 DEF OrderInv, Ascending
<1>12. NothingWaits'
  BY <1>3 DEF NothingWaits
<1>13. QED
  BY <1>10, <1>11, <1>12 DEF ConnectionInv

\* The user acts: the new intent is the last of all.
LEMMA UserStep ==
  ASSUME ConnectionInv, NEW kind \in {"click", "nav"}, UserActs(kind)
  PROVE  ConnectionInv'
<1>1. TypeOK /\ IntentsAccounted /\ OrderInv /\ NothingWaits
  BY DEF ConnectionInv, IntentsAccounted
<1>2. /\ phase \notin {"starting", "failed"}
      /\ made < MaxIntents /\ made' = made + 1
      /\ UNCHANGED <<phase, link, isOnline, page, delay, elapsed, session, losses, life>>
  BY DEF UserActs
<1>3. /\ made \in Nat /\ made' \in 0 .. MaxIntents /\ made' \in Nat
      /\ 1 .. made' = 1 .. made \cup {made'} /\ made' \notin 1 .. made
      /\ made' \in 1 .. made'
      /\ \A x \in 1 .. made : x < made' /\ x \in 1 .. made'
      /\ 1 .. made \subseteq 1 .. made' /\ 1 .. made' \subseteq Nat
  BY <1>1, <1>2, ConnectionAssumption DEF TypeOK
<1>4. /\ queue \in Seq(1 .. made') /\ received \in Seq(1 .. made')
      /\ queue \in Seq(Nat) /\ received \in Seq(Nat)
      /\ ToSet(queue) \subseteq 1 .. made /\ ToSet(received) \subseteq 1 .. made
      /\ forgone \subseteq 1 .. made
  BY <1>1, <1>3, LargerSet, ElementsIn DEF TypeOK
<1>5. SUFFICES /\ queue' \in Seq(1 .. made') /\ Len(queue') <= QueueSize
               /\ writes' \in Nat
               /\ received' \in Seq(1 .. made')
               /\ <<ToSet(received'), ToSet(queue'), forgone'>> \in
                      {<<ToSet(received) \cup {made'}, ToSet(queue), forgone>>,
                       <<ToSet(received), ToSet(queue) \cup {made'}, forgone>>,
                       <<ToSet(received), ToSet(queue), forgone \cup {made'}>>}
               /\ OrderInv' /\ NothingWaits'
  <2>1. TypeOK'
    BY <1>1, <1>2, <1>3, <1>4, <1>5 DEF TypeOK
  <2>2. IntentsAccounted'
    BY <1>1, <1>3, <1>4, <1>5, <2>1 DEF IntentsAccounted
  <2>3. QED
    BY <1>5, <2>2 DEF ConnectionInv
<1>6. CASE isOnline /\ link = "up"
  <2>1. received' = Append(received, made') /\ UNCHANGED <<queue, writes, forgone>>
    BY <1>6 DEF UserActs
  <2>2. queue = <<>> /\ ToSet(<<>>) = {} /\ DOMAIN <<>> = {}
    BY <1>1, <1>6 DEF NothingWaits, ToSet
  <2>3. received' \in Seq(1 .. made') /\ ToSet(received') = ToSet(received) \cup {made'}
    <3>1. ToSet(Append(received, made')) = ToSet(received) \cup {made'}
      BY <1>3, <1>4, ElementsAppend
    <3>2. QED
      BY <1>3, <1>4, <2>1, <3>1
  <2>4. Ascending(received')
    BY <1>1, <1>3, <1>4, <2>1, AscendingAppend DEF OrderInv
  <2>5. OrderInv' /\ NothingWaits'
    BY <2>1, <2>2, <2>4 DEF OrderInv, NothingWaits, Ascending
  <2>6. QED
    BY <1>1, <1>4, <2>1, <2>3, <2>5 DEF TypeOK
<1>7. CASE isOnline /\ link = "down"
  <2>1. forgone' = forgone \cup {made'} /\ UNCHANGED <<queue, writes, received>>
    BY <1>7 DEF UserActs
  <2>2. OrderInv' /\ NothingWaits'
    BY <1>1, <1>2, <2>1 DEF OrderInv, NothingWaits, Ascending
  <2>3. QED
    BY <1>1, <1>4, <2>1, <2>2 DEF TypeOK
<1>8. CASE ~isOnline
  <2>1. /\ queue' = Enqueue(queue, made') /\ writes' = writes + 1
        /\ forgone' = forgone \cup ({made'} \ ToSet(queue')) /\ UNCHANGED received
    BY <1>8 DEF UserActs, EnqueueAndPersist
  <2>2. NothingWaits'
    BY <1>2, <1>8 DEF NothingWaits
  <2>3. writes' \in Nat /\ Len(queue) <= QueueSize /\ Len(queue) \in Nat
    BY <1>1, <2>1 DEF TypeOK
  <2>4. CASE Len(queue) >= QueueSize
    <3>1. queue' = queue /\ forgone' = forgone \cup {made'}
      BY <1>3, <1>4, <2>1, <2>4 DEF Enqueue
    <3>2. OrderInv'
      BY <1>1, <2>1, <3>1 DEF OrderInv, Ascending
    <3>3. QED
      BY <1>4, <2>1, <2>2, <2>3, <3>1, <3>2
  <2>5. CASE ~(Len(queue) >= QueueSize)
    <3>1. queue' = Append(queue, made')
      BY <2>1, <2>5 DEF Enqueue
    <3>2. /\ queue' \in Seq(1 .. made') /\ ToSet(queue') = ToSet(queue) \cup {made'}
          /\ Len(queue') <= QueueSize
      <4>1. ToSet(Append(queue, made')) = ToSet(queue) \cup {made'}
        BY <1>3, <1>4, ElementsAppend
      <4>2. Len(Append(queue, made')) <= QueueSize
        BY <1>4, <2>3, <2>5, ConnectionAssumption
      <4>3. QED
        BY <1>3, <1>4, <3>1, <4>1, <4>2
    <3>3. forgone' = forgone
      BY <2>1, <3>2
    <3>4. Ascending(queue')
      BY <1>1, <1>3, <1>4, <3>1, AscendingAppend DEF OrderInv
    <3>5. OrderInv'
      BY <1>1, <1>3, <1>4, <2>1, <3>2, <3>4 DEF OrderInv, Ascending
    <3>6. QED
      BY <1>4, <2>1, <2>2, <2>3, <3>2, <3>3, <3>5
  <2>6. QED
    BY <2>4, <2>5
<1>9. QED
  BY <1>1, <1>6, <1>7, <1>8 DEF TypeOK

(***************************************************************************)
(* The theorems.                                                           *)
(***************************************************************************)

\* Every step of the client, of the host and of the user keeps the invariant:
\* what was received was made before what waits, and nothing waits while
\* IsOnline is 1.
THEOREM ConnectionInvariant == Spec => []ConnectionInv
<1>1. ConnectionInv /\ [Next]_vars => ConnectionInv'
  <2> SUFFICES ASSUME ConnectionInv, [Next]_vars PROVE ConnectionInv'
    OBVIOUS
  <2>1. CASE UNCHANGED vars
    BY <2>1 DEF vars, clientVars, serverVars, countVars, ConnectionInv, IntentsAccounted,
                TypeOK, OrderInv, Ascending, NothingWaits
  <2>2. CASE \E kind \in {"click", "nav"} : UserActs(kind)
    BY <2>2, UserStep
  <2>3. CASE \/ Connect \/ ConnectFails \/ TreeArrives \/ LinkDrops \/ CloseEvent
             \/ Wake \/ DialFails
    BY <2>3, QuietSteps
  <2>4. CASE ServeWrite
    BY <2>4, ServeWriteStep
  <2>5. CASE LoadPersistedQueue
    BY <2>5, LoadStep
  <2>6. CASE Dial
    BY <2>6, DialStep
  <2>7. CASE Reload
    BY <2>7, MemoryGone
  <2>8. QED
    BY <2>1, <2>2, <2>3, <2>4, <2>5, <2>6, <2>7 DEF Next, Reconnect
<1>2. QED
  BY <1>1, ConnectionInit, PTL DEF Spec

\* Up to the second loss the messages of one life arrive in order, none twice.
THEOREM OutageInOrder == Spec => []FirstOutageInOrder
<1>1. ConnectionInv => FirstOutageInOrder
  BY DEF ConnectionInv, OrderInv, Ascending, FirstOutageInOrder
<1>2. QED
  BY <1>1, ConnectionInvariant, PTL

\* Each intent was received, waits, or was lost on one of the five occasions,
\* and exactly one of the three: none is lost silently elsewhere, none is
\* received and kept, and the queue keeps its limit.
THEOREM NoIntentVanishes == Spec => []IntentsAccounted
<1>1. ConnectionInv => IntentsAccounted
  BY DEF ConnectionInv
<1>2. QED
  BY <1>1, ConnectionInvariant, PTL
=============================================================================
