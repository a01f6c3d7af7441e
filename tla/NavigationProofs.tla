-------------------------- MODULE NavigationProofs --------------------------
(***************************************************************************)
(* Proofs about Navigation, for any routes and links, any number of moves  *)
(* of the user, and any number of frames that are lost or overtaken.       *)
(***************************************************************************)
EXTENDS Navigation, WellFoundedInduction, FiniteSetTheorems, SequenceTheorems, TLAPS

(***************************************************************************)
(* The inductive invariant.                                                *)
(***************************************************************************)

Entries == [url : Paths, doc : Nat]
Frames  == [tree : BOOLEAN, remove : SUBSET Nodes, insert : SUBSET Nodes,
            push : SUBSET Paths]

Types ==
    /\ history \in Seq(Entries)
    /\ position \in DOMAIN history
    /\ toServer \in Seq(Paths)
    /\ toClient \in Seq(Frames)
    /\ container \in BOOLEAN
    /\ shown \subseteq Nodes
    /\ connection \in {"first", "lost", "second"}
    /\ connection = "first" => queue = <<>>
    /\ queue \in Seq(Paths)
    /\ currentPath \in Paths
    /\ query \in Queries
    /\ rendered \in Nat
    /\ lost \subseteq Frames
    /\ overtaken \in BOOLEAN /\ dropped \in BOOLEAN
    /\ moves \in 0 .. MaxMoves

\* The router: its child and its parameters are those of its path.  No document
\* is newer than the renderings.
RouteInv ==
    /\ currentPath.query = "none"
    /\ child = Render(currentPath, rendered)
    /\ params = Params(currentPath)
    /\ \A i \in DOMAIN history : history[i].doc <= rendered

\* The path with the query that the router has.
Page == [currentPath EXCEPT !.query = query]

Way == 1 .. Len(toClient)

\* What a frame removes is older than what the router shows.
AgeInv == \A k \in Way : \A x \in toClient[k].remove : x.node < rendered

\* What is shown, or will be inserted, and is not the router's, will be removed
\* by a frame behind, or would have been by one that was lost.
LeavesInv ==
    ~overtaken =>
        /\ \A x \in shown : x \in child \cup LostRemovals
                            \/ \E j \in Way : x \in toClient[j].remove
        /\ \A k \in Way : \A x \in toClient[k].insert :
               x \in child \cup LostRemovals
               \/ \E j \in Way : j > k /\ x \in toClient[j].remove

\* With the tree, what the router shows is shown, or will be inserted, or would
\* have been by a frame that was lost.
ArrivesInv ==
    ~overtaken /\ connection # "lost" /\ ~TreeLost =>
        /\ container \/ (toClient # <<>> /\ toClient[1].tree)
        /\ \A x \in child : x \in shown \cup LostInserts
                            \/ \E k \in Way : x \in toClient[k].insert

\* A connection that is lost has nothing.
ConnectionInv ==
    connection = "lost" => ~container /\ shown = {} /\ toServer = <<>> /\ toClient = <<>>

\* The page of the router will be pushed by the last frame, or would have been by
\* one that was lost, or is in the history and no frame pushes another.
QueryInv ==
    ~overtaken =>
        \/ connection = "lost" \/ query = "none" \/ Page \in LostPushes
        \/ (toClient # <<>> /\ toClient[Len(toClient)].push = {Page})
        \/ /\ \A k \in Way : toClient[k].push = {}
           /\ \E i \in DOMAIN history : history[i].url = Page

\* As long as no frame is lost all but that of Mount push a path, the last one
\* the page of the router.
ChainInv ==
    lost = {} /\ ~overtaken =>
        /\ \A k \in Way : k > 1 => toClient[k].push # {}
        /\ toClient # <<>> => toClient[Len(toClient)].push \subseteq {Page}

\* Nothing on the way will push an entry.
NoPush == /\ \A k \in Way : toClient[k].push = {}
          /\ \A k \in 1 .. Len(toServer) : Clean(toServer[k]) = currentPath

\* Then router and address agree.
AddressInv == connection = "first" /\ NoMishap /\ NoPush => Clean(Url) = currentPath

PageInv == AgeInv /\ LeavesInv /\ ArrivesInv
PushInv == QueryInv /\ ChainInv /\ AddressInv

NavigationInv == Types /\ RouteInv /\ ConnectionInv /\ PageInv /\ PushInv

(***************************************************************************)
(* Numbers, paths and routes.                                              *)
(***************************************************************************)

\* A set of natural numbers has a least element, and a bounded one a greatest.
LEMMA LeastNumber ==
  ASSUME NEW T, T \subseteq Nat, T # {}
  PROVE  Min(T) \in T /\ \A y \in T : Min(T) <= y
<1>1. PICK x \in T : \A y \in T : ~(<<y, x>> \in OpToRel(<, Nat))
  <2>1. IsWellFoundedOn(OpToRel(<, Nat), Nat)
    BY NatLessThanWellFounded
  <2>2. QED
    BY <2>1, WFMin
<1>2. ASSUME NEW y \in T PROVE x <= y
  <2>1. <<y, x>> \in Nat \X Nat /\ x \in Nat /\ y \in Nat
    OBVIOUS
  <2>2. ~(y < x)
    BY <1>1, <2>1 DEF OpToRel
  <2>3. QED
    BY <2>1, <2>2
<1>3. QED
  BY <1>2 DEF Min

LEMMA GreatestNumber ==
  ASSUME NEW n \in Nat, NEW T, T \subseteq 0 .. n, T # {}
  PROVE  Max(T) \in T
<1> DEFINE U == {n - x : x \in T}
<1>1. U \subseteq Nat /\ U # {}
  OBVIOUS
<1> HIDE DEF U
<1>2. PICK u \in U : \A v \in U : u <= v
  BY <1>1, LeastNumber
<1>3. PICK x \in T : u = n - x
  BY DEF U
<1>4. ASSUME NEW y \in T PROVE x >= y
  <2>1. n - y \in U
    BY DEF U
  <2>2. n - x <= n - y /\ x \in Int /\ y \in Int
    BY <1>2, <1>3, <2>1
  <2>3. QED
    BY <2>2
<1>5. QED
  BY <1>4 DEF Max

\* A path without its query has the same route and parameters.
LEMMA CleanFacts ==
  /\ Home \in Paths /\ Home.query = "none" /\ Clean(Home) = Home
  /\ \A p \in Paths :
         /\ Clean(p) \in Paths /\ Clean(p).query = "none" /\ Clean(p).segments = p.segments
         /\ Clean(Clean(p)) = Clean(p)
         /\ [Clean(p) EXCEPT !.query = p.query] = p
         /\ match(Clean(p)) = match(p) /\ Params(Clean(p)) = Params(p)
         /\ \A n : Render(Clean(p), n) = Render(p, n)
         /\ p.query = "none" => Clean(p) = p
<1>1. Home \in Paths /\ Home.query = "none" /\ Clean(Home) = Home
  <2>1. <<>> \in Seq(STRING) /\ "none" \in Queries
    BY DEF Queries
  <2>2. Home \in Paths
    BY <2>1 DEF Home, Paths
  <2>3. Home.query = "none" /\ Clean(Home) = Home
    BY DEF Home, Clean
  <2>4. QED
    BY <2>2, <2>3
<1>2. ASSUME NEW p \in Paths
      PROVE  /\ Clean(p) \in Paths /\ Clean(p).query = "none" /\ Clean(p).segments = p.segments
             /\ Clean(Clean(p)) = Clean(p)
             /\ [Clean(p) EXCEPT !.query = p.query] = p
             /\ p.query = "none" => Clean(p) = p
  <2>1. p = [segments |-> p.segments, query |-> p.query] /\ p.segments \in Seq(STRING) /\ p.query \in Queries
    BY DEF Paths
  <2>2. PICK s, q : s = p.segments /\ q = p.query
    OBVIOUS
  <2>3. p = [segments |-> s, query |-> q]
    BY <2>1, <2>2
  <2>4. Clean(p) = [segments |-> s, query |-> "none"]
    BY <2>3 DEF Clean
  <2>5. s \in Seq(STRING) /\ q \in Queries /\ "none" \in Queries
    BY <2>1, <2>2 DEF Queries
  <2>6. Clean(p) \in Paths
    BY <2>4, <2>5 DEF Paths
  <2>7. Clean(p).query = "none" /\ Clean(p).segments = s
    BY <2>4
  <2>8. Clean(Clean(p)) = Clean(p)
    BY <2>4 DEF Clean
  <2>9. [Clean(p) EXCEPT !.query = q] = p
    BY <2>3, <2>4
  <2>10. QED
    BY <2>2, <2>3, <2>4, <2>6, <2>7, <2>8, <2>9
<1>3. ASSUME NEW p \in Paths
      PROVE  /\ match(Clean(p)) = match(p) /\ Params(Clean(p)) = Params(p)
             /\ \A n : Render(Clean(p), n) = Render(p, n)
  <2>1. Clean(p).segments = p.segments
    BY <1>2
  <2>2. match(Clean(p)) = match(p)
    BY <2>1 DEF match
  <2>3. Params(Clean(p)) = Params(p)
    BY <2>1, <2>2 DEF Params
  <2>4. QED
    BY <2>2, <2>3 DEF Render
<1>4. QED
  BY <1>1, <1>2, <1>3

\* At most one route is found, and rendered as one node.
LEMMA RenderFacts ==
  ASSUME NEW p, NEW n \in Nat
  PROVE  /\ Render(p, n) \subseteq Nodes
         /\ {x.route : x \in Render(p, n)} = match(p)
         /\ Cardinality(Render(p, n)) <= 1
         /\ \A x \in Render(p, n) : x.node = n
<1> DEFINE hits == {i \in DOMAIN Routes : Matches(Routes[i], p.segments)}
<1>1. Len(Routes) \in Nat /\ DOMAIN Routes = 1 .. Len(Routes)
  BY NavigationAssumption
<1>2. hits # {} => Min(hits) \in 1 .. Len(Routes)
  <2>1. SUFFICES ASSUME hits # {} PROVE Min(hits) \in 1 .. Len(Routes)
    OBVIOUS
  <2>2. hits \subseteq 1 .. Len(Routes) /\ hits \subseteq Nat
    BY <1>1
  <2> HIDE DEF hits
  <2>3. Min(hits) \in hits
    BY <2>1, <2>2, LeastNumber
  <2>4. QED
    BY <2>2, <2>3
<1>3. match(p) = {} \/ \E r \in 0 .. Len(Routes) : match(p) = {r}
  <2>1. match(p) = IF hits # {} THEN {Min(hits)} ELSE IF NotFound THEN {0} ELSE {}
    BY DEF match
  <2> HIDE DEF hits
  <2>2. 0 \in 0 .. Len(Routes) /\ (hits # {} => Min(hits) \in 0 .. Len(Routes))
    BY <1>1, <1>2
  <2>3. QED
    BY <2>1, <2>2
<1>4. CASE match(p) = {}
  <2>1. Render(p, n) = {}
    BY <1>4 DEF Render
  <2>2. Cardinality({}) = 0
    BY FS_EmptySet
  <2>3. QED
    BY <1>4, <2>1, <2>2
<1>5. ASSUME NEW r \in 0 .. Len(Routes), match(p) = {r}
      PROVE  /\ Render(p, n) \subseteq Nodes
             /\ {x.route : x \in Render(p, n)} = match(p)
             /\ Cardinality(Render(p, n)) <= 1
  <2>1. Render(p, n) = {[route |-> r, node |-> n]}
    BY <1>5 DEF Render
  <2>2. [route |-> r, node |-> n] \in Nodes
    BY DEF Nodes
  <2>3. Cardinality({[route |-> r, node |-> n]}) = 1
    BY FS_Singleton
  <2>4. {x.route : x \in {[route |-> r, node |-> n]}} = {r}
    OBVIOUS
  <2>5. QED
    BY <1>5, <2>1, <2>2, <2>3, <2>4
<1>6. ASSUME NEW x \in Render(p, n) PROVE x.node = n
  <2>1. PICK r \in match(p) : x = [route |-> r, node |-> n]
    BY <1>6 DEF Render
  <2>2. QED
    BY <2>1
<1>7. QED
  BY <1>3, <1>4, <1>5, <1>6

(***************************************************************************)
(* Sequences.                                                              *)
(***************************************************************************)

LEMMA AppendFacts ==
  ASSUME NEW S, NEW q \in Seq(S), NEW x \in S
  PROVE  /\ Append(q, x) \in Seq(S) /\ Len(q) \in Nat /\ Len(Append(q, x)) = Len(q) + 1
         /\ Append(q, x) # <<>> /\ Append(q, x)[Len(q) + 1] = x
         /\ \A k \in 1 .. Len(q) : Append(q, x)[k] = q[k]
OBVIOUS

LEMMA TailFacts ==
  ASSUME NEW S, NEW q \in Seq(S), q # <<>>
  PROVE  /\ Tail(q) \in Seq(S) /\ Len(q) \in Nat \ {0} /\ Len(Tail(q)) = Len(q) - 1
         /\ Head(q) = q[1] /\ Head(q) \in S
         /\ \A k \in 1 .. Len(q) - 1 : Tail(q)[k] = q[k + 1]
         /\ Tail(q) = <<>> <=> Len(q) = 1
<1>1. /\ Tail(q) \in Seq(S) /\ Len(q) \in Nat \ {0} /\ Len(Tail(q)) = Len(q) - 1
      /\ Head(q) = q[1] /\ Head(q) \in S
      /\ \A k \in 1 .. Len(q) - 1 : Tail(q)[k] = q[k + 1]
  OBVIOUS
<1>2. \A s \in Seq(S) : s = <<>> <=> Len(s) = 0
  OBVIOUS
<1>3. Tail(q) = <<>> <=> Len(Tail(q)) = 0
  BY <1>1, <1>2
<1>4. Len(Tail(q)) = 0 <=> Len(q) = 1
  BY <1>1
<1>5. QED
  BY <1>1, <1>3, <1>4

\* pushState: what was ahead is gone.
LEMMA PushFacts ==
  ASSUME NEW S, NEW q \in Seq(S), NEW n \in DOMAIN q, NEW x \in S
  PROVE  /\ Append(SubSeq(q, 1, n), x) \in Seq(S)
         /\ n \in Nat /\ Len(Append(SubSeq(q, 1, n), x)) = n + 1
         /\ DOMAIN Append(SubSeq(q, 1, n), x) = 1 .. n + 1
         /\ Append(SubSeq(q, 1, n), x)[n + 1] = x
         /\ \A k \in 1 .. n : k \in DOMAIN q /\ Append(SubSeq(q, 1, n), x)[k] = q[k]
<1>1. Len(q) \in Nat /\ n \in 1 .. Len(q) /\ DOMAIN q = 1 .. Len(q)
  OBVIOUS
<1>2. /\ SubSeq(q, 1, n) \in Seq(S) /\ Len(SubSeq(q, 1, n)) = n
      /\ \A k \in 1 .. n : k \in DOMAIN q /\ SubSeq(q, 1, n)[k] = q[k]
  BY <1>1
<1>3. QED
  BY <1>1, <1>2

\* The place that the k-th element has, or had, when the i-th is taken out.
Before(i, k) == IF k < i THEN k ELSE k + 1
After(i, j)  == IF j < i THEN j ELSE j - 1

\* q of n elements, and t, which is q without its i-th.
TakesOut(S, q, t, i, n) ==
    /\ n \in Nat \ {0} /\ i \in 1 .. n /\ q[i] \in S
    /\ t \in Seq(S) /\ Len(t) = n - 1
    /\ t = <<>> <=> n = 1
    /\ \A k \in 1 .. n - 1 : /\ Before(i, k) \in 1 .. n /\ Before(i, k) # i
                             /\ t[k] = q[Before(i, k)]
                             /\ k > 1 => Before(i, k) > 1
    /\ \A j \in 1 .. n : j # i => /\ After(i, j) \in 1 .. n - 1
                                  /\ t[After(i, j)] = q[j]
    /\ \A k \in 1 .. n - 1, j \in 1 .. n :
           j # i /\ j > Before(i, k) => After(i, j) > k
    /\ i # n => After(i, n) = n - 1
    /\ i # 1 => After(i, 1) = 1

LEMMA RemoveAtFacts ==
  ASSUME NEW S, NEW q \in Seq(S), NEW i \in DOMAIN q
  PROVE  TakesOut(S, q, RemoveAt(q, i), i, Len(q))
<1> DEFINE n == Len(q)
<1> DEFINE p == SubSeq(q, 1, i - 1)
           r == SubSeq(q, i + 1, n)
           t == RemoveAt(q, i)
<1>1. n \in Nat \ {0} /\ i \in 1 .. n /\ q[i] \in S /\ \A k \in 1 .. n : q[k] \in S
  OBVIOUS
<1>2. p \in Seq(S) /\ Len(p) = i - 1 /\ \A k \in 1 .. i - 1 : p[k] = q[k]
  <2>1. \A k \in 1 .. i - 1 : q[k] \in S
    BY <1>1
  <2>2. /\ p \in Seq(S) /\ Len(p) = IF 1 <= i - 1 THEN i - 1 - 1 + 1 ELSE 0
        /\ \A k \in 1 .. i - 1 - 1 + 1 : p[k] = q[1 + k - 1]
    BY <1>1, <2>1, SubSeqProperties
  <2> HIDE DEF p
  <2>3. (IF 1 <= i - 1 THEN i - 1 - 1 + 1 ELSE 0) = i - 1
    BY <1>1
  <2>4. ASSUME NEW k \in 1 .. i - 1 PROVE k \in 1 .. i - 1 - 1 + 1 /\ 1 + k - 1 = k
    BY <1>1, <2>4
  <2>5. QED
    BY <2>2, <2>3, <2>4
<1>3. r \in Seq(S) /\ Len(r) = n - i /\ \A k \in 1 .. n - i : r[k] = q[i + k]
  <2>1. \A k \in i + 1 .. n : q[k] \in S
    BY <1>1
  <2>2. /\ r \in Seq(S) /\ Len(r) = IF i + 1 <= n THEN n - (i + 1) + 1 ELSE 0
        /\ \A k \in 1 .. n - (i + 1) + 1 : r[k] = q[i + 1 + k - 1]
    BY <1>1, <2>1, SubSeqProperties
  <2> HIDE DEF r
  <2>3. (IF i + 1 <= n THEN n - (i + 1) + 1 ELSE 0) = n - i
    BY <1>1
  <2>4. ASSUME NEW k \in 1 .. n - i PROVE k \in 1 .. n - (i + 1) + 1 /\ i + 1 + k - 1 = i + k
    BY <1>1, <2>4
  <2>5. QED
    BY <2>2, <2>3, <2>4
<1>4. t = p \o r
  BY DEF RemoveAt
<1> HIDE DEF p, r, t, n
<1>5. /\ p \o r \in Seq(S) /\ Len(p \o r) = Len(p) + Len(r)
      /\ \A k \in 1 .. Len(p) + Len(r) :
             (p \o r)[k] = IF k <= Len(p) THEN p[k] ELSE r[k - Len(p)]
  BY <1>2, <1>3, ConcatProperties
<1>6. t \in Seq(S) /\ Len(t) = n - 1
  <2>1. i - 1 + (n - i) = n - 1
    BY <1>1
  <2>2. QED
    BY <1>2, <1>3, <1>4, <1>5, <2>1
<1>7. t = <<>> <=> n = 1
  <2>1. t = <<>> <=> Len(t) = 0
    BY <1>6, EmptySeq
  <2>2. QED
    BY <1>1, <1>6, <2>1
<1>8. ASSUME NEW k \in 1 .. n - 1
      PROVE  /\ Before(i, k) \in 1 .. n /\ Before(i, k) # i
             /\ t[k] = q[Before(i, k)]
             /\ k > 1 => Before(i, k) > 1
  <2>1. k \in 1 .. Len(p) + Len(r)
    BY <1>1, <1>2, <1>3
  <2>2. t[k] = IF k <= i - 1 THEN p[k] ELSE r[k - (i - 1)]
    BY <1>2, <1>4, <1>5, <2>1
  <2>3. CASE k < i
    <3>1. k \in 1 .. i - 1 /\ k <= i - 1
      BY <1>1, <2>3
    <3>2. t[k] = q[k]
      BY <1>2, <2>2, <3>1
    <3>3. QED
      BY <1>1, <2>3, <3>2 DEF Before
  <2>4. CASE ~(k < i)
    <3>1. ~(k <= i - 1) /\ k - (i - 1) \in 1 .. n - i /\ i + (k - (i - 1)) = k + 1
      BY <1>1, <2>4
    <3>2. t[k] = q[k + 1]
      BY <1>3, <2>2, <3>1
    <3>3. QED
      BY <1>1, <2>4, <3>2 DEF Before
  <2>5. QED
    BY <2>3, <2>4
<1>9. ASSUME NEW j \in 1 .. n, j # i
      PROVE  After(i, j) \in 1 .. n - 1 /\ t[After(i, j)] = q[j]
  <2>1. After(i, j) \in 1 .. n - 1 /\ Before(i, After(i, j)) = j
    BY <1>1, <1>9 DEF After, Before
  <2>2. QED
    BY <1>8, <2>1
<1>10. ASSUME NEW k \in 1 .. n - 1, NEW j \in 1 .. n, j # i, j > Before(i, k)
       PROVE  After(i, j) > k
  BY <1>1, <1>10 DEF After, Before
<1>11. (i # n => After(i, n) = n - 1) /\ (i # 1 => After(i, 1) = 1)
  BY <1>1 DEF After
<1>12. QED
  <2>1. TakesOut(S, q, t, i, n)
    BY <1>1, <1>6, <1>7, <1>8, <1>9, <1>10, <1>11 DEF TakesOut
  <2>2. QED
    BY <2>1 DEF t, n

\* The types that the proofs use most.
LEMMA TypeFacts ==
  ASSUME Types, RouteInv
  PROVE  /\ history \in Seq(Entries) /\ Len(history) \in Nat /\ DOMAIN history = 1 .. Len(history)
         /\ \A i \in DOMAIN history : /\ history[i] \in Entries /\ history[i].url \in Paths
                                      /\ history[i].doc \in 0 .. rendered
         /\ Url \in Paths /\ Document \in 0 .. rendered
         /\ \A p \in Paths, d \in Nat : Entry(p, d) \in Entries
         /\ child \subseteq Nodes /\ rendered \in Nat /\ rendered + 1 \in Nat
<1>1. history \in Seq(Entries) /\ rendered \in Nat /\ position \in DOMAIN history
  BY DEF Types
<1>2. /\ Len(history) \in Nat /\ DOMAIN history = 1 .. Len(history)
      /\ \A i \in DOMAIN history : history[i] \in Entries
  <2> HIDE DEF Entries
  <2>1. QED
    BY <1>1
<1>3. ASSUME NEW i \in DOMAIN history
      PROVE  history[i].url \in Paths /\ history[i].doc \in 0 .. rendered
  <2>1. history[i].url \in Paths /\ history[i].doc \in Nat /\ history[i].doc <= rendered
    BY <1>2 DEF RouteInv, Entries
  <2>2. QED
    BY <1>1, <2>1
<1>4. \A p \in Paths, d \in Nat : Entry(p, d) \in Entries
  BY DEF Entry, Entries
<1>5. child \subseteq Nodes
  BY <1>1, RenderFacts DEF RouteInv
<1>6. QED
  BY <1>1, <1>2, <1>3, <1>4, <1>5 DEF Url, Document

LEMMA PageFacts ==
  ASSUME Types, RouteInv
  PROVE  Page \in Paths /\ Clean(Page) = currentPath
<1>1. PICK s, q : s = currentPath.segments /\ q = query
  OBVIOUS
<1>2. currentPath = [segments |-> s, query |-> "none"] /\ s \in Seq(STRING) /\ q \in Queries
  BY <1>1 DEF Types, RouteInv, Paths
<1>3. Page = [segments |-> s, query |-> q]
  BY <1>1, <1>2 DEF Page
<1>4. QED
  BY <1>2, <1>3 DEF Paths, Clean

\* pushState leaves a history whose present entry is the path.
LEMMA PushStep ==
  ASSUME Types, RouteInv, NEW url \in Paths, Push(url)
  PROVE  /\ history' \in Seq(Entries) /\ position' \in DOMAIN history'
         /\ history'[position'].url = url
         /\ \A k \in DOMAIN history' : history'[k].doc <= rendered
<1>1. PICK e : e = Entry(url, Document)
  OBVIOUS
<1>2. history' = Append(SubSeq(history, 1, position), e) /\ position' = position + 1
  BY <1>1 DEF Push
<1>3. Document \in 0 .. rendered /\ rendered \in Nat
  BY TypeFacts
<1>4. e \in Entries /\ e.url = url /\ e.doc <= rendered
  BY <1>1, <1>3 DEF Entry, Entries
<1>5. /\ history' \in Seq(Entries) /\ position \in Nat
      /\ DOMAIN history' = 1 .. position + 1 /\ history'[position + 1] = e
      /\ \A k \in 1 .. position : k \in DOMAIN history /\ history'[k] = history[k]
  <2>1. history \in Seq(Entries) /\ position \in DOMAIN history
    BY DEF Types
  <2> HIDE DEF Entries
  <2>2. QED
    BY <1>2, <1>4, <2>1, PushFacts
<1>6. position' \in DOMAIN history' /\ history'[position'].url = url
  BY <1>2, <1>4, <1>5
<1>7. ASSUME NEW k \in DOMAIN history' PROVE history'[k].doc <= rendered
  <2>1. k \in 1 .. position \/ k = position + 1
    BY <1>5
  <2>2. QED
    BY <1>4, <1>5, <2>1 DEF RouteInv
<1>8. QED
  BY <1>5, <1>6, <1>7

\* The nodes of the router's child are those of the last rendering.
LEMMA ChildIsNewest ==
  ASSUME Types, RouteInv
  PROVE  child \subseteq Nodes /\ rendered \in Nat /\ \A x \in child : x.node = rendered
BY RenderFacts DEF Types, RouteInv

(***************************************************************************)
(* A session begins.                                                       *)
(***************************************************************************)

\* Router.Mount and the tree it sends.
LEMMA MountStep ==
  ASSUME NavigationInv, MountSession(rendered + 1), shown' = {}, connection' # "lost",
         \A i \in DOMAIN history' : history'[i].doc <= rendered + 1
  PROVE  /\ toClient' \in Seq(Frames) /\ currentPath' \in Paths /\ query' \in Queries
         /\ rendered' \in Nat
         /\ lost' \subseteq Frames /\ overtaken' \in BOOLEAN /\ dropped' \in BOOLEAN
         /\ RouteInv' /\ PageInv' /\ QueryInv' /\ ChainInv' /\ ConnectionInv'
         /\ currentPath' = Home
<1>1. rendered \in Nat /\ rendered + 1 \in Nat
  BY DEF NavigationInv, Types
<1>2. PICK tree : tree = Render(Home, rendered + 1)
  OBVIOUS
<1>3. PICK f : f = [tree |-> TRUE, remove |-> {}, insert |-> tree, push |-> {}]
  OBVIOUS
<1>4. /\ currentPath' = Home /\ child' = tree /\ params' = Params(Home) /\ query' = "none"
      /\ rendered' = rendered + 1 /\ toClient' = <<f>>
      /\ lost' = {} /\ overtaken' = FALSE /\ dropped' = FALSE
  BY <1>2, <1>3 DEF MountSession, TreeFrame
<1>5. tree \subseteq Nodes
  BY <1>1, <1>2, RenderFacts
<1>6. f \in Frames /\ f.remove = {} /\ f.insert = tree /\ f.push = {} /\ f.tree
  BY <1>3, <1>5 DEF Frames
<1>7. /\ toClient' \in Seq(Frames) /\ toClient' # <<>> /\ Len(toClient') = 1 /\ toClient'[1] = f
  <2> HIDE DEF Frames
  <2>1. QED
    BY <1>4, <1>6
<1>8. Home \in Paths /\ Home.query = "none" /\ "none" \in Queries
  BY CleanFacts DEF Queries
<1>9. RouteInv'
  BY <1>1, <1>2, <1>4, <1>8 DEF RouteInv
<1>10. Way' = {1}
  BY <1>7 DEF Way
<1>11. AgeInv' /\ LeavesInv'
  BY <1>4, <1>6, <1>7, <1>10 DEF AgeInv, LeavesInv
<1>12. ArrivesInv'
  <2>1. \A x \in child' : \E k \in Way' : x \in toClient'[k].insert
    BY <1>4, <1>6, <1>7, <1>10
  <2>2. QED
    BY <1>6, <1>7, <2>1 DEF ArrivesInv
<1>13. QueryInv' /\ ChainInv' /\ ConnectionInv'
  BY <1>4, <1>6, <1>7, <1>10 DEF QueryInv, ChainInv, ConnectionInv
<1>14. QED
  BY <1>1, <1>4, <1>7, <1>8, <1>9, <1>11, <1>12, <1>13 DEF PageInv

\* A document is loaded at an entry of the history.
LEMMA LoadStep ==
  ASSUME NavigationInv, NEW url \in Paths, Load(url),
         history' \in Seq(Entries), position' \in DOMAIN history',
         history'[position'].url = url, moves' \in 0 .. MaxMoves,
         \A i \in DOMAIN history' : history'[i].doc <= rendered + 1
  PROVE  NavigationInv'
<1>1. /\ container' = FALSE /\ shown' = {} /\ connection' = "first" /\ queue' = <<>>
      /\ toServer' = StartPath(url) /\ MountSession(rendered + 1)
  BY DEF Load
<1>2. /\ toClient' \in Seq(Frames) /\ currentPath' \in Paths /\ query' \in Queries
      /\ rendered' \in Nat
      /\ lost' \subseteq Frames /\ overtaken' \in BOOLEAN /\ dropped' \in BOOLEAN
      /\ RouteInv' /\ PageInv' /\ QueryInv' /\ ChainInv' /\ ConnectionInv'
      /\ currentPath' = Home
  BY <1>1, MountStep
<1>3. Clean(url) \in Paths /\ Clean(Clean(url)) = Clean(url)
  BY CleanFacts
<1>4. toServer' \in Seq(Paths) /\ (Clean(url) # Home => toServer' = <<Clean(url)>>)
  <2>1. PICK p \in Paths : p = Clean(url)
    BY <1>3
  <2>2. <<p>> \in Seq(Paths) /\ <<>> \in Seq(Paths)
    <3> HIDE DEF Paths
    <3>1. QED
      OBVIOUS
  <2>3. QED
    BY <1>1, <2>1, <2>2 DEF StartPath
<1>5. Types'
  <2>1. <<>> \in Seq(Paths) /\ {} \subseteq Nodes
    OBVIOUS
  <2>2. QED
    BY <1>1, <1>2, <1>4, <2>1 DEF Types
<1>6. AddressInv'
  <2>1. SUFFICES ASSUME NoPush' PROVE Clean(url) = Home
    BY <1>2 DEF AddressInv, Url
  <2>2. SUFFICES ASSUME Clean(url) # Home PROVE FALSE
    OBVIOUS
  <2>3. Len(toServer') = 1 /\ toServer'[1] = Clean(url)
    BY <1>4, <2>2
  <2>4. Clean(Clean(url)) = Home
    BY <1>2, <2>1, <2>3 DEF NoPush
  <2>5. QED
    BY <1>3, <2>2, <2>4
<1>7. QED
  BY <1>2, <1>5, <1>6 DEF NavigationInv, PushInv

\* reconnect gives the new session the queue.
LEMMA ReconnectStep ==
  ASSUME NavigationInv, Reconnect
  PROVE  NavigationInv'
<1>1. Types /\ RouteInv /\ ConnectionInv
  BY DEF NavigationInv
<1>2. /\ connection = "lost" /\ connection' = "second" /\ toServer' = queue
      /\ queue' = <<>> /\ MountSession(rendered + 1)
      /\ UNCHANGED <<history, position, container, shown, moves>>
  BY DEF Reconnect, pageVars, addressVars
<1>3. shown' = {} /\ container' = FALSE
  BY <1>1, <1>2 DEF ConnectionInv, Types
<1>4. \A i \in DOMAIN history' : history'[i].doc <= rendered + 1
  BY <1>1, <1>2, TypeFacts
<1>5. /\ toClient' \in Seq(Frames) /\ currentPath' \in Paths /\ query' \in Queries
      /\ rendered' \in Nat
      /\ lost' \subseteq Frames /\ overtaken' \in BOOLEAN /\ dropped' \in BOOLEAN
      /\ RouteInv' /\ PageInv' /\ QueryInv' /\ ChainInv' /\ ConnectionInv'
      /\ currentPath' = Home
  BY <1>2, <1>3, <1>4, MountStep
<1>6. Types'
  <2>1. <<>> \in Seq(Paths) /\ {} \subseteq Nodes
    OBVIOUS
  <2>2. QED
    BY <1>1, <1>2, <1>3, <1>5, <2>1 DEF Types
<1>7. AddressInv'
  BY <1>2 DEF AddressInv
<1>8. QED
  BY <1>5, <1>6, <1>7 DEF NavigationInv, PushInv

\* The connection is lost with all that is on the way.
LEMMA LoseStep ==
  ASSUME NavigationInv, LoseConnection
  PROVE  NavigationInv'
<1>1. Types /\ RouteInv /\ AgeInv
  BY DEF NavigationInv, PageInv
<1>2. /\ connection = "first" /\ connection' = "lost" /\ container' = FALSE /\ shown' = {}
      /\ toServer' = <<>> /\ toClient' = <<>>
      /\ UNCHANGED <<history, position, queue, currentPath, child, params, query,
                     rendered, lost, overtaken, dropped, moves>>
  BY DEF LoseConnection, addressVars, routeVars, mishapVars
<1>3. Types'
  <2>1. <<>> \in Seq(Paths) /\ <<>> \in Seq(Frames) /\ {} \subseteq Nodes
    OBVIOUS
  <2>2. QED
    BY <1>1, <1>2, <2>1 DEF Types
<1>4. RouteInv'
  BY <1>1, <1>2 DEF RouteInv
<1>5. Way' = {} /\ toClient' = <<>>
  BY <1>2 DEF Way
<1>6. ConnectionInv' /\ PageInv'
  BY <1>2, <1>5 DEF ConnectionInv, PageInv, AgeInv, LeavesInv, ArrivesInv
<1>7. PushInv'
  BY <1>2, <1>5 DEF PushInv, QueryInv, ChainInv, AddressInv
<1>8. QED
  BY <1>3, <1>4, <1>6, <1>7 DEF NavigationInv

(***************************************************************************)
(* A navigation is read.                                                   *)
(***************************************************************************)

\* What is taken from the stream of the client.
LEMMA ReadFacts ==
  ASSUME Types, toServer # <<>>, toServer' = Tail(toServer), NEW n, n = Len(toServer)
  PROVE  /\ Head(toServer) \in Paths /\ Head(toServer) = toServer[1] /\ n \in Nat \ {0}
         /\ toServer' \in Seq(Paths) /\ Len(toServer') = n - 1
         /\ \A k \in 1 .. n - 1 : toServer'[k] = toServer[k + 1]
<1>1. toServer \in Seq(Paths)
  BY DEF Types
<1> HIDE DEF Paths
<1>2. QED
  BY <1>1, TailFacts

LEMMA DropStep ==
  ASSUME NavigationInv, DropNavigation
  PROVE  NavigationInv'
<1>1. Types /\ RouteInv /\ ConnectionInv /\ PageInv /\ PushInv
  BY DEF NavigationInv
<1>2. /\ toServer # <<>> /\ toServer' = Tail(toServer) /\ dropped' = TRUE
      /\ UNCHANGED <<history, position, container, shown, connection, queue, toClient,
                     currentPath, child, params, query, rendered, lost, overtaken, moves>>
  BY DEF DropNavigation, pageVars, addressVars, clientVars, routeVars
<1>3. toServer' \in Seq(Paths)
  BY <1>1, <1>2, ReadFacts
<1>4. Types' /\ RouteInv'
  BY <1>1, <1>2, <1>3 DEF Types, RouteInv
<1>5. ConnectionInv'
  BY <1>1, <1>2 DEF ConnectionInv
<1>6. PageInv'
  BY <1>1, <1>2 DEF PageInv, AgeInv, LeavesInv, ArrivesInv, Way, LostRemovals, LostInserts,
                    TreeLost
<1>7. QueryInv' /\ ChainInv'
  BY <1>1, <1>2 DEF PushInv, QueryInv, ChainInv, Way, LostPushes, Page
<1>8. AddressInv'
  BY <1>2 DEF AddressInv, NoMishap
<1>9. QED
  BY <1>4, <1>5, <1>6, <1>7, <1>8 DEF NavigationInv, PushInv

\* What more is lost with a frame.
LEMMA LostFacts ==
  ASSUME NEW f, lost' = lost \cup {f}
  PROVE  /\ LostRemovals' = LostRemovals \cup f.remove
         /\ LostInserts' = LostInserts \cup f.insert
         /\ LostPushes' = LostPushes \cup f.push
         /\ TreeLost' <=> TreeLost \/ f.tree
         /\ lost' # {}
BY DEF LostRemovals, LostInserts, LostPushes, TreeLost

\* The path is another: the route is swapped, and the frame is sent or lost.
LEMMA SwapStep ==
  ASSUME NavigationInv, NEW p \in Paths, toServer # <<>>, toServer' \in Seq(Paths), swapRoute(p),
         UNCHANGED <<history, position, container, shown, connection, queue, moves>>
  PROVE  NavigationInv'
<1>1. /\ Types /\ RouteInv /\ ConnectionInv
      /\ AgeInv /\ LeavesInv /\ ArrivesInv /\ QueryInv /\ ChainInv
  BY DEF NavigationInv, PageInv, PushInv
<1>2. PICK tree : tree = Render(p, rendered + 1)
  OBVIOUS
<1>3. PICK f : f = [tree |-> FALSE, remove |-> child, insert |-> tree, push |-> {p}]
  OBVIOUS
<1>4. /\ currentPath' = Clean(p) /\ params' = Params(p) /\ query' = p.query /\ child' = tree
      /\ rendered' = rendered + 1
      /\ WriteMessage(f)
  BY <1>2, <1>3 DEF swapRoute, Swap, RouteFrame
<1>5. /\ rendered \in Nat /\ rendered + 1 \in Nat /\ child \subseteq Nodes /\ tree \subseteq Nodes
      /\ \A x \in child : x.node = rendered
  <2>1. /\ rendered \in Nat /\ child \subseteq Nodes
        /\ \A x \in child : x.node = rendered
    BY <1>1, ChildIsNewest
  <2>2. rendered + 1 \in Nat
    BY <2>1
  <2>3. tree \subseteq Nodes
    BY <1>2, <2>2, RenderFacts
  <2>4. QED
    BY <2>1, <2>2, <2>3
<1>6. /\ Clean(p) \in Paths /\ Clean(p).query = "none" /\ p.query \in Queries
      /\ tree = Render(Clean(p), rendered + 1)
      /\ Params(p) = Params(Clean(p)) /\ [Clean(p) EXCEPT !.query = p.query] = p
  <2>1. p.query \in Queries
    BY DEF Paths
  <2>2. QED
    BY <1>2, <2>1, CleanFacts
<1>7. Page' = p
  BY <1>4, <1>6 DEF Page
<1>8. f \in Frames /\ f.remove = child /\ f.insert = tree /\ f.push = {p} /\ ~f.tree
  BY <1>3, <1>5 DEF Frames
<1>9. connection # "lost"
  BY <1>1 DEF ConnectionInv
<1>10. RouteInv'
  <2>1. \A i \in DOMAIN history : history[i].doc <= rendered + 1
    BY <1>1, TypeFacts
  <2>2. QED
    BY <1>4, <1>6, <2>1 DEF RouteInv
<1>11. ConnectionInv'
  BY <1>9 DEF ConnectionInv
<1>12. \A k \in Way : \A x \in toClient[k].remove : x.node < rendered /\ x.node \in Nat
  <2>1. toClient \in Seq(Frames)
    BY <1>1 DEF Types
  <2>2. ASSUME NEW k \in Way PROVE toClient[k] \in Frames
    <3> HIDE DEF Frames
    <3>1. QED
      BY <2>1, <2>2 DEF Way
  <2>3. ASSUME NEW k \in Way, NEW x \in toClient[k].remove PROVE x.node \in Nat
    <3>1. x \in Nodes
      BY <2>2, <2>3 DEF Frames
    <3>2. QED
      BY <3>1 DEF Nodes
  <2>4. QED
    BY <1>1, <2>3 DEF AgeInv
<1>13. CASE /\ toClient' = Append(toClient, f)
            /\ UNCHANGED <<lost, overtaken, dropped>>
  <2>1. PICK m : m = Len(toClient)
    OBVIOUS
  <2>2. /\ toClient' \in Seq(Frames) /\ m \in Nat /\ Len(toClient') = m + 1 /\ toClient' # <<>>
        /\ toClient'[m + 1] = f /\ \A k \in 1 .. m : toClient'[k] = toClient[k]
    <3>1. toClient \in Seq(Frames)
      BY <1>1 DEF Types
    <3> HIDE DEF Frames
    <3>2. QED
      BY <1>8, <1>13, <2>1, <3>1, AppendFacts
  <2>3. /\ Way = 1 .. m /\ Way' = 1 .. m + 1 /\ m + 1 \in Way' /\ Way \subseteq Way'
        /\ \A k \in Way' : k \in Way \/ k = m + 1
        /\ \A k \in Way : k < m + 1
    BY <2>1, <2>2 DEF Way
  <2>4. Types'
    BY <1>1, <1>4, <1>5, <1>6, <1>13, <2>2 DEF Types
  <2>5. AgeInv'
    <3>1. ASSUME NEW k \in Way', NEW x \in toClient'[k].remove PROVE x.node < rendered + 1
      <4>1. CASE k \in Way
        <5>1. x \in toClient[k].remove
          BY <2>2, <2>3, <3>1, <4>1
        <5>2. QED
          BY <1>5, <1>12, <4>1, <5>1
      <4>2. CASE k = m + 1
        BY <1>5, <1>8, <2>2, <3>1, <4>2
      <4>3. QED
        BY <2>3, <4>1, <4>2
    <3>2. QED
      BY <1>4, <3>1 DEF AgeInv
  <2>6. LeavesInv'
    <3>1. SUFFICES ASSUME ~overtaken
                   PROVE  /\ \A x \in shown : x \in child' \cup LostRemovals
                                              \/ \E j \in Way' : x \in toClient'[j].remove
                          /\ \A k \in Way' : \A x \in toClient'[k].insert :
                                 x \in child' \cup LostRemovals
                                 \/ \E j \in Way' : j > k /\ x \in toClient'[j].remove
      BY <1>13 DEF LeavesInv, LostRemovals
    <3>2. \A j \in Way : j \in Way' /\ toClient'[j] = toClient[j]
      BY <2>2, <2>3
    <3>3. \A x \in child : x \in toClient'[m + 1].remove
      BY <1>8, <2>2
    <3>4. \A x \in shown : x \in child' \cup LostRemovals
                           \/ \E j \in Way' : x \in toClient'[j].remove
      BY <1>1, <2>3, <3>1, <3>2, <3>3 DEF LeavesInv
    <3>5. ASSUME NEW k \in Way', NEW x \in toClient'[k].insert
          PROVE  x \in child' \cup LostRemovals
                 \/ \E j \in Way' : j > k /\ x \in toClient'[j].remove
      <4>1. CASE k = m + 1
        BY <1>4, <1>8, <2>2, <3>5, <4>1
      <4>2. CASE k \in Way
        <5>1. x \in toClient[k].insert /\ m + 1 > k
          BY <2>2, <2>3, <3>2, <3>5, <4>2
        <5>2. \/ x \in child \/ x \in LostRemovals
              \/ \E j \in Way : j > k /\ x \in toClient[j].remove
          BY <1>1, <3>1, <4>2, <5>1 DEF LeavesInv
        <5>3. QED
          BY <2>3, <3>2, <3>3, <5>1, <5>2
      <4>3. QED
        BY <2>3, <4>1, <4>2
    <3>6. QED
      BY <3>4, <3>5
  <2>7. ArrivesInv'
    <3>1. SUFFICES ASSUME ~overtaken, ~TreeLost
                   PROVE  /\ container \/ toClient'[1].tree
                          /\ \A x \in child' : \E k \in Way' : x \in toClient'[k].insert
      BY <1>13, <2>2 DEF ArrivesInv, TreeLost
    <3>2. container \/ (toClient # <<>> /\ toClient[1].tree)
      BY <1>1, <1>9, <3>1 DEF ArrivesInv
    <3>3. toClient # <<>> => 1 \in 1 .. m
      <4>1. toClient \in Seq(Frames)
        BY <1>1 DEF Types
      <4> HIDE DEF Frames
      <4>2. QED
        BY <2>1, <4>1
    <3>4. toClient # <<>> => toClient'[1] = toClient[1]
      BY <2>2, <3>3
    <3>5. QED
      BY <1>4, <1>8, <2>2, <2>3, <3>2, <3>4
  <2>8. QueryInv'
    BY <1>7, <1>8, <2>2 DEF QueryInv
  <2>9. ChainInv'
    <3>1. SUFFICES ASSUME lost = {}, ~overtaken
                   PROVE  \A k \in Way' : k > 1 => toClient'[k].push # {}
      BY <1>7, <1>8, <1>13, <2>2 DEF ChainInv
    <3>2. ASSUME NEW k \in Way', k > 1 PROVE toClient'[k].push # {}
      <4>1. CASE k \in Way
        BY <1>1, <2>2, <2>3, <3>1, <3>2, <4>1 DEF ChainInv
      <4>2. CASE k = m + 1
        BY <1>8, <2>2, <4>2
      <4>3. QED
        BY <2>3, <4>1, <4>2
    <3>3. QED
      BY <3>2
  <2>10. AddressInv'
    BY <1>8, <2>2, <2>3 DEF AddressInv, NoPush
  <2>11. QED
    BY <1>10, <1>11, <2>4, <2>5, <2>6, <2>7, <2>8, <2>9, <2>10
       DEF NavigationInv, PageInv, PushInv
<1>14. CASE lost' = lost \cup {f} /\ UNCHANGED <<toClient, overtaken, dropped>>
  <2>1. /\ LostRemovals' = LostRemovals \cup child
        /\ LostInserts' = LostInserts \cup tree
        /\ LostPushes' = LostPushes \cup {p}
        /\ TreeLost' <=> TreeLost
        /\ lost' # {}
    BY <1>8, <1>14, LostFacts
  <2>2. Way' = Way
    BY <1>14 DEF Way
  <2>3. Types'
    BY <1>1, <1>4, <1>5, <1>6, <1>8, <1>14 DEF Types
  <2>4. AgeInv'
    <3>1. \A k \in Way : \A x \in toClient[k].remove : x.node < rendered + 1
      BY <1>5, <1>12
    <3>2. QED
      BY <1>4, <1>14, <2>2, <3>1 DEF AgeInv
  <2>5. LeavesInv'
    BY <1>1, <1>14, <2>1, <2>2 DEF LeavesInv
  <2>6. ArrivesInv'
    BY <1>1, <1>4, <1>14, <2>1 DEF ArrivesInv
  <2>7. QueryInv'
    BY <1>7, <2>1 DEF QueryInv
  <2>8. ChainInv' /\ AddressInv'
    BY <2>1 DEF ChainInv, AddressInv, NoMishap
  <2>9. QED
    BY <1>10, <1>11, <2>3, <2>4, <2>5, <2>6, <2>7, <2>8 DEF NavigationInv, PageInv, PushInv
<1>15. QED
  BY <1>4, <1>13, <1>14 DEF WriteMessage, mishapVars

\* handleClientNav of the next navigation.
LEMMA HandleStep ==
  ASSUME NavigationInv, handleClientNav
  PROVE  NavigationInv'
<1>1. Types /\ RouteInv /\ ConnectionInv /\ PageInv /\ PushInv
  BY DEF NavigationInv
<1>2. PICK p : p = Head(toServer)
  OBVIOUS
<1>3. PICK n : n = Len(toServer)
  OBVIOUS
<1>4. /\ toServer # <<>> /\ toServer' = Tail(toServer) /\ navigate(p)
      /\ UNCHANGED <<history, position, container, shown, connection, queue, moves>>
  BY <1>2 DEF handleClientNav, pageVars, addressVars, clientVars
<1>5. /\ p \in Paths /\ p = toServer[1] /\ n \in Nat \ {0}
      /\ toServer' \in Seq(Paths) /\ Len(toServer') = n - 1
      /\ \A k \in 1 .. n - 1 : toServer'[k] = toServer[k + 1]
  BY <1>1, <1>2, <1>3, <1>4, ReadFacts
<1>6. CASE Clean(p) = currentPath
  <2>1. UNCHANGED <<currentPath, params, query, child, rendered, toClient,
                    lost, overtaken, dropped>>
    BY <1>4, <1>6 DEF navigate, mishapVars
  <2>2. Types'
    BY <1>1, <1>4, <1>5, <2>1 DEF Types
  <2>3. RouteInv'
    BY <1>1, <1>4, <2>1 DEF RouteInv
  <2>4. ConnectionInv'
    BY <1>1, <1>4 DEF ConnectionInv
  <2>5. PageInv'
    BY <1>1, <1>4, <2>1 DEF PageInv, AgeInv, LeavesInv, ArrivesInv, Way, LostRemovals,
                            LostInserts, TreeLost
  <2>6. QueryInv' /\ ChainInv'
    BY <1>1, <1>4, <2>1 DEF PushInv, QueryInv, ChainInv, Way, LostPushes, Page
  <2>7. AddressInv'
    <3>1. ASSUME NoPush' PROVE NoPush
      <4>1. \A k \in 1 .. n - 1 : Clean(toServer'[k]) = currentPath
        BY <1>5, <2>1, <3>1 DEF NoPush
      <4>2. ASSUME NEW k \in 1 .. n PROVE Clean(toServer[k]) = currentPath
        <5>1. CASE k = 1
          BY <1>5, <1>6, <5>1
        <5>2. CASE k # 1
          <6>1. k - 1 \in 1 .. n - 1 /\ (k - 1) + 1 = k
            BY <1>5, <5>2
          <6>2. toServer'[k - 1] = toServer[k]
            BY <1>5, <6>1
          <6>3. QED
            BY <4>1, <6>1, <6>2
        <5>3. QED
          BY <5>1, <5>2
      <4>3. \A k \in Way : toClient[k].push = {}
        BY <2>1, <3>1 DEF NoPush, Way
      <4>4. QED
        BY <1>3, <4>2, <4>3 DEF NoPush
    <3>2. Url' = Url
      BY <1>4 DEF Url
    <3>3. NoMishap' = NoMishap
      BY <2>1 DEF NoMishap
    <3>4. QED
      BY <1>1, <1>4, <2>1, <3>1, <3>2, <3>3 DEF PushInv, AddressInv
  <2>8. QED
    BY <2>2, <2>3, <2>4, <2>5, <2>6, <2>7 DEF NavigationInv, PushInv
<1>7. CASE Clean(p) # currentPath
  <2>1. swapRoute(p)
    BY <1>4, <1>7 DEF navigate
  <2>2. QED
    BY <1>4, <1>5, <2>1, SwapStep
<1>8. QED
  BY <1>6, <1>7

(***************************************************************************)
(* A frame is read.                                                        *)
(***************************************************************************)

\* What is on the way without the i-th frame.
LEMMA TakenOut ==
  ASSUME Types, NEW i \in DOMAIN toClient, toClient' = RemoveAt(toClient, i),
         NEW n, n = Len(toClient)
  PROVE  /\ n \in Nat \ {0} /\ i \in Way /\ Way = 1 .. n /\ Way' = 1 .. n - 1
         /\ toClient # <<>> /\ toClient[i] \in Frames
         /\ toClient' \in Seq(Frames) /\ Len(toClient') = n - 1
         /\ toClient' = <<>> <=> n = 1
         /\ \A k \in Way' : /\ Before(i, k) \in Way /\ Before(i, k) # i
                            /\ toClient'[k] = toClient[Before(i, k)]
                            /\ k > 1 => Before(i, k) > 1
         /\ \A j \in Way : j # i => /\ After(i, j) \in Way'
                                    /\ toClient'[After(i, j)] = toClient[j]
         /\ \A k \in Way', j \in Way : j # i /\ j > Before(i, k) => After(i, j) > k
         /\ i # n => After(i, n) = n - 1 /\ n \in Way
         /\ i # 1 => After(i, 1) = 1 /\ 1 \in Way
<1>1. toClient \in Seq(Frames) /\ toClient # <<>>
  <2>1. toClient \in Seq(Frames) /\ i \in 1 .. Len(toClient)
    BY DEF Types
  <2> HIDE DEF Frames
  <2>2. QED
    BY <2>1
<1> HIDE DEF Frames
<1>2. TakesOut(Frames, toClient, RemoveAt(toClient, i), i, Len(toClient))
  BY <1>1, RemoveAtFacts
<1>3. TakesOut(Frames, toClient, toClient', i, n)
  BY <1>2
<1>4. n \in Nat \ {0} /\ Way = 1 .. n /\ Way' = 1 .. n - 1
  BY <1>3 DEF TakesOut, Way
<1>5. n \in 1 .. n /\ 1 \in 1 .. n
  BY <1>4
<1>6. QED
  BY <1>1, <1>3, <1>4, <1>5 DEF TakesOut

LEMMA ApplyStep ==
  ASSUME NavigationInv, NEW i \in DOMAIN toClient, ApplyFrame(i)
  PROVE  NavigationInv'
<1>1. /\ Types /\ RouteInv /\ ConnectionInv
      /\ AgeInv /\ LeavesInv /\ ArrivesInv /\ QueryInv /\ ChainInv /\ AddressInv
  BY DEF NavigationInv, PageInv, PushInv
<1>2. PICK f : f = toClient[i]
  OBVIOUS
<1>3. PICK n : n = Len(toClient)
  OBVIOUS
<1>4. /\ toClient' = RemoveAt(toClient, i)
      /\ overtaken' = (overtaken \/ i > 1)
      /\ container' = (container \/ f.tree)
      /\ shown' = (shown \ f.remove) \cup (IF container' THEN f.insert ELSE {})
      /\ IF f.push = {} THEN UNCHANGED <<history, position>>
         ELSE \E url \in f.push : Push(url)
      /\ UNCHANGED <<connection, queue, toServer, currentPath, child, params, query,
                     rendered, lost, dropped, moves>>
  BY <1>2 DEF ApplyFrame, clientVars, routeVars, addressVars
<1>5. /\ n \in Nat \ {0} /\ i \in Way /\ Way = 1 .. n /\ Way' = 1 .. n - 1
      /\ toClient # <<>> /\ f \in Frames
      /\ toClient' \in Seq(Frames) /\ Len(toClient') = n - 1
      /\ toClient' = <<>> <=> n = 1
      /\ \A k \in Way' : /\ Before(i, k) \in Way /\ Before(i, k) # i
                         /\ toClient'[k] = toClient[Before(i, k)]
                         /\ k > 1 => Before(i, k) > 1
      /\ \A j \in Way : j # i => /\ After(i, j) \in Way'
                                 /\ toClient'[After(i, j)] = toClient[j]
      /\ \A k \in Way', j \in Way : j # i /\ j > Before(i, k) => After(i, j) > k
      /\ i # n => After(i, n) = n - 1 /\ n \in Way
  BY <1>1, <1>2, <1>3, <1>4, TakenOut
<1>6. /\ f.tree \in BOOLEAN /\ f.remove \subseteq Nodes /\ f.insert \subseteq Nodes
      /\ f.push \subseteq Paths
  BY <1>5 DEF Frames
<1>7. connection # "lost"
  BY <1>1, <1>5 DEF ConnectionInv
<1>8. /\ history' \in Seq(Entries) /\ position' \in DOMAIN history'
      /\ \A k \in DOMAIN history' : history'[k].doc <= rendered
      /\ f.push # {} => \E url \in f.push : history'[position'].url = url
  <2>1. CASE f.push = {}
    BY <1>1, <1>4, <2>1 DEF Types, RouteInv
  <2>2. CASE f.push # {}
    <3>1. PICK url \in f.push : Push(url)
      BY <1>4, <2>2
    <3>2. QED
      BY <1>1, <1>6, <3>1, PushStep
  <2>3. QED
    BY <2>1, <2>2
<1>9. Types'
  <2>1. container' \in BOOLEAN /\ overtaken' \in BOOLEAN
    BY <1>4
  <2>2. shown' \subseteq Nodes
    BY <1>1, <1>4, <1>6 DEF Types
  <2>3. QED
    BY <1>1, <1>4, <1>5, <1>8, <2>1, <2>2 DEF Types
<1>10. RouteInv'
  BY <1>1, <1>4, <1>8 DEF RouteInv
<1>11. ConnectionInv'
  BY <1>4, <1>7 DEF ConnectionInv
<1>12. AgeInv'
  BY <1>1, <1>4, <1>5 DEF AgeInv
<1>13. /\ LostRemovals' = LostRemovals /\ LostInserts' = LostInserts
       /\ LostPushes' = LostPushes /\ (TreeLost' <=> TreeLost) /\ Page' = Page
  BY <1>4 DEF LostRemovals, LostInserts, LostPushes, TreeLost, Page
<1>14. ~overtaken' => ~overtaken /\ i = 1 /\ f = toClient[1]
  <2>1. ~overtaken' => ~overtaken /\ ~(i > 1)
    BY <1>4, Zenon
  <2>2. ~(i > 1) => i = 1
    BY <1>5
  <2>3. QED
    BY <1>2, <2>1, <2>2
<1>15. LeavesInv'
  <2>1. SUFFICES ASSUME ~overtaken, i = 1, f = toClient[1]
                 PROVE  /\ \A x \in shown' : x \in child \cup LostRemovals
                                             \/ \E j \in Way' : x \in toClient'[j].remove
                        /\ \A k \in Way' : \A x \in toClient'[k].insert :
                               x \in child \cup LostRemovals
                               \/ \E j \in Way' : j > k /\ x \in toClient'[j].remove
    BY <1>4, <1>13, <1>14 DEF LeavesInv
  <2>2. /\ \A x \in shown : \/ x \in child \/ x \in LostRemovals
                            \/ \E j \in Way : x \in toClient[j].remove
        /\ \A k \in Way : \A x \in toClient[k].insert :
               \/ x \in child \/ x \in LostRemovals
               \/ \E j \in Way : j > k /\ x \in toClient[j].remove
    BY <1>1, <2>1 DEF LeavesInv
  <2>3. ASSUME NEW x \in shown'
        PROVE  x \in child \cup LostRemovals \/ \E j \in Way' : x \in toClient'[j].remove
    <3>1. CASE x \in shown /\ x \notin f.remove
      <4>1. ASSUME NEW j \in Way, x \in toClient[j].remove
            PROVE  \E l \in Way' : x \in toClient'[l].remove
        <5>1. j # i
          BY <1>2, <3>1, <4>1
        <5>2. QED
          BY <1>5, <4>1, <5>1
      <4>2. QED
        BY <2>2, <3>1, <4>1
    <3>2. CASE x \in f.insert
      <4>1. ASSUME NEW j \in Way, j > 1, x \in toClient[j].remove
            PROVE  \E l \in Way' : x \in toClient'[l].remove
        <5>1. j # i
          BY <1>5, <2>1, <4>1
        <5>2. QED
          BY <1>5, <4>1, <5>1
      <4>2. QED
        BY <1>5, <2>1, <2>2, <3>2, <4>1
    <3>3. QED
      BY <1>4, <2>3, <3>1, <3>2
  <2>4. ASSUME NEW k \in Way', NEW x \in toClient'[k].insert
        PROVE  x \in child \cup LostRemovals
               \/ \E j \in Way' : j > k /\ x \in toClient'[j].remove
    <3>1. PICK b : b = Before(i, k)
      OBVIOUS
    <3>2. b \in Way /\ b # i /\ x \in toClient[b].insert
      BY <1>5, <2>4, <3>1
    <3>3. ASSUME NEW j \in Way, j > b, x \in toClient[j].remove
          PROVE  \E l \in Way' : l > k /\ x \in toClient'[l].remove
      <4>1. j # i
        BY <1>5, <2>1, <3>2, <3>3
      <4>2. QED
        BY <1>5, <3>1, <3>3, <4>1
    <3>4. QED
      BY <2>2, <3>2, <3>3
  <2>5. QED
    BY <2>3, <2>4
<1>16. ArrivesInv'
  <2>1. SUFFICES ASSUME ~overtaken, i = 1, f = toClient[1], ~TreeLost
                 PROVE  /\ container'
                        /\ \A x \in child : x \in shown' \cup LostInserts
                                            \/ \E k \in Way' : x \in toClient'[k].insert
    BY <1>4, <1>13, <1>14 DEF ArrivesInv
  <2>2. /\ container \/ toClient[1].tree
        /\ \A x \in child : \/ x \in shown \/ x \in LostInserts
                            \/ \E k \in Way : x \in toClient[k].insert
    BY <1>1, <1>7, <2>1 DEF ArrivesInv
  <2>3. container'
    BY <1>4, <2>1, <2>2
  <2>4. ASSUME NEW x \in child
        PROVE  x \in shown' \cup LostInserts \/ \E k \in Way' : x \in toClient'[k].insert
    <3>1. x \notin f.remove
      <4>1. x.node = rendered /\ rendered \in Nat
        BY <1>1, <2>4, ChildIsNewest
      <4>2. ~(x.node < rendered)
        BY <4>1
      <4>3. QED
        BY <1>1, <1>2, <1>5, <4>2 DEF AgeInv
    <3>2. CASE x \in shown
      BY <1>4, <3>1, <3>2
    <3>3. CASE \E k \in Way : x \in toClient[k].insert
      <4>1. PICK k \in Way : x \in toClient[k].insert
        BY <3>3
      <4>2. CASE k = i
        BY <1>2, <1>4, <2>3, <4>1, <4>2
      <4>3. CASE k # i
        BY <1>5, <4>1, <4>3
      <4>4. QED
        BY <4>2, <4>3
    <3>4. QED
      BY <2>2, <3>2, <3>3
  <2>5. QED
    BY <2>3, <2>4
<1>17. QueryInv'
  <2>1. SUFFICES ASSUME ~overtaken, i = 1, f = toClient[1], query # "none", Page \notin LostPushes
                 PROVE  \/ toClient' # <<>> /\ toClient'[Len(toClient')].push = {Page}
                        \/ /\ \A k \in Way' : toClient'[k].push = {}
                           /\ \E l \in DOMAIN history' : history'[l].url = Page
    BY <1>4, <1>13, <1>14 DEF QueryInv
  <2>2. CASE toClient[n].push = {Page}
    <3>1. CASE n = 1
      <4>1. f.push = {Page}
        BY <2>1, <2>2, <3>1
      <4>2. history'[position'].url = Page
        BY <1>8, <4>1
      <4>3. Way' = {}
        BY <1>5, <3>1
      <4>4. QED
        BY <1>8, <4>2, <4>3
    <3>2. CASE n # 1
      <4>1. toClient'[n - 1] = toClient[n]
        BY <1>5, <2>1, <3>2
      <4>2. QED
        BY <1>5, <2>2, <3>2, <4>1
    <3>3. QED
      BY <3>1, <3>2
  <2>3. CASE /\ \A k \in Way : toClient[k].push = {}
             /\ \E l \in DOMAIN history : history[l].url = Page
    <3>1. f.push = {}
      BY <1>2, <1>5, <2>3
    <3>2. \A k \in Way' : toClient'[k].push = {}
      BY <1>5, <2>3
    <3>3. QED
      BY <1>4, <2>3, <3>1, <3>2
  <2>4. QED
    BY <1>1, <1>3, <1>7, <2>1, <2>2, <2>3 DEF QueryInv
<1>18. ChainInv'
  <2>1. SUFFICES ASSUME lost = {}, ~overtaken, i = 1
                 PROVE  /\ \A k \in Way' : k > 1 => toClient'[k].push # {}
                        /\ toClient' # <<>> => toClient'[n - 1].push \subseteq {Page}
    BY <1>4, <1>5, <1>13, <1>14 DEF ChainInv
  <2>2. \A k \in Way' : k > 1 => toClient'[k].push # {}
    BY <1>1, <1>5, <2>1 DEF ChainInv
  <2>3. n # 1 => toClient'[n - 1] = toClient[n]
    BY <1>5, <2>1
  <2>4. QED
    BY <1>1, <1>3, <1>5, <2>1, <2>2, <2>3 DEF ChainInv
<1>19. AddressInv'
  <2>1. SUFFICES ASSUME connection = "first", NoMishap, i = 1, f = toClient[1], NoPush'
                 PROVE  Clean(Url') = currentPath
    BY <1>4, <1>14 DEF AddressInv, NoMishap
  <2>2. CASE f.push = {}
    <3>1. ASSUME NEW k \in Way PROVE toClient[k].push = {}
      <4>1. CASE k = i
        BY <1>2, <2>2, <4>1
      <4>2. CASE k # i
        BY <1>5, <2>1, <4>2 DEF NoPush
      <4>3. QED
        BY <4>1, <4>2
    <3>2. NoPush
      BY <1>4, <2>1, <3>1 DEF NoPush
    <3>3. Url' = Url
      BY <1>4, <2>2 DEF Url
    <3>4. QED
      BY <1>1, <2>1, <3>2, <3>3 DEF AddressInv
  <2>3. CASE f.push # {}
    <3>1. lost = {} /\ ~overtaken
      BY <2>1 DEF NoMishap
    <3>2. n = 1
      <4>1. SUFFICES ASSUME n # 1 PROVE FALSE
        OBVIOUS
      <4>2. n \in Way /\ n > 1 /\ n # i /\ n - 1 \in Way'
        BY <1>5, <2>1, <4>1
      <4>3. toClient[n].push # {} /\ toClient'[n - 1] = toClient[n]
        BY <1>1, <1>5, <3>1, <4>2 DEF ChainInv
      <4>4. QED
        BY <2>1, <4>2, <4>3 DEF NoPush
    <3>3. f.push \subseteq {Page}
      BY <1>1, <1>3, <1>5, <2>1, <3>1, <3>2 DEF ChainInv
    <3>4. Url' = Page
      BY <1>8, <2>3, <3>3 DEF Url
    <3>5. QED
      BY <1>1, <3>4, PageFacts
  <2>4. QED
    BY <2>2, <2>3
<1>20. QED
  BY <1>9, <1>10, <1>11, <1>12, <1>15, <1>16, <1>17, <1>18, <1>19
     DEF NavigationInv, PageInv, PushInv

LEMMA LoseFrameStep ==
  ASSUME NavigationInv, NEW i \in DOMAIN toClient, LoseFrame(i)
  PROVE  NavigationInv'
<1>1. /\ Types /\ RouteInv /\ ConnectionInv
      /\ AgeInv /\ LeavesInv /\ ArrivesInv /\ QueryInv
  BY DEF NavigationInv, PageInv, PushInv
<1>2. PICK f : f = toClient[i]
  OBVIOUS
<1>3. PICK n : n = Len(toClient)
  OBVIOUS
<1>4. /\ toClient' = RemoveAt(toClient, i) /\ lost' = lost \cup {f}
      /\ UNCHANGED <<container, shown, history, position, connection, queue, toServer,
                     currentPath, child, params, query, rendered, overtaken, dropped, moves>>
  BY <1>2 DEF LoseFrame, pageVars, addressVars, clientVars, routeVars
<1>5. /\ n \in Nat \ {0} /\ i \in Way /\ Way = 1 .. n /\ Way' = 1 .. n - 1
      /\ toClient # <<>> /\ f \in Frames
      /\ toClient' \in Seq(Frames) /\ Len(toClient') = n - 1
      /\ toClient' = <<>> <=> n = 1
      /\ \A k \in Way' : /\ Before(i, k) \in Way /\ Before(i, k) # i
                         /\ toClient'[k] = toClient[Before(i, k)]
      /\ \A j \in Way : j # i => /\ After(i, j) \in Way'
                                 /\ toClient'[After(i, j)] = toClient[j]
      /\ \A k \in Way', j \in Way : j # i /\ j > Before(i, k) => After(i, j) > k
      /\ i # n => After(i, n) = n - 1 /\ n \in Way
      /\ i # 1 => After(i, 1) = 1 /\ 1 \in Way
  BY <1>1, <1>2, <1>3, <1>4, TakenOut
<1>6. /\ LostRemovals' = LostRemovals \cup f.remove
      /\ LostInserts' = LostInserts \cup f.insert
      /\ LostPushes' = LostPushes \cup f.push
      /\ TreeLost' <=> TreeLost \/ f.tree
      /\ lost' # {}
  BY <1>4, LostFacts
<1>7. Types' /\ RouteInv'
  <2>1. lost' \subseteq Frames
    BY <1>1, <1>4, <1>5 DEF Types
  <2>2. QED
    BY <1>1, <1>4, <1>5, <2>1 DEF Types, RouteInv
<1>8. ConnectionInv'
  BY <1>1, <1>4, <1>5 DEF ConnectionInv
<1>9. AgeInv'
  BY <1>1, <1>4, <1>5 DEF AgeInv
<1>10. \A x, j : j \in Way /\ x \in toClient[j].remove =>
           x \in LostRemovals' \/ (After(i, j) \in Way' /\ x \in toClient'[After(i, j)].remove)
  BY <1>2, <1>5, <1>6
<1>11. LeavesInv'
  <2>1. SUFFICES ASSUME ~overtaken
                 PROVE  /\ \A x \in shown : x \in child \cup LostRemovals'
                                            \/ \E j \in Way' : x \in toClient'[j].remove
                        /\ \A k \in Way' : \A x \in toClient'[k].insert :
                               x \in child \cup LostRemovals'
                               \/ \E j \in Way' : j > k /\ x \in toClient'[j].remove
    BY <1>4 DEF LeavesInv
  <2>2. \A x \in shown : x \in child \cup LostRemovals' \/ \E j \in Way' : x \in toClient'[j].remove
    BY <1>1, <1>6, <1>10, <2>1 DEF LeavesInv
  <2>3. ASSUME NEW k \in Way', NEW x \in toClient'[k].insert
        PROVE  x \in child \cup LostRemovals'
               \/ \E j \in Way' : j > k /\ x \in toClient'[j].remove
    <3>1. PICK b : b = Before(i, k)
      OBVIOUS
    <3>2. b \in Way /\ x \in toClient[b].insert
      BY <1>5, <2>3, <3>1
    <3>3. ASSUME NEW j \in Way, j > b, x \in toClient[j].remove
          PROVE  x \in LostRemovals' \/ \E l \in Way' : l > k /\ x \in toClient'[l].remove
      <4>1. CASE j = i
        BY <1>2, <1>6, <3>3, <4>1
      <4>2. CASE j # i
        BY <1>5, <3>1, <3>3, <4>2
      <4>3. QED
        BY <4>1, <4>2
    <3>4. QED
      BY <1>1, <1>6, <2>1, <3>2, <3>3 DEF LeavesInv
  <2>4. QED
    BY <2>2, <2>3
<1>12. ArrivesInv'
  <2>1. SUFFICES ASSUME ~overtaken, connection # "lost", ~TreeLost, ~f.tree
                 PROVE  /\ container \/ (toClient' # <<>> /\ toClient'[1].tree)
                        /\ \A x \in child : x \in shown \cup LostInserts'
                                            \/ \E k \in Way' : x \in toClient'[k].insert
    BY <1>4, <1>6 DEF ArrivesInv
  <2>2. /\ container \/ toClient[1].tree
        /\ \A x \in child : \/ x \in shown \/ x \in LostInserts
                            \/ \E k \in Way : x \in toClient[k].insert
    BY <1>1, <2>1 DEF ArrivesInv
  <2>3. CASE ~container
    <3>1. i # 1 /\ n # 1
      BY <1>2, <1>5, <2>1, <2>2, <2>3
    <3>2. toClient'[1] = toClient[1]
      BY <1>5, <3>1
    <3>3. QED
      BY <1>2, <1>5, <1>6, <2>2, <2>3, <3>1, <3>2
  <2>4. QED
    BY <1>2, <1>5, <1>6, <2>2, <2>3
<1>13. QueryInv'
  <2>1. Page' = Page
    BY <1>4 DEF Page
  <2>2. SUFFICES ASSUME ~overtaken, connection # "lost", query # "none", Page \notin LostPushes'
                 PROVE  \/ toClient' # <<>> /\ toClient'[Len(toClient')].push = {Page}
                        \/ /\ \A k \in Way' : toClient'[k].push = {}
                           /\ \E l \in DOMAIN history : history[l].url = Page
    BY <1>4, <2>1 DEF QueryInv
  <2>3. CASE toClient[n].push = {Page}
    <3>1. i # n
      BY <1>2, <1>6, <2>2, <2>3
    <3>2. n # 1 /\ toClient'[n - 1] = toClient[n]
      BY <1>5, <3>1
    <3>3. QED
      BY <1>5, <2>3, <3>2
  <2>4. CASE /\ \A k \in Way : toClient[k].push = {}
             /\ \E l \in DOMAIN history : history[l].url = Page
    BY <1>5, <2>4
  <2>5. QED
    BY <1>1, <1>3, <1>6, <2>2, <2>3, <2>4 DEF QueryInv
<1>14. ChainInv' /\ AddressInv'
  BY <1>6 DEF ChainInv, AddressInv, NoMishap
<1>15. QED
  BY <1>7, <1>8, <1>9, <1>11, <1>12, <1>13, <1>14 DEF NavigationInv, PageInv, PushInv

(***************************************************************************)
(* What the user does.                                                     *)
(***************************************************************************)

\* A navigation is sent, or queued: the address is as before, or the entry behind
\* or ahead, whose path is the one that is sent.
LEMMA SendStep ==
  ASSUME NavigationInv, NEW p \in Paths, sendClientNav(p),
         \/ position' = position
         \/ /\ position' \in DOMAIN history
            /\ Clean(history[position'].url) = Clean(p),
         moves' \in 0 .. MaxMoves,
         UNCHANGED <<history, container, shown, connection, toClient, currentPath, child, params,
                     query, rendered, lost, overtaken, dropped>>
  PROVE  NavigationInv'
<1>1. Types /\ RouteInv /\ ConnectionInv /\ PageInv /\ PushInv
  BY DEF NavigationInv
<1>2. /\ toServer \in Seq(Paths) /\ queue \in Seq(Paths)
      /\ Append(toServer, p) \in Seq(Paths) /\ Append(queue, p) \in Seq(Paths)
      /\ Len(toServer) \in Nat /\ Len(Append(toServer, p)) = Len(toServer) + 1
      /\ Append(toServer, p)[Len(toServer) + 1] = p
      /\ \A k \in 1 .. Len(toServer) : Append(toServer, p)[k] = toServer[k]
  <2>1. toServer \in Seq(Paths) /\ queue \in Seq(Paths)
    BY <1>1 DEF Types
  <2> HIDE DEF Paths
  <2>2. QED
    BY <2>1, AppendFacts
<1>3. IF connection = "first" THEN toServer' = Append(toServer, p) /\ queue' = queue
      ELSE queue' = Append(queue, p) /\ toServer' = toServer
  BY DEF sendClientNav
<1>4. toServer' \in Seq(Paths) /\ queue' \in Seq(Paths)
  BY <1>2, <1>3
<1>5. position' \in DOMAIN history
  BY <1>1 DEF Types
<1>6. Types'
  BY <1>1, <1>3, <1>4, <1>5 DEF Types
<1>7. RouteInv'
  BY <1>1 DEF RouteInv
<1>8. ConnectionInv'
  BY <1>1, <1>3 DEF ConnectionInv
<1>9. PageInv'
  BY <1>1 DEF PageInv, AgeInv, LeavesInv, ArrivesInv, Way, LostRemovals, LostInserts, TreeLost
<1>10. QueryInv' /\ ChainInv'
  BY <1>1 DEF PushInv, QueryInv, ChainInv, Way, LostPushes, Page
<1>11. AddressInv'
  <2>1. SUFFICES ASSUME connection = "first", NoMishap, NoPush'
                 PROVE  Clean(history[position'].url) = currentPath
    BY DEF AddressInv, NoMishap, Url
  <2>2. toServer' = Append(toServer, p)
    BY <1>3, <2>1
  <2>3. \A k \in 1 .. Len(toServer) + 1 : Clean(Append(toServer, p)[k]) = currentPath
    BY <1>2, <2>1, <2>2 DEF NoPush
  <2>4. Clean(p) = currentPath /\ \A k \in 1 .. Len(toServer) : Clean(toServer[k]) = currentPath
    <3>1. Len(toServer) + 1 \in 1 .. Len(toServer) + 1
          /\ \A k \in 1 .. Len(toServer) : k \in 1 .. Len(toServer) + 1
      BY <1>2
    <3>2. QED
      BY <1>2, <2>3, <3>1
  <2>5. NoPush
    BY <2>1, <2>4 DEF NoPush, Way
  <2>6. Clean(history[position].url) = currentPath
    BY <1>1, <2>1, <2>5 DEF PushInv, AddressInv, Url
  <2>7. QED
    BY <2>4, <2>6
<1>12. QED
  BY <1>6, <1>7, <1>8, <1>9, <1>10, <1>11 DEF NavigationInv, PushInv

\* The number of the next document.
LEMMA DocumentFacts ==
  ASSUME Types, RouteInv
  PROVE  NewDocument \in Nat /\ NewDocument <= rendered + 1
<1> DEFINE docs == {history[i].doc : i \in DOMAIN history}
<1>1. docs \subseteq 0 .. rendered /\ docs # {} /\ rendered \in Nat
  BY TypeFacts DEF Types
<1> HIDE DEF docs
<1>2. Max(docs) \in 0 .. rendered
  BY <1>1, GreatestNumber
<1>3. NewDocument = 1 + Max(docs)
  BY DEF NewDocument, docs
<1>4. QED
  BY <1>1, <1>2, <1>3

LEMMA ClickLinkStep ==
  ASSUME NavigationInv, NEW url \in Urls, ClickLink(url)
  PROVE  NavigationInv'
<1>1. Types /\ RouteInv
  BY DEF NavigationInv
<1>2. url \in Paths /\ moves' \in 0 .. MaxMoves /\ Load(url)
  BY <1>1, NavigationAssumption DEF ClickLink, Move, Types
<1>3. PICK d : d = NewDocument
  OBVIOUS
<1>4. d \in Nat /\ d <= rendered + 1 /\ rendered \in Nat
  BY <1>1, <1>3, DocumentFacts DEF Types
<1>5. \A i \in DOMAIN history : history[i].doc <= rendered + 1
  BY <1>1, TypeFacts
<1>6. CASE url = Url
  <2>1. history' = [history EXCEPT ![position].doc = d] /\ position' = position
    BY <1>3, <1>6 DEF ClickLink
  <2>2. PICK e : e = [history[position] EXCEPT !.doc = d]
    OBVIOUS
  <2>3. history' = [history EXCEPT ![position] = e]
    BY <2>1, <2>2
  <2>4. e \in Entries /\ e.url = url /\ e.doc = d
    <3>1. history[position] \in Entries /\ history[position].url = url
      BY <1>1, <1>6, TypeFacts DEF Types, Url
    <3>2. QED
      BY <1>4, <2>2, <3>1 DEF Entries
  <2>5. /\ history' \in Seq(Entries) /\ position \in DOMAIN history /\ DOMAIN history' = DOMAIN history
        /\ history'[position] = e
        /\ \A i \in DOMAIN history : i # position => history'[i] = history[i]
    <3>1. history \in Seq(Entries) /\ position \in DOMAIN history
      BY <1>1 DEF Types
    <3> HIDE DEF Entries
    <3>2. QED
      BY <2>3, <2>4, <3>1
  <2>6. \A i \in DOMAIN history' : history'[i].doc <= rendered + 1
    BY <1>4, <1>5, <2>4, <2>5
  <2>7. QED
    BY <1>2, <2>1, <2>4, <2>5, <2>6, LoadStep
<1>7. CASE url # Url
  <2>1. PICK e : e = Entry(url, d)
    OBVIOUS
  <2>2. history' = Append(SubSeq(history, 1, position), e) /\ position' = position + 1
    BY <1>3, <1>7, <2>1 DEF ClickLink
  <2>3. e \in Entries /\ e.url = url /\ e.doc = d
    BY <1>2, <1>4, <2>1 DEF Entry, Entries
  <2>4. /\ history' \in Seq(Entries) /\ position \in Nat
        /\ DOMAIN history' = 1 .. position + 1 /\ history'[position + 1] = e
        /\ \A k \in 1 .. position : k \in DOMAIN history /\ history'[k] = history[k]
    <3>1. history \in Seq(Entries) /\ position \in DOMAIN history
      BY <1>1 DEF Types
    <3> HIDE DEF Entries
    <3>2. QED
      BY <2>2, <2>3, <3>1, PushFacts
  <2>5. ASSUME NEW i \in DOMAIN history' PROVE history'[i].doc <= rendered + 1
    <3>1. i \in 1 .. position \/ i = position + 1
      BY <2>4
    <3>2. QED
      BY <1>4, <1>5, <2>3, <2>4, <3>1
  <2>6. position' \in DOMAIN history' /\ history'[position'].url = url
    BY <2>2, <2>3, <2>4
  <2>7. QED
    BY <1>2, <2>4, <2>5, <2>6, LoadStep
<1>8. QED
  BY <1>6, <1>7

LEMMA TraverseStep ==
  ASSUME NavigationInv, NEW step \in {-1, 1}, Traverse(step)
  PROVE  NavigationInv'
<1>1. Types /\ RouteInv
  BY DEF NavigationInv
<1>2. /\ moves' \in 0 .. MaxMoves /\ position' \in DOMAIN history
      /\ history' = history
  BY <1>1, NavigationAssumption DEF Traverse, Move, Types
<1>3. PICK url : url = history[position'].url
  OBVIOUS
<1>4. url \in Paths /\ Clean(url) \in Paths /\ Clean(Clean(url)) = Clean(url)
  BY <1>1, <1>2, <1>3, TypeFacts, CleanFacts
<1>5. CASE history[position'].doc = Document
  <2>1. /\ sendClientNav(Clean(url))
        /\ UNCHANGED <<container, shown, connection, toClient, currentPath, child, params,
                       query, rendered, lost, overtaken, dropped>>
    BY <1>2, <1>3, <1>5 DEF Traverse, pageVars, routeVars, mishapVars
  <2>2. PICK p \in Paths : p = Clean(url)
    BY <1>4
  <2>3. sendClientNav(p) /\ Clean(history[position'].url) = Clean(p)
    BY <1>3, <1>4, <2>1, <2>2
  <2>4. QED
    BY <1>2, <2>1, <2>3, SendStep
<1>6. CASE history[position'].doc # Document
  <2>1. Load(url)
    BY <1>2, <1>3, <1>6 DEF Traverse
  <2>2. \A i \in DOMAIN history' : history'[i].doc <= rendered + 1
    BY <1>1, <1>2, TypeFacts
  <2>3. history' \in Seq(Entries) /\ position' \in DOMAIN history' /\ history'[position'].url = url
    BY <1>1, <1>2, <1>3 DEF Types
  <2>4. QED
    BY <1>2, <1>4, <2>1, <2>2, <2>3, LoadStep
<1>7. QED
  BY <1>5, <1>6

LEMMA ClickOuterLinkStep ==
  ASSUME NavigationInv, NEW url \in Urls, ClickOuterLink(url)
  PROVE  NavigationInv'
<1>1. Types
  BY DEF NavigationInv
<1>2. url \in Paths /\ moves' \in 0 .. MaxMoves
  BY <1>1, NavigationAssumption DEF ClickOuterLink, Move, Types
<1>3. /\ sendClientNav(url) /\ position' = position
      /\ UNCHANGED <<history, container, shown, connection, toClient, currentPath, child, params,
                     query, rendered, lost, overtaken, dropped>>
  BY DEF ClickOuterLink, pageVars, addressVars, routeVars, mishapVars
<1>4. QED
  BY <1>2, <1>3, SendStep

(***************************************************************************)
(* The theorems.                                                           *)
(***************************************************************************)

LEMMA InitNavigation == Init => NavigationInv
<1>1. SUFFICES ASSUME Init PROVE NavigationInv
  OBVIOUS
<1>2. PICK url \in Urls :
        /\ history = <<Entry(url, 1)>> /\ position = 1 /\ container = FALSE /\ shown = {} /\ connection = "first"
        /\ queue = <<>> /\ toServer = StartPath(url)
        /\ toClient = <<TreeFrame(Render(Home, 1))>>
        /\ currentPath = Home /\ child = Render(Home, 1) /\ params = Params(Home)
        /\ query = "none" /\ rendered = 1 /\ moves = 0
        /\ lost = {} /\ overtaken = FALSE /\ dropped = FALSE
  BY <1>1 DEF Init
<1>3. PICK e : e = Entry(url, 1)
  OBVIOUS
<1>4. PICK tree : tree = Render(Home, 1)
  OBVIOUS
<1>5. PICK f : f = [tree |-> TRUE, remove |-> {}, insert |-> tree, push |-> {}]
  OBVIOUS
<1>6. url \in Paths
  BY NavigationAssumption
<1>7. e \in Entries /\ e.url = url /\ e.doc = 1
  BY <1>3, <1>6 DEF Entry, Entries
<1>8. tree \subseteq Nodes
  BY <1>4, RenderFacts
<1>9. f \in Frames /\ f.remove = {} /\ f.insert = tree /\ f.push = {} /\ f.tree
  BY <1>5, <1>8 DEF Frames
<1>10. /\ history \in Seq(Entries) /\ DOMAIN history = 1 .. 1 /\ history[1] = e /\ Len(history) = 1
  <2>1. history = <<e>>
    BY <1>2, <1>3
  <2> HIDE DEF Entries
  <2>2. QED
    BY <1>7, <2>1
<1>11. toClient \in Seq(Frames) /\ toClient # <<>> /\ Len(toClient) = 1 /\ toClient[1] = f
  <2>1. toClient = <<f>>
    BY <1>2, <1>4, <1>5 DEF TreeFrame
  <2> HIDE DEF Frames
  <2>2. QED
    BY <1>9, <2>1
<1>12. Clean(url) \in Paths /\ Clean(Clean(url)) = Clean(url) /\ Home \in Paths /\ Home.query = "none"
  BY <1>6, CleanFacts
<1>13. toServer \in Seq(Paths) /\ (Clean(url) # Home => toServer = <<Clean(url)>>)
  <2>1. PICK p \in Paths : p = Clean(url)
    BY <1>12
  <2>2. <<p>> \in Seq(Paths) /\ <<>> \in Seq(Paths)
    <3> HIDE DEF Paths
    <3>1. QED
      OBVIOUS
  <2>3. QED
    BY <1>2, <2>1, <2>2 DEF StartPath
<1>14. Types
  <2>1. <<>> \in Seq(Paths) /\ "none" \in Queries /\ {} \subseteq Nodes
    BY DEF Queries
  <2>2. 0 \in 0 .. MaxMoves /\ 1 \in Nat /\ 1 \in 1 .. 1
    BY NavigationAssumption
  <2>3. position \in DOMAIN history /\ moves \in 0 .. MaxMoves
    BY <1>2, <1>10, <2>2
  <2>4. QED
    BY <1>2, <1>10, <1>11, <1>12, <1>13, <2>1, <2>2, <2>3 DEF Types
<1>15. RouteInv
  BY <1>2, <1>7, <1>10, <1>12 DEF RouteInv
<1>16. Way = {1}
  BY <1>11 DEF Way
<1>17. AgeInv /\ LeavesInv
  BY <1>2, <1>4, <1>9, <1>11, <1>16 DEF AgeInv, LeavesInv
<1>18. ArrivesInv
  <2>1. \A x \in child : \E k \in Way : x \in toClient[k].insert
    BY <1>2, <1>4, <1>9, <1>11, <1>16
  <2>2. QED
    BY <1>9, <1>11, <2>1 DEF ArrivesInv
<1>19. ConnectionInv /\ QueryInv /\ ChainInv
  BY <1>2, <1>9, <1>11, <1>16 DEF ConnectionInv, QueryInv, ChainInv
<1>20. AddressInv
  <2>1. SUFFICES ASSUME NoPush PROVE Clean(url) = Home
    BY <1>2, <1>7, <1>10 DEF AddressInv, Url
  <2>2. SUFFICES ASSUME Clean(url) # Home PROVE FALSE
    OBVIOUS
  <2>3. Len(toServer) = 1 /\ toServer[1] = Clean(url)
    BY <1>13, <2>2
  <2>4. Clean(Clean(url)) = Home
    BY <1>2, <2>1, <2>3 DEF NoPush
  <2>5. QED
    BY <1>12, <2>2, <2>4
<1>21. QED
  BY <1>14, <1>15, <1>17, <1>18, <1>19, <1>20 DEF NavigationInv, PageInv, PushInv

LEMMA NextNavigation == NavigationInv /\ [Next]_vars => NavigationInv'
<1>1. SUFFICES ASSUME NavigationInv, [Next]_vars PROVE NavigationInv'
  OBVIOUS
<1>2. CASE UNCHANGED vars
  <2>1. Types /\ RouteInv /\ ConnectionInv /\ PageInv /\ PushInv
    BY <1>1 DEF NavigationInv
  <2>2. UNCHANGED <<history, position, container, shown, connection, queue, toServer, toClient,
                    currentPath, child, params, query, rendered, lost, overtaken, dropped, moves>>
    BY <1>2 DEF vars, pageVars, addressVars, clientVars, routeVars, mishapVars
  <2>3. Types' /\ RouteInv' /\ ConnectionInv'
    BY <2>1, <2>2 DEF Types, RouteInv, ConnectionInv
  <2>4. PageInv'
    BY <2>1, <2>2 DEF PageInv, AgeInv, LeavesInv, ArrivesInv, Way, LostRemovals, LostInserts,
                      TreeLost
  <2>5. PushInv'
    BY <2>1, <2>2 DEF PushInv, QueryInv, ChainInv, AddressInv, NoPush, NoMishap, Url, Way,
                      LostPushes, Page
  <2>6. QED
    BY <2>3, <2>4, <2>5 DEF NavigationInv
<1>3. CASE ReadNavigation
  BY <1>1, <1>3, HandleStep, DropStep DEF ReadNavigation
<1>4. CASE ReadFrame
  BY <1>1, <1>4, ApplyStep, LoseFrameStep DEF ReadFrame
<1>5. ASSUME NEW url \in Urls, ClickLink(url) PROVE NavigationInv'
  BY <1>1, <1>5, ClickLinkStep
<1>6. ASSUME NEW url \in Urls, ClickOuterLink(url) PROVE NavigationInv'
  BY <1>1, <1>6, ClickOuterLinkStep
<1>7. ASSUME NEW step \in {-1, 1}, Traverse(step) PROVE NavigationInv'
  BY <1>1, <1>7, TraverseStep
<1>8. CASE LoseConnection
  BY <1>1, <1>8, LoseStep
<1>9. CASE Reconnect
  BY <1>1, <1>9, ReconnectStep
<1>10. QED
  BY <1>1, <1>2, <1>3, <1>4, <1>5, <1>6, <1>7, <1>8, <1>9 DEF Next

\* The invariant holds of every state of router, browser and what is on the way
\* between them, whatever is dropped, lost or overtaken.
THEOREM NavigationInvariant == Spec => []NavigationInv
<1>1. Init => NavigationInv
  BY InitNavigation
<1>2. NavigationInv /\ [Next]_vars => NavigationInv'
  BY NextNavigation
<1>3. QED
  BY <1>1, <1>2, PTL DEF Spec

\* When navigate, the flush and the client have done their work and no frame was
\* overtaken, the browser shows the component of the router's path and nothing
\* else, up to what the frames that were lost would have removed and inserted.
THEOREM PageExact == Spec => []PageShowsRoute
<1>1. ASSUME NavigationInv PROVE PageShowsRoute
  <2>1. Types /\ RouteInv /\ LeavesInv /\ ArrivesInv
    BY <1>1 DEF NavigationInv, PageInv
  <2>2. /\ child \subseteq Nodes /\ Cardinality(child) <= 1
        /\ {n.route : n \in child} = match(currentPath)
    BY <2>1, RenderFacts DEF Types, RouteInv
  <2>3. TypeOK
    BY <2>1, <2>2 DEF TypeOK, Types, RouteInv
  <2>4. params = Params(currentPath)
    BY <2>1 DEF RouteInv
  <2>5. ASSUME Settled, ~overtaken
        PROVE  /\ shown \subseteq child \cup LostRemovals
               /\ TreeLost \/ child \subseteq shown \cup LostInserts
    <3>1. Way = {} /\ connection # "lost"
      BY <2>5 DEF Settled, Way
    <3>2. QED
      BY <2>1, <2>5, <3>1 DEF LeavesInv, ArrivesInv
  <2>6. QED
    BY <2>2, <2>3, <2>4, <2>5 DEF PageShowsRoute
<1>2. QED
  BY <1>1, NavigationInvariant, PTL

\* Session.routeQuery is empty, or that of an entry with the router's path, or its
\* entry was lost, as long as no frame was overtaken.
THEOREM QueryOfPath == Spec => []QueryIsNotAnothers
<1>1. ASSUME NavigationInv PROVE QueryIsNotAnothers
  <2>1. QueryInv
    BY <1>1 DEF NavigationInv, PushInv
  <2>2. QED
    BY <2>1 DEF QueryInv, Page, QueryIsNotAnothers, Settled
<1>2. QED
  BY <1>1, NavigationInvariant, PTL

\* When all is settled without a mishap, the router is at the path of the address.
AddressAgrees == Settled /\ connection = "first" /\ NoMishap => Clean(Url) = currentPath

\* With the first connection of a document, router and address bar agree whenever
\* all is settled and nothing was dropped, lost or overtaken: the safety part of
\* AddressReached.
THEOREM SettledAddress == Spec => []AddressAgrees
<1>1. ASSUME NavigationInv PROVE AddressAgrees
  <2>1. SUFFICES ASSUME Settled, connection = "first", NoMishap
                 PROVE  Clean(Url) = currentPath
    BY DEF AddressAgrees
  <2>2. Len(toServer) = 0 /\ Way = {}
    BY <2>1 DEF Settled, Way
  <2>3. NoPush
    BY <2>2 DEF NoPush
  <2>4. QED
    BY <1>1, <2>1, <2>3 DEF NavigationInv, PushInv, AddressInv
<1>2. QED
  BY <1>1, NavigationInvariant, PTL
=============================================================================
