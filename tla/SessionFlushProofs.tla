------------------------- MODULE SessionFlushProofs -------------------------
(***************************************************************************)
(* Proofs about SessionFlush, for any nodes, goroutines and assignment of  *)
(* signals to goroutines, and any number of changes and intents.           *)
(***************************************************************************)
EXTENDS SessionFlush, SequenceTheorems, TLAPS

(***************************************************************************)
(* The inductive invariant.                                                *)
(***************************************************************************)

\* Goroutine g is telling the observer of n of a change.
At(g, n)    == pc[g] \in ObserverPCs /\ work[g].node = n
Observed(n) == \E g \in Goroutines : At(g, n)

Draining == pc[Reader] \in {"drain", "clear", "clearDirty"}
Flushing == Draining \/ pc[Reader] = "write"
Mounted  == pc[Reader] \notin {"mount", "dead"}

\* What goroutines are doing, and which marks a text and an attribute have.
WorkInv ==
    /\ \A n \in Nodes : /\ signal[n] > 0 /\ text[n] > 0
                        /\ n \in attributed => ~dirtyText[n]
                        /\ n \notin attributed => dirtyAttrs[n] = 0
    /\ \A g \in Goroutines :
           /\ g # Reader => pc[g] \in {Idle, "dead"} \cup ObserverPCs
           /\ pc[g] \in ObserverPCs => /\ work[g].node \in Sets[g]
                                       /\ work[g].version > 0
           /\ pc[g] = "dirtyAttrs" => work[g].node \in attributed
           /\ pc[g] = "dirtyText" => work[g].node \notin attributed
    /\ \A i \in DOMAIN channel : \A n \in DOMAIN channel[i].texts : channel[i].texts[n] > 0
    /\ \A n \in DOMAIN updates : updates[n] > 0

\* A signal with one setter: its text follows it.
SetterInv(n) ==
    OneSetter(n) /\ pc[Reader] # "dead" =>
        /\ \A g \in Goroutines : pc[g] = "text" /\ work[g].node = n => work[g].version = signal[n]
        /\ text[n] = signal[n] \/ \E g \in Goroutines : pc[g] = "text" /\ work[g].node = n

\* Unless the node has been raced, its marks are those its observers have come to.
MarkInv(n) ==
    n \notin raced /\ pc[Reader] # "dead" =>
        /\ \A g \in Goroutines : At(g, n) =>
               /\ pc[g] = "dirtyText" => dirty[n]
               /\ pc[g] = "dirtyAttrs" => work[g].version = text[n]
               /\ pc[g] = "dirty" /\ n \in attributed => dirtyAttrs[n] = text[n]
        /\ dirtyAttrs[n] # 0 => \/ dirtyAttrs[n] = text[n]
                                \/ \E g \in Goroutines : At(g, n) /\ pc[g] = "dirtyAttrs"

\* The frames of n on the way.
Carries(i, n) == n \in DOMAIN channel[i].texts
Newest(i, n)  == Carries(i, n) /\ \A j \in 1 .. Len(channel) : j > i => ~Carries(j, n)
Oldest(i, n)  == Carries(i, n) /\ \A j \in 1 .. Len(channel) : j < i => ~Carries(j, n)

\* The client will have v for n when it has applied all frames in order.
Latest(n, v) ==
    \/ client[n] = v /\ \A j \in 1 .. Len(channel) : ~Carries(j, n)
    \/ \E i \in 1 .. Len(channel) : Newest(i, n) /\ channel[i].texts[n] = v

\* The tree comes first, unless it was overtaken.
TreeInv(n) ==
    n \notin overtaken =>
        /\ pc[Reader] = "mount" => channel = <<>> /\ client[n] = 0
        /\ Mounted /\ client[n] = 0 =>
               \E i \in 1 .. Len(channel) : Oldest(i, n) /\ channel[i].tree

\* The text of n is sent, about to be sent, or lost in a known way.
Sent(n) == \/ Flushing /\ n \in DOMAIN updates /\ updates[n] = text[n]
           \/ \E v \in Versions : v = text[n] /\ Latest(n, v)
           \/ n \in dropped \cup overtaken

\* The flush: a node that is still to be drained has no update; one that has been
\* drained has the present text as its update, or is marked or observed again.
FlushInv(n) ==
    /\ n \in todo /\ n \in DOMAIN updates => n = Current /\ pc[Reader] # "drain"
    /\ n \notin raced =>
           /\ Flushing /\ n \in DOMAIN updates =>
                  updates[n] = text[n] \/ (n \notin todo /\ (Observed(n) \/ Marked(n)))
           /\ pc[Reader] \in {"clear", "clearDirty"} /\ n = Current => Sent(n)
           /\ Mounted => Observed(n) \/ Marked(n) \/ Sent(n)

\* A node that only handlers change is clean whenever no handler or flush is at it.
Clean(n) == ~dirty[n] /\ ~dirtyText[n] /\ dirtyAttrs[n] = 0
HandlerInv(n) ==
    n \in ReaderOnly /\ pc[Reader] # "dead" =>
        /\ dirtyText[n] \/ dirtyAttrs[n] # 0 =>
               dirty[n] \/ (pc[Reader] = "dirty" /\ work[Reader].node = n)
        /\ pc[Reader] = "dirtyText" /\ work[Reader].node = n => dirty[n]
        /\ pc[Reader] \in {"mount", Idle} /\ ~panicked => Clean(n)
        /\ Flushing /\ n \notin todo => Clean(n)
        /\ pc[Reader] = "clear" /\ n = Current => (dirtyText[n] => n \in DOMAIN updates)
        /\ pc[Reader] = "clearDirty" /\ n = Current => ~dirtyText[n] /\ dirtyAttrs[n] = 0

FlushingInv ==
    /\ TypeOK
    /\ WorkInv
    /\ \A n \in Nodes : /\ SetterInv(n) /\ MarkInv(n) /\ TreeInv(n)
                        /\ FlushInv(n) /\ HandlerInv(n)

(***************************************************************************)
(* Facts about types and about the frames on the way.                      *)
(***************************************************************************)

\* The types that the proofs use most.
LEMMA Types ==
  ASSUME TypeOK
  PROVE  /\ channel \in Seq(Frames) /\ Len(channel) \in Nat /\ DOMAIN channel = 1 .. Len(channel)
         /\ \A i \in 1 .. Len(channel) : channel[i] \in Frames
         /\ \A n \in Nodes : /\ signal[n] \in Versions /\ text[n] \in Versions
                             /\ dirtyAttrs[n] \in Versions /\ client[n] \in Versions
         /\ \A g \in Goroutines : work[g].node \in Nodes /\ work[g].version \in Versions
         /\ Versions \subseteq Nat
         /\ Reader \in Goroutines
         /\ DOMAIN pc = Goroutines /\ DOMAIN work = Goroutines
<1>1. channel \in Seq(Frames)
  BY DEF TypeOK
<1>2. Len(channel) \in Nat /\ DOMAIN channel = 1 .. Len(channel)
      /\ \A i \in 1 .. Len(channel) : channel[i] \in Frames
  BY <1>1
<1>3. Versions \subseteq Nat
  BY SessionAssumption DEF Versions
<1>4. QED
  BY <1>1, <1>2, <1>3 DEF TypeOK, Goroutines

\* A collection of updates is a function on some of the nodes.
LEMMA UpdateTypes ==
  /\ \A f \in TextUpdates : /\ DOMAIN f \subseteq Nodes
                            /\ \A n \in DOMAIN f : f[n] \in Versions
  /\ \A S \in SUBSET Nodes : \A f \in [S -> Versions] : f \in TextUpdates
  /\ <<>> \in TextUpdates /\ DOMAIN <<>> = {}
<1>1. \A S \in SUBSET Nodes : \A f \in [S -> Versions] : f \in TextUpdates
  BY DEF TextUpdates
<1>2. <<>> \in [{} -> Versions] /\ DOMAIN <<>> = {}
  OBVIOUS
<1>3. \A f \in TextUpdates : \E S \in SUBSET Nodes : f \in [S -> Versions]
  BY DEF TextUpdates
<1>4. QED
  BY <1>1, <1>2, <1>3

\* A node is being drained exactly while the reader is in the loop.
LEMMA CurrentTodo ==
  ASSUME TypeOK
  PROVE  /\ Draining <=> todo # {}
         /\ todo # {} => Current \in todo /\ Current \in Nodes
         /\ todo \subseteq Nodes
<1>1. (todo = {}) = (pc[Reader] \notin {"drain", "clear", "clearDirty"}) /\ todo \subseteq Nodes
  BY DEF TypeOK
<1>2. todo # {} => Current \in todo
  BY DEF Current
<1>3. QED
  BY <1>1, <1>2 DEF Draining

\* No frame is sent or applied.
LEMMA ChannelSame ==
  ASSUME UNCHANGED <<channel, client>>
  PROVE  /\ \A n, v : Latest(n, v)' <=> Latest(n, v)
         /\ \A n, i : Oldest(i, n)' <=> Oldest(i, n)
BY DEF Latest, Oldest, Newest, Carries

\* A frame is sent: it is the newest of what it carries.
LEMMA ChannelSend ==
  ASSUME TypeOK, NEW f \in Frames, channel' = Append(channel, f), client' = client,
         \A i \in DOMAIN channel : \A n \in DOMAIN channel[i].texts : channel[i].texts[n] > 0,
         \A n \in DOMAIN f.texts : f.texts[n] > 0
  PROVE  /\ channel' \in Seq(Frames) /\ Len(channel') = Len(channel) + 1
         /\ channel'[Len(channel) + 1] = f
         /\ \A i \in 1 .. Len(channel) : channel'[i] = channel[i]
         /\ \A i \in DOMAIN channel' : \A n \in DOMAIN channel'[i].texts : channel'[i].texts[n] > 0
         /\ \A n \in DOMAIN f.texts : \A v : v = f.texts[n] => Latest(n, v)'
         /\ \A n, v : n \notin DOMAIN f.texts /\ Latest(n, v) => Latest(n, v)'
         /\ \A n : \A i \in 1 .. Len(channel) : Oldest(i, n) => Oldest(i, n)'
<1> DEFINE k == Len(channel)
<1>1. channel \in Seq(Frames) /\ k \in Nat
  BY Types
<1>2. /\ channel' \in Seq(Frames) /\ Len(channel') = k + 1 /\ channel'[k + 1] = f
      /\ \A i \in 1 .. k : channel'[i] = channel[i]
  BY <1>1
<1>3. DOMAIN channel = 1 .. k /\ DOMAIN channel' = 1 .. k + 1
  BY <1>1, <1>2
<1>4. /\ \A i \in 1 .. k + 1 : i \in 1 .. k \/ i = k + 1
      /\ 1 .. k \subseteq 1 .. k + 1 /\ k + 1 \in 1 .. k + 1
      /\ \A i \in 1 .. k : i < k + 1 /\ ~(k + 1 < i)
      /\ \A i \in 1 .. k + 1 : ~(i > k + 1)
  BY <1>1
<1> HIDE DEF k
<1>5. /\ \A n : \A i \in 1 .. k : Carries(i, n)' <=> Carries(i, n)
      /\ \A n, i : i = k + 1 => (Carries(i, n)' <=> n \in DOMAIN f.texts)
  BY <1>2 DEF Carries
<1>6. \A i \in DOMAIN channel' : \A n \in DOMAIN channel'[i].texts : channel'[i].texts[n] > 0
  BY <1>2, <1>3, <1>4
<1>7. ASSUME NEW n \in DOMAIN f.texts, NEW v, v = f.texts[n] PROVE Latest(n, v)'
  <2>1. \A i : i = k + 1 => Newest(i, n)' /\ i \in 1 .. Len(channel') /\ channel'[i].texts[n] = v
    BY <1>2, <1>4, <1>5, <1>7 DEF Newest
  <2>2. QED
    BY <2>1 DEF Latest
<1>8. ASSUME NEW n, NEW v, n \notin DOMAIN f.texts, Latest(n, v) PROVE Latest(n, v)'
  <2>1. CASE client[n] = v /\ \A j \in 1 .. k : ~Carries(j, n)
    BY <1>2, <1>4, <1>5, <1>8, <2>1 DEF Latest
  <2>2. ASSUME NEW i \in 1 .. k, Newest(i, n), channel[i].texts[n] = v PROVE Latest(n, v)'
    <3>1. Newest(i, n)'
      BY <1>2, <1>4, <1>5, <1>8, <2>2 DEF Newest, k
    <3>2. i \in 1 .. Len(channel') /\ channel'[i].texts[n] = v
      BY <1>2, <1>4, <2>2
    <3>3. QED
      BY <3>1, <3>2 DEF Latest
  <2>3. QED
    BY <1>8, <2>1, <2>2 DEF Latest, k
<1>9. ASSUME NEW n, NEW i \in 1 .. k, Oldest(i, n) PROVE Oldest(i, n)'
  BY <1>2, <1>4, <1>5, <1>9 DEF Oldest, k
<1>10. QED
  BY <1>2, <1>6, <1>7, <1>8, <1>9 DEF k

\* A frame is applied: the others keep their order.
LEMMA ChannelRemove ==
  ASSUME TypeOK, NEW i \in 1 .. Len(channel),
         channel' = SubSeq(channel, 1, i - 1) \o SubSeq(channel, i + 1, Len(channel))
  PROVE  /\ channel' \in Seq(Frames) /\ Len(channel') = Len(channel) - 1
         /\ \A j \in 1 .. Len(channel) - 1 :
                channel'[j] = IF j < i THEN channel[j] ELSE channel[j + 1]
<1> DEFINE k == Len(channel)
           a == SubSeq(channel, 1, i - 1)
           b == SubSeq(channel, i + 1, k)
<1>1. channel \in Seq(Frames) /\ k \in Nat /\ i \in 1 .. k
  BY Types
<1> HIDE DEF Frames
<1>2. /\ a \in Seq(Frames) /\ Len(a) = i - 1 /\ \A j \in 1 .. i - 1 : a[j] = channel[j]
  BY <1>1
<1>3. /\ b \in Seq(Frames) /\ Len(b) = k - i /\ \A j \in 1 .. k - i : b[j] = channel[i + j]
  <2>1. b \in Seq(Frames)
    BY <1>1
  <2>2. Len(b) = k - i
    BY <1>1
  <2>3. \A j \in 1 .. k - i : b[j] = channel[i + j]
    <3>1. TAKE j \in 1 .. k - i
    <3>2. b[j] = channel[(i + 1) + j - 1]
      BY <1>1
    <3>3. (i + 1) + j - 1 = i + j
      BY <1>1
    <3>4. QED
      BY <3>2, <3>3
  <2>4. QED
    BY <2>1, <2>2, <2>3
<1>4. channel' = a \o b
  OBVIOUS
<1> HIDE DEF k, a, b
<1>5. /\ channel' \in Seq(Frames) /\ Len(channel') = Len(a) + Len(b)
      /\ \A j \in 1 .. Len(a) + Len(b) :
             channel'[j] = IF j <= Len(a) THEN a[j] ELSE b[j - Len(a)]
  <2>1. a \in Seq(Frames) /\ b \in Seq(Frames)
    BY <1>2, <1>3
  <2>2. /\ a \o b \in Seq(Frames) /\ Len(a \o b) = Len(a) + Len(b)
        /\ \A j \in 1 .. Len(a) + Len(b) :
               (a \o b)[j] = IF j <= Len(a) THEN a[j] ELSE b[j - Len(a)]
    BY <2>1, ConcatProperties, Zenon
  <2>3. QED
    BY <1>4, <2>2, Zenon
<1>6. Len(a) + Len(b) = k - 1
  BY <1>1, <1>2, <1>3
<1>7. ASSUME NEW j \in 1 .. k - 1
      PROVE  channel'[j] = IF j < i THEN channel[j] ELSE channel[j + 1]
  <2>1. CASE j < i
    <3>1. j \in 1 .. i - 1 /\ j <= Len(a)
      BY <1>1, <1>2, <2>1
    <3>2. QED
      BY <1>2, <1>5, <1>6, <2>1, <3>1
  <2>2. CASE ~(j < i)
    <3>1. ~(j <= Len(a)) /\ j - Len(a) \in 1 .. k - i /\ i + (j - Len(a)) = j + 1
      BY <1>1, <1>2, <2>2
    <3>2. QED
      BY <1>3, <1>5, <1>6, <2>2, <3>1
  <2>3. QED
    BY <2>1, <2>2
<1>8. QED
  BY <1>5, <1>6, <1>7 DEF k

\* What a frame that does not overtake another one of n changes for n.
LEMMA ChannelApply ==
  ASSUME FlushingInv, NEW i \in 1 .. Len(channel), client' = Patched(channel[i]),
         channel' = SubSeq(channel, 1, i - 1) \o SubSeq(channel, i + 1, Len(channel)),
         NEW n \in Nodes, Carries(i, n) => Oldest(i, n),
         client[n] = 0 => \E j \in 1 .. Len(channel) : Oldest(j, n) /\ channel[j].tree
  PROVE  /\ \A v : Latest(n, v) => Latest(n, v)'
         /\ client'[n] = 0 => \E j \in 1 .. Len(channel') : Oldest(j, n)' /\ channel'[j].tree
<1> DEFINE k == Len(channel)
<1>1. TypeOK /\ k \in Nat /\ i \in 1 .. k /\ DOMAIN channel = 1 .. k
  BY Types DEF FlushingInv
<1>2. /\ Len(channel') = k - 1
      /\ \A j \in 1 .. k - 1 : channel'[j] = IF j < i THEN channel[j] ELSE channel[j + 1]
  BY <1>1, ChannelRemove
<1> HIDE DEF k
<1>3. \A j \in 1 .. k - 1 : Carries(j, n)' <=> IF j < i THEN Carries(j, n) ELSE Carries(j + 1, n)
  BY <1>2 DEF Carries
<1>4. client'[n] = IF Carries(i, n) /\ (channel[i].tree \/ client[n] # 0)
                   THEN channel[i].texts[n] ELSE client[n]
  BY DEF Patched, Carries
<1> DEFINE place(m) == IF m < i THEN m ELSE m - 1
<1>5. ASSUME NEW m \in 1 .. k, m # i
      PROVE  /\ place(m) \in 1 .. k - 1 /\ channel'[place(m)] = channel[m]
             /\ Newest(m, n) => Newest(place(m), n)'
             /\ Oldest(m, n) => Oldest(place(m), n)'
  <2>1. /\ place(m) \in 1 .. k - 1
        /\ m < i => place(m) < i /\ place(m) = m
        /\ ~(m < i) => ~(place(m) < i) /\ place(m) + 1 = m
    BY <1>1, <1>5
  <2> HIDE DEF place
  <2>2. channel'[place(m)] = channel[m]
    BY <1>2, <2>1
  <2>3. \A p : p = place(m) => (Carries(p, n)' <=> Carries(m, n))
    BY <2>2 DEF Carries
  <2>4. ASSUME Newest(m, n), NEW j \in 1 .. k - 1, j > place(m) PROVE ~Carries(j, n)'
    <3>1. CASE j < i
      <4>1. j \in 1 .. k /\ j > m
        BY <1>1, <1>5, <2>1, <2>4, <3>1
      <4>2. QED
        BY <1>3, <2>4, <3>1, <4>1 DEF Newest, k
    <3>2. CASE ~(j < i)
      <4>1. j + 1 \in 1 .. k /\ j + 1 > m
        BY <1>1, <1>5, <2>1, <2>4, <3>2
      <4>2. QED
        BY <1>3, <2>4, <3>2, <4>1 DEF Newest, k
    <3>3. QED
      BY <3>1, <3>2
  <2>5. ASSUME Oldest(m, n), NEW j \in 1 .. k - 1, j < place(m) PROVE ~Carries(j, n)'
    <3>1. CASE j < i
      <4>1. j \in 1 .. k /\ j < m
        BY <1>1, <1>5, <2>1, <2>5, <3>1
      <4>2. QED
        BY <1>3, <2>5, <3>1, <4>1 DEF Oldest, k
    <3>2. CASE ~(j < i)
      <4>1. j + 1 \in 1 .. k /\ j + 1 < m
        BY <1>1, <1>5, <2>1, <2>5, <3>2
      <4>2. QED
        BY <1>3, <2>5, <3>2, <4>1 DEF Oldest, k
    <3>3. QED
      BY <3>1, <3>2
  <2>6. \A p : p = place(m) => /\ Newest(m, n) => Newest(p, n)'
                               /\ Oldest(m, n) => Oldest(p, n)'
    BY <1>2, <2>3, <2>4, <2>5 DEF Newest, Oldest
  <2>7. QED
    BY <2>1, <2>2, <2>6
<1>6. (\A j \in 1 .. k : j # i => ~Carries(j, n)) => \A j \in 1 .. k - 1 : ~Carries(j, n)'
  <2>1. \A j \in 1 .. k - 1 : /\ j < i => j \in 1 .. k /\ j # i
                              /\ ~(j < i) => j + 1 \in 1 .. k /\ j + 1 # i
    BY <1>1
  <2>2. QED
    BY <1>3, <2>1
<1> HIDE DEF place
<1>7. CASE ~Carries(i, n)
  <2>1. client'[n] = client[n]
    BY <1>4, <1>7
  <2>2. ASSUME NEW v, Latest(n, v) PROVE Latest(n, v)'
    <3>1. CASE client[n] = v /\ \A j \in 1 .. k : ~Carries(j, n)
      BY <1>2, <1>6, <2>1, <3>1 DEF Latest
    <3>2. ASSUME NEW m \in 1 .. k, Newest(m, n), channel[m].texts[n] = v PROVE Latest(n, v)'
      <4>1. m # i
        BY <1>7, <3>2 DEF Newest
      <4>2. \E p \in 1 .. k - 1 : Newest(p, n)' /\ channel'[p].texts[n] = v
        BY <1>5, <3>2, <4>1
      <4>3. QED
        BY <1>2, <4>2 DEF Latest
    <3>3. QED
      BY <2>2, <3>1, <3>2 DEF Latest, k
  <2>3. ASSUME client'[n] = 0
        PROVE  \E j \in 1 .. Len(channel') : Oldest(j, n)' /\ channel'[j].tree
    <3>1. PICK m \in 1 .. k : Oldest(m, n) /\ channel[m].tree
      BY <2>1, <2>3 DEF k
    <3>2. m # i
      BY <1>7, <3>1 DEF Oldest
    <3>3. \E p \in 1 .. k - 1 : Oldest(p, n)' /\ channel'[p].tree
      BY <1>5, <3>1, <3>2
    <3>4. QED
      BY <1>2, <3>3
  <2>4. QED
    BY <2>2, <2>3
<1>8. CASE Carries(i, n)
  <2>1. Oldest(i, n) /\ \A j \in 1 .. k : j < i => ~Carries(j, n)
    BY <1>8 DEF Oldest, k
  <2>2. channel[i].tree \/ client[n] # 0
    <3>1. ASSUME NEW m \in 1 .. k, Oldest(m, n) PROVE m = i
      BY <1>1, <2>1, <3>1 DEF Oldest, k
    <3>2. QED
      BY <3>1 DEF k
  <2>3. client'[n] = channel[i].texts[n]
    BY <1>4, <1>8, <2>2
  <2>4. client'[n] # 0
    <3>1. channel[i].texts[n] > 0
      BY <1>1, <1>8 DEF FlushingInv, WorkInv, Carries
    <3>2. QED
      BY <2>3, <3>1
  <2>5. ASSUME NEW v, Latest(n, v) PROVE Latest(n, v)'
    <3>1. PICK m \in 1 .. k : Newest(m, n) /\ channel[m].texts[n] = v
      BY <1>1, <1>8, <2>5 DEF Latest, k
    <3>2. CASE m = i
      <4>1. \A j \in 1 .. k : j # i => ~Carries(j, n)
        BY <1>1, <2>1, <3>1, <3>2 DEF Newest, k
      <4>2. QED
        BY <1>2, <1>6, <2>3, <3>1, <3>2, <4>1 DEF Latest
    <3>3. CASE m # i
      <4>1. \E p \in 1 .. k - 1 : Newest(p, n)' /\ channel'[p].texts[n] = v
        BY <1>5, <3>1, <3>3
      <4>2. QED
        BY <1>2, <4>1 DEF Latest
    <3>4. QED
      BY <3>2, <3>3
  <2>6. QED
    BY <2>4, <2>5, Zenon
<1>9. QED
  BY <1>7, <1>8

(***************************************************************************)
(* The steps of the observers.                                             *)
(***************************************************************************)

\* A signal is changed: its goroutine is now at the observer of the node.
LEMMA UpdateStep ==
  ASSUME FlushingInv, NEW g \in Goroutines, NEW m \in Nodes,
         Update(g, m, IF g = Reader THEN "handler" ELSE Idle)
  PROVE  FlushingInv'
<1>1. /\ m \in Sets[g] /\ signal[m] <= MaxVersion
      /\ pc[g] = (IF g = Reader THEN "handler" ELSE Idle) /\ pc' = [pc EXCEPT ![g] = "text"]
      /\ signal' = [signal EXCEPT ![m] = @ + 1]
      /\ work' = [work EXCEPT ![g] = [node |-> m, version |-> signal'[m]]]
      /\ UNCHANGED <<attributed, text, dirty, dirtyText, dirtyAttrs, todo, updates, channel,
                     client, intents, panicked, raced, dropped, overtaken, crashed>>
  BY DEF Update, Goto, nodeVars, flushVars, clientVars, lossVars
<1>2. TypeOK /\ WorkInv
  BY DEF FlushingInv
<1>3. /\ signal \in [Nodes -> Versions] /\ Versions \subseteq Nat /\ Reader \in Goroutines
      /\ DOMAIN pc = Goroutines /\ DOMAIN work = Goroutines
  BY <1>2, Types DEF TypeOK
<1>4. signal[m] + 1 \in Versions /\ signal[m] + 1 > 0
  BY <1>1, <1>3, SessionAssumption DEF Versions
<1>5. /\ \A h \in Goroutines : h # g => pc'[h] = pc[h] /\ work'[h] = work[h]
      /\ pc'[g] = "text" /\ work'[g].node = m /\ work'[g].version = signal[m] + 1
      /\ signal'[m] = signal[m] + 1 /\ \A n \in Nodes : n # m => signal'[n] = signal[n]
  BY <1>1, <1>3
<1>6. pc[g] \notin ObserverPCs /\ pc[g] \notin {"mount", "dead", "drain", "clear", "clearDirty", "write"}
  BY <1>1 DEF ObserverPCs, Idle
<1>7. /\ Mounted' = Mounted /\ Draining' = Draining /\ Flushing' = Flushing
      /\ (pc'[Reader] = "mount") = (pc[Reader] = "mount")
      /\ (pc'[Reader] = "dead") = (pc[Reader] = "dead")
      /\ (pc'[Reader] = "drain") = (pc[Reader] = "drain")
      /\ (pc'[Reader] = "clear") = (pc[Reader] = "clear")
      /\ (pc'[Reader] = "clearDirty") = (pc[Reader] = "clearDirty")
  <2>1. CASE g = Reader
    BY <1>5, <1>6, <2>1 DEF Mounted, Draining, Flushing
  <2>2. CASE g # Reader
    BY <1>3, <1>5, <2>2 DEF Mounted, Draining, Flushing
  <2>3. QED
    BY <2>1, <2>2
<1>8. /\ \A n, h : h \in Goroutines /\ h # g => (At(h, n)' <=> At(h, n))
      /\ \A n : ~At(g, n) /\ (At(g, n)' <=> n = m)
      /\ \A n : Observed(n) => Observed(n)'
  <2>1. /\ \A n, h : h \in Goroutines /\ h # g => (At(h, n)' <=> At(h, n))
        /\ \A n : ~At(g, n) /\ (At(g, n)' <=> n = m)
    BY <1>5, <1>6 DEF At, ObserverPCs
  <2>2. QED
    BY <2>1 DEF Observed
<1>9. Current' = Current /\ \A n : Marked(n)' <=> Marked(n)
  BY <1>1 DEF Current, Marked
<1>10. \A n : Sent(n)' <=> Sent(n)
  BY <1>1, <1>7, ChannelSame DEF Sent
<1>11. TypeOK'
  <2>1. signal' \in [Nodes -> Versions]
    BY <1>1, <1>3, <1>4
  <2>2. work' \in [Goroutines -> [node : Nodes, version : Versions]]
    BY <1>1, <1>2, <1>4, <1>5 DEF TypeOK
  <2>3. pc' \in [Goroutines -> {"mount", Idle, "dead"} \cup ObserverPCs \cup ReaderPCs]
    BY <1>1, <1>2 DEF TypeOK, ObserverPCs
  <2>4. (todo' = {}) = (pc'[Reader] \notin {"drain", "clear", "clearDirty"})
    BY <1>1, <1>2, <1>7 DEF TypeOK, Draining
  <2>5. QED
    BY <1>1, <1>2, <2>1, <2>2, <2>3, <2>4 DEF TypeOK
<1>12. WorkInv'
  <2>1. \A n \in Nodes : signal'[n] > 0
    BY <1>2, <1>4, <1>5 DEF WorkInv
  <2>2. \A h \in Goroutines :
           /\ h # Reader => pc'[h] \in {Idle, "dead"} \cup ObserverPCs
           /\ pc'[h] \in ObserverPCs => /\ work'[h].node \in Sets[h]
                                        /\ work'[h].version > 0
           /\ pc'[h] = "dirtyAttrs" => work'[h].node \in attributed
           /\ pc'[h] = "dirtyText" => work'[h].node \notin attributed
    BY <1>1, <1>2, <1>4, <1>5 DEF WorkInv, ObserverPCs
  <2>3. QED
    BY <1>1, <1>2, <2>1, <2>2 DEF WorkInv
<1>13. ASSUME NEW n \in Nodes
       PROVE  SetterInv(n)' /\ MarkInv(n)' /\ TreeInv(n)' /\ FlushInv(n)' /\ HandlerInv(n)'
  <2>1. SetterInv(n) /\ MarkInv(n) /\ TreeInv(n) /\ FlushInv(n) /\ HandlerInv(n)
    BY DEF FlushingInv
  <2>2. SetterInv(n)'
    <3>1. SUFFICES ASSUME OneSetter(n), pc[Reader] # "dead" PROVE SetterInv(n)'
      BY <1>7 DEF SetterInv, OneSetter
    <3>2. /\ \A h \in Goroutines : pc[h] = "text" /\ work[h].node = n => work[h].version = signal[n]
          /\ text[n] = signal[n] \/ \E h \in Goroutines : pc[h] = "text" /\ work[h].node = n
      BY <2>1, <3>1 DEF SetterInv
    <3>3. CASE n # m
      <4>1. \A h \in Goroutines : pc'[h] = "text" /\ work'[h].node = n <=> pc[h] = "text" /\ work[h].node = n
        BY <1>5, <1>6, <3>3 DEF ObserverPCs
      <4>2. \A h \in Goroutines : pc'[h] = "text" /\ work'[h].node = n => work'[h].version = work[h].version
        BY <1>5, <3>3
      <4>3. QED
        BY <1>1, <1>5, <3>2, <3>3, <4>1, <4>2 DEF SetterInv
    <3>4. CASE n = m
      <4>1. \A h \in Goroutines : pc'[h] = "text" /\ work'[h].node = n => h = g
        BY <1>1, <1>12, <3>1, <3>4 DEF OneSetter, WorkInv, ObserverPCs
      <4>2. QED
        BY <1>5, <3>4, <4>1 DEF SetterInv
    <3>5. QED
      BY <3>3, <3>4
  <2>3. MarkInv(n)'
    <3>1. SUFFICES ASSUME n \notin raced, pc[Reader] # "dead" PROVE MarkInv(n)'
      BY <1>1, <1>7 DEF MarkInv
    <3>2. \A h \in Goroutines : At(h, n)' =>
               /\ pc'[h] = "dirtyText" => dirty'[n]
               /\ pc'[h] = "dirtyAttrs" => work'[h].version = text'[n]
               /\ pc'[h] = "dirty" /\ n \in attributed' => dirtyAttrs'[n] = text'[n]
      BY <1>1, <1>5, <1>8, <2>1, <3>1 DEF MarkInv
    <3>3. dirtyAttrs'[n] # 0 => \/ dirtyAttrs'[n] = text'[n]
                                \/ \E h \in Goroutines : At(h, n)' /\ pc'[h] = "dirtyAttrs"
      BY <1>1, <1>5, <1>8, <2>1, <3>1 DEF MarkInv
    <3>4. QED
      BY <3>2, <3>3 DEF MarkInv
  <2>4. TreeInv(n)'
    BY <1>1, <1>7, <2>1, ChannelSame DEF TreeInv
  <2>5. FlushInv(n)'
    BY <1>1, <1>7, <1>8, <1>9, <1>10, <2>1 DEF FlushInv
  <2>6. HandlerInv(n)'
    <3>1. ReaderOnly' = ReaderOnly
      BY DEF ReaderOnly
    <3>2. CASE g = Reader
      BY <1>1, <1>5, <1>6, <1>7, <2>1, <3>1, <3>2 DEF HandlerInv, Flushing, Draining, Idle
    <3>3. CASE g # Reader
      BY <1>1, <1>3, <1>5, <1>7, <1>9, <2>1, <3>1, <3>3 DEF HandlerInv, Clean
    <3>4. QED
      BY <3>2, <3>3
  <2>7. QED
    BY <2>2, <2>3, <2>4, <2>5, <2>6
<1>14. QED
  BY <1>11, <1>12, <1>13 DEF FlushingInv

\* The observer of a node takes its next step.
LEMMA NotifyStep ==
  ASSUME FlushingInv, NEW g \in Goroutines, Notify(g)
  PROVE  FlushingInv'
<1> DEFINE m == work[g].node
           v == work[g].version
<1>1. /\ UNCHANGED <<attributed, signal, todo, updates, channel, client, intents, panicked,
                     dropped, overtaken, crashed>>
      /\ raced' = raced \cup ({m} \cap (todo \cup (attributed \cap ObservedBy(Goroutines \ {g}))))
  BY DEF Notify, flushVars, clientVars, ObserverText, ObserverDirtyAttrs, ObserverDirty, ObserverDirtyText
<1>2. TypeOK /\ WorkInv
  BY DEF FlushingInv
<1>3. /\ DOMAIN pc = Goroutines /\ DOMAIN work = Goroutines /\ Reader \in Goroutines
      /\ m \in Nodes /\ v \in Versions /\ Versions \subseteq Nat
      /\ text \in [Nodes -> Versions] /\ dirtyAttrs \in [Nodes -> Versions]
      /\ dirty \in [Nodes -> BOOLEAN] /\ dirtyText \in [Nodes -> BOOLEAN]
  BY <1>2, Types DEF TypeOK
<1>4. NoWork \in [node : Nodes, version : Versions]
  BY SessionAssumption DEF NoWork, Versions
<1>5. \/ /\ pc[g] = "text" /\ pc' = [pc EXCEPT ![g] = IF m \in attributed THEN "dirtyAttrs" ELSE "dirty"]
         /\ text' = [text EXCEPT ![m] = v] /\ UNCHANGED <<dirty, dirtyText, dirtyAttrs, work>>
      \/ /\ pc[g] = "dirtyAttrs" /\ pc' = [pc EXCEPT ![g] = "dirty"]
         /\ dirtyAttrs' = [dirtyAttrs EXCEPT ![m] = v] /\ UNCHANGED <<text, dirty, dirtyText, work>>
      \/ /\ pc[g] = "dirty" /\ dirty' = [dirty EXCEPT ![m] = TRUE]
         /\ pc' = [pc EXCEPT ![g] = IF m \in attributed THEN Caller(g) ELSE "dirtyText"]
         /\ work' = IF m \in attributed THEN [work EXCEPT ![g] = NoWork] ELSE work
         /\ UNCHANGED <<text, dirtyText, dirtyAttrs>>
      \/ /\ pc[g] = "dirtyText" /\ dirtyText' = [dirtyText EXCEPT ![m] = TRUE]
         /\ pc' = [pc EXCEPT ![g] = Caller(g)] /\ work' = [work EXCEPT ![g] = NoWork]
         /\ UNCHANGED <<text, dirty, dirtyAttrs>>
  BY DEF Notify, ObserverText, ObserverDirtyAttrs, ObserverDirty, ObserverDirtyText, Goto, AfterText
<1>6. /\ pc[g] \in ObserverPCs /\ pc'[g] \in ObserverPCs \cup {Caller(g)}
      /\ \A h \in Goroutines : h # g => pc'[h] = pc[h] /\ work'[h] = work[h]
      /\ pc'[g] \in ObserverPCs => work'[g] = work[g]
      /\ DOMAIN pc' = Goroutines /\ pc' = [h \in Goroutines |-> pc'[h]]
      /\ work' = work \/ work' = [work EXCEPT ![g] = NoWork]
  <2>1. Caller(g) \notin ObserverPCs
    BY DEF Caller, ObserverPCs, Idle
  <2>2. work' = work \/ work' = [work EXCEPT ![g] = NoWork]
    BY <1>5
  <2>3. PICK p \in ObserverPCs \cup {Caller(g)} : pc' = [pc EXCEPT ![g] = p]
    BY <1>5 DEF ObserverPCs
  <2>4. /\ DOMAIN pc' = Goroutines /\ pc' = [h \in Goroutines |-> pc'[h]] /\ pc'[g] = p
        /\ \A h \in Goroutines : h # g => pc'[h] = pc[h]
    BY <1>3, <2>3
  <2>5. pc[g] \in ObserverPCs
    BY <1>5 DEF ObserverPCs
  <2>6. \A h \in Goroutines : h # g => work'[h] = work[h]
    BY <1>3, <2>2
  <2>7. pc'[g] \in ObserverPCs => work' = work
    BY <1>3, <1>5, <2>1
  <2>8. QED
    BY <2>2, <2>3, <2>4, <2>5, <2>6, <2>7
<1>7. \/ /\ pc[g] = "text" /\ pc'[g] = (IF m \in attributed THEN "dirtyAttrs" ELSE "dirty")
         /\ text'[m] = v /\ dirty'[m] = dirty[m] /\ dirtyText'[m] = dirtyText[m]
         /\ dirtyAttrs'[m] = dirtyAttrs[m]
      \/ /\ pc[g] = "dirtyAttrs" /\ pc'[g] = "dirty" /\ text'[m] = text[m]
         /\ dirty'[m] = dirty[m] /\ dirtyText'[m] = dirtyText[m] /\ dirtyAttrs'[m] = v
      \/ /\ pc[g] = "dirty" /\ pc'[g] = (IF m \in attributed THEN Caller(g) ELSE "dirtyText")
         /\ text'[m] = text[m] /\ dirty'[m] = TRUE /\ dirtyText'[m] = dirtyText[m]
         /\ dirtyAttrs'[m] = dirtyAttrs[m]
      \/ /\ pc[g] = "dirtyText" /\ pc'[g] = Caller(g)
         /\ text'[m] = text[m] /\ dirty'[m] = dirty[m] /\ dirtyText'[m] = TRUE
         /\ dirtyAttrs'[m] = dirtyAttrs[m]
  BY <1>3, <1>5
<1>8. /\ \A n \in Nodes : n # m => /\ text'[n] = text[n] /\ dirty'[n] = dirty[n]
                                   /\ dirtyText'[n] = dirtyText[n] /\ dirtyAttrs'[n] = dirtyAttrs[n]
      /\ text' \in [Nodes -> Versions] /\ dirtyAttrs' \in [Nodes -> Versions]
      /\ dirty' \in [Nodes -> BOOLEAN] /\ dirtyText' \in [Nodes -> BOOLEAN]
  BY <1>3, <1>5
<1>9. /\ m \in Sets[g] /\ v > 0
      /\ pc[g] = "dirtyAttrs" => m \in attributed
      /\ pc[g] = "dirtyText" => m \notin attributed
  BY <1>2, <1>6 DEF WorkInv
<1> HIDE DEF m, v
<1>10. /\ Mounted' = Mounted /\ Draining' = Draining /\ Flushing' = Flushing
       /\ (pc'[Reader] = "mount") = (pc[Reader] = "mount")
       /\ (pc'[Reader] = "dead") = (pc[Reader] = "dead")
       /\ (pc'[Reader] = "drain") = (pc[Reader] = "drain")
       /\ (pc'[Reader] = "clear") = (pc[Reader] = "clear")
       /\ (pc'[Reader] = "clearDirty") = (pc[Reader] = "clearDirty")
  <2>1. CASE g = Reader
    <3>1. pc[Reader] \in ObserverPCs /\ pc'[Reader] \in ObserverPCs \cup {"handler"}
      BY <1>6, <2>1 DEF Caller
    <3>2. QED
      BY <3>1 DEF Mounted, Draining, Flushing, ObserverPCs
  <2>2. CASE g # Reader
    BY <1>3, <1>6, <2>2 DEF Mounted, Draining, Flushing
  <2>3. QED
    BY <2>1, <2>2
<1>11. /\ \A n, h : h \in Goroutines /\ h # g => (At(h, n)' <=> At(h, n))
       /\ \A n : At(g, n) <=> n = m
       /\ \A n : At(g, n)' <=> n = m /\ pc'[g] \in ObserverPCs
  <2>1. ObserverPCs' = ObserverPCs
    BY DEF ObserverPCs
  <2>2. QED
    BY <1>6, <2>1 DEF At, m
<1>12. TypeOK'
  <2>1. work' \in [Goroutines -> [node : Nodes, version : Versions]]
    BY <1>2, <1>4, <1>6 DEF TypeOK
  <2>2. pc' \in [Goroutines -> {"mount", Idle, "dead"} \cup ObserverPCs \cup ReaderPCs]
    <3>1. pc'[g] \in {"mount", Idle, "dead"} \cup ObserverPCs \cup ReaderPCs
      BY <1>6 DEF Caller, ReaderPCs
    <3>2. QED
      BY <1>2, <1>6, <3>1 DEF TypeOK
  <2>3. (todo' = {}) = (pc'[Reader] \notin {"drain", "clear", "clearDirty"})
    BY <1>1, <1>2, <1>10 DEF TypeOK, Draining
  <2>4. raced' \cup dropped' \cup overtaken' \cup crashed' \subseteq Nodes
    BY <1>1, <1>2, <1>3 DEF TypeOK
  <2>5. QED
    BY <1>1, <1>2, <1>8, <2>1, <2>2, <2>3, <2>4 DEF TypeOK
<1>13. WorkInv'
  <2>1. \A n \in Nodes : /\ signal'[n] > 0 /\ text'[n] > 0
                         /\ n \in attributed' => ~dirtyText'[n]
                         /\ n \notin attributed' => dirtyAttrs'[n] = 0
    <3>1. TAKE n \in Nodes
    <3>2. /\ signal[n] > 0 /\ text[n] > 0
          /\ n \in attributed => ~dirtyText[n]
          /\ n \notin attributed => dirtyAttrs[n] = 0
      BY <1>2 DEF WorkInv
    <3>3. CASE n = m
      BY <1>1, <1>7, <1>9, <3>2, <3>3
    <3>4. CASE n # m
      BY <1>1, <1>8, <3>2, <3>4
    <3>5. QED
      BY <3>3, <3>4
  <2>2. \A h \in Goroutines :
           /\ h # Reader => pc'[h] \in {Idle, "dead"} \cup ObserverPCs
           /\ pc'[h] \in ObserverPCs => /\ work'[h].node \in Sets[h]
                                        /\ work'[h].version > 0
           /\ pc'[h] = "dirtyAttrs" => work'[h].node \in attributed
           /\ pc'[h] = "dirtyText" => work'[h].node \notin attributed
    <3>1. TAKE h \in Goroutines
    <3>2. CASE h # g
      BY <1>2, <1>6, <3>2 DEF WorkInv
    <3>3. CASE h = g
      <4>1. h # Reader => pc'[h] \in {Idle, "dead"} \cup ObserverPCs
        BY <1>6, <3>3 DEF Caller
      <4>2. pc'[h] \in ObserverPCs => work'[h].node = m /\ work'[h].version = v
        BY <1>6, <3>3 DEF m, v
      <4>3. /\ pc'[h] = "dirtyAttrs" => m \in attributed
            /\ pc'[h] = "dirtyText" => m \notin attributed
        BY <1>7, <3>3 DEF Caller, Idle
      <4>4. QED
        BY <1>9, <3>3, <4>1, <4>2, <4>3 DEF ObserverPCs
    <3>4. QED
      BY <3>2, <3>3
  <2>3. QED
    BY <1>1, <1>2, <2>1, <2>2 DEF WorkInv
<1>14. ASSUME NEW n \in Nodes
       PROVE  SetterInv(n)' /\ MarkInv(n)' /\ TreeInv(n)' /\ FlushInv(n)' /\ HandlerInv(n)'
  <2>1. SetterInv(n) /\ MarkInv(n) /\ TreeInv(n) /\ FlushInv(n) /\ HandlerInv(n)
    BY DEF FlushingInv
  <2>2. TreeInv(n)'
    BY <1>1, <1>10, <2>1, ChannelSame DEF TreeInv
  <2>3. Current' = Current /\ ReaderOnly' = ReaderOnly /\ (n \in raced => n \in raced')
    BY <1>1 DEF Current, ReaderOnly
  <2>4. CASE n # m
    <3>1. /\ \A h \in Goroutines : At(h, n)' <=> At(h, n)
          /\ \A h \in Goroutines : At(h, n) => h # g /\ pc'[h] = pc[h] /\ work'[h] = work[h]
          /\ Observed(n)' <=> Observed(n)
      <4>1. \A h \in Goroutines : /\ At(h, n)' <=> At(h, n)
                                  /\ At(h, n) => h # g
        BY <1>11, <2>4
      <4>2. QED
        BY <1>6, <4>1 DEF Observed
    <3>2. /\ text'[n] = text[n] /\ dirty'[n] = dirty[n]
          /\ dirtyText'[n] = dirtyText[n] /\ dirtyAttrs'[n] = dirtyAttrs[n]
      BY <1>8, <2>4
    <3>3. (Marked(n)' <=> Marked(n)) /\ (Clean(n)' <=> Clean(n))
      BY <1>1, <3>2 DEF Marked, Clean
    <3>4. Sent(n)' <=> Sent(n)
      BY <1>1, <1>10, <3>2, ChannelSame DEF Sent
    <3>5. SetterInv(n)'
      <4>1. \A h \in Goroutines : (pc'[h] = "text" /\ work'[h].node = n) <=> (pc[h] = "text" /\ work[h].node = n)
        BY <3>1 DEF At, ObserverPCs
      <4>2. \A h \in Goroutines : pc[h] = "text" /\ work[h].node = n => work'[h].version = work[h].version
        BY <3>1 DEF At, ObserverPCs
      <4>3. QED
        BY <1>1, <1>10, <2>1, <3>2, <4>1, <4>2 DEF SetterInv, OneSetter
    <3>6. MarkInv(n)'
      BY <1>1, <1>10, <2>1, <2>3, <3>1, <3>2 DEF MarkInv
    <3>7. FlushInv(n)'
      BY <1>1, <1>10, <2>1, <2>3, <3>1, <3>2, <3>3, <3>4 DEF FlushInv
    <3>8. HandlerInv(n)'
      <4>1. CASE g # Reader
        <5>1. pc'[Reader] = pc[Reader] /\ work'[Reader] = work[Reader]
          BY <1>3, <1>6, <4>1
        <5>2. QED
          BY <1>1, <1>10, <2>1, <2>3, <3>2, <3>3, <5>1 DEF HandlerInv
      <4>2. CASE g = Reader
        <5>1. /\ pc[Reader] \in ObserverPCs /\ work[Reader].node # n
              /\ pc'[Reader] \in ObserverPCs \cup {"handler"}
              /\ pc'[Reader] \in ObserverPCs => work'[Reader].node # n
          BY <1>6, <2>4, <4>2 DEF m, Caller
        <5>2. QED
          BY <1>1, <1>10, <2>1, <2>3, <3>2, <3>3, <5>1
             DEF HandlerInv, ObserverPCs, Flushing, Draining, Idle
      <4>3. QED
        BY <4>1, <4>2
    <3>9. QED
      BY <2>2, <3>5, <3>6, <3>7, <3>8
  <2>5. CASE n = m
    <3>1. n \notin raced' => /\ n \notin raced /\ n \notin todo
                             /\ n \in attributed => \A h \in Goroutines : h # g => ~At(h, n)
      BY <1>1, <2>5 DEF ObservedBy, At
    <3>2. n \notin attributed => dirtyAttrs[n] = 0
      BY <1>2 DEF WorkInv
    <3>3. n \notin raced' /\ pc[Reader] # "dead" =>
              /\ pc[g] = "dirtyText" => dirty[n]
              /\ pc[g] = "dirtyAttrs" => v = text[n]
              /\ pc[g] = "dirty" /\ n \in attributed => dirtyAttrs[n] = text[n]
      BY <1>11, <2>1, <2>5, <3>1 DEF MarkInv, v
    <3>4. SetterInv(n)'
      <4>1. SUFFICES ASSUME OneSetter(n), pc[Reader] # "dead" PROVE SetterInv(n)'
        BY <1>10 DEF SetterInv, OneSetter
      <4>2. \A h \in Goroutines : At(h, n) => h = g
        BY <1>2, <1>9, <2>5, <4>1 DEF OneSetter, WorkInv, At
      <4>3. \A h \in Goroutines : pc[h] = "text" /\ work[h].node = n => h = g
        BY <4>2 DEF At, ObserverPCs
      <4>4. /\ pc[g] = "text" => v = signal[n]
            /\ pc[g] # "text" => text[n] = signal[n]
        BY <2>1, <2>5, <4>1, <4>3 DEF SetterInv, m, v
      <4>5. pc'[g] # "text"
        BY <1>7 DEF Caller, Idle
      <4>6. \A h \in Goroutines : ~(pc'[h] = "text" /\ work'[h].node = n)
        BY <1>6, <4>3, <4>5
      <4>7. text'[n] = signal'[n]
        BY <1>1, <1>7, <2>5, <4>4
      <4>8. QED
        BY <4>6, <4>7 DEF SetterInv
    <3>5. MarkInv(n)'
      <4>1. SUFFICES ASSUME n \notin raced', pc[Reader] # "dead" PROVE MarkInv(n)'
        BY <1>10 DEF MarkInv
      <4>2. ASSUME NEW h \in Goroutines, h # g, At(h, n)'
            PROVE  /\ pc'[h] = "dirtyText" => dirty'[n]
                   /\ pc'[h] # "dirtyAttrs" /\ n \notin attributed'
        <5>1. At(h, n) /\ n \notin attributed /\ pc'[h] = pc[h]
          BY <1>6, <1>11, <3>1, <4>1, <4>2
        <5>2. pc[h] # "dirtyAttrs"
          BY <1>2, <5>1 DEF WorkInv, At
        <5>3. pc[h] = "dirtyText" => dirty[n]
          BY <2>1, <3>1, <4>1, <5>1 DEF MarkInv
        <5>4. dirty[n] => dirty'[n]
          BY <1>7, <2>5
        <5>5. QED
          BY <1>1, <5>1, <5>2, <5>3, <5>4
      <4>3. /\ pc'[g] = "dirtyText" => dirty'[n]
            /\ pc'[g] = "dirtyAttrs" => v = text'[n]
            /\ pc'[g] = "dirty" /\ n \in attributed => dirtyAttrs'[n] = text'[n]
        BY <1>7, <2>5, <3>3, <4>1 DEF Caller, Idle
      <4>4. dirtyAttrs'[n] # 0 => dirtyAttrs'[n] = text'[n] \/ pc'[g] = "dirtyAttrs"
        BY <1>7, <1>9, <2>5, <3>2, <3>3, <4>1
      <4>5. pc'[g] = "dirtyAttrs" => At(g, n)'
        BY <1>11, <2>5 DEF ObserverPCs
      <4>6. pc'[g] \in ObserverPCs => work'[g].version = v
        BY <1>6 DEF v
      <4>7. \A h \in Goroutines : At(h, n)' =>
                 /\ pc'[h] = "dirtyText" => dirty'[n]
                 /\ pc'[h] = "dirtyAttrs" => work'[h].version = text'[n]
                 /\ pc'[h] = "dirty" /\ n \in attributed' => dirtyAttrs'[n] = text'[n]
        BY <1>1, <4>2, <4>3, <4>6 DEF ObserverPCs
      <4>8. dirtyAttrs'[n] # 0 => \/ dirtyAttrs'[n] = text'[n]
                                  \/ \E h \in Goroutines : At(h, n)' /\ pc'[h] = "dirtyAttrs"
        BY <4>4, <4>5
      <4>9. QED
        BY <4>7, <4>8 DEF MarkInv
    <3>6. ASSUME n \notin raced', pc[Reader] # "dead" PROVE Observed(n)' \/ Marked(n)'
      <4>1. CASE pc'[g] \in ObserverPCs
        BY <1>11, <2>5, <4>1 DEF Observed
      <4>2. CASE pc'[g] \notin ObserverPCs
        <5>1. \/ pc[g] = "dirty" /\ n \in attributed
              \/ pc[g] = "dirtyText" /\ n \notin attributed
          BY <1>7, <1>9, <2>5, <4>2 DEF ObserverPCs
        <5>2. CASE pc[g] = "dirty" /\ n \in attributed
          <6>1. dirty'[n] = TRUE /\ dirtyAttrs'[n] = text'[n]
            BY <1>7, <2>5, <3>3, <3>6, <5>2
          <6>2. QED
            BY <1>1, <5>2, <6>1 DEF Marked
        <5>3. CASE pc[g] = "dirtyText" /\ n \notin attributed
          <6>1. dirty'[n] = dirty[n] /\ dirtyText'[n] = TRUE /\ dirty[n]
            BY <1>7, <2>5, <3>3, <3>6, <5>3
          <6>2. QED
            BY <1>1, <5>3, <6>1 DEF Marked
        <5>4. QED
          BY <5>1, <5>2, <5>3
      <4>3. QED
        BY <4>1, <4>2
    <3>7. FlushInv(n)'
      <4>1. n \in todo' /\ n \in DOMAIN updates' => n = Current' /\ pc'[Reader] # "drain"
        BY <1>1, <1>10, <2>1, <2>3 DEF FlushInv
      <4>2. Flushing \/ Mounted => pc[Reader] # "dead"
        BY DEF Flushing, Draining, Mounted
      <4>3. pc[Reader] \in {"clear", "clearDirty"} /\ n = Current => n \in todo
        BY <1>2, CurrentTodo DEF Draining
      <4>4. ASSUME n \notin raced'
            PROVE  /\ Flushing' /\ n \in DOMAIN updates' => n \notin todo' /\ (Observed(n)' \/ Marked(n)')
                   /\ ~(pc'[Reader] \in {"clear", "clearDirty"} /\ n = Current')
                   /\ Mounted' => Observed(n)' \/ Marked(n)'
        BY <1>1, <1>10, <2>3, <3>1, <3>6, <4>2, <4>3, <4>4
      <4>5. QED
        BY <4>1, <4>4 DEF FlushInv
    <3>8. HandlerInv(n)'
      <4>1. CASE g # Reader
        <5>1. n \notin ReaderOnly
          BY <1>9, <2>5, <4>1 DEF ReaderOnly, Goroutines
        <5>2. QED
          BY <2>3, <5>1 DEF HandlerInv
      <4>2. CASE g = Reader
        <5>1. SUFFICES ASSUME n \in ReaderOnly, pc[Reader] # "dead" PROVE HandlerInv(n)'
          BY <1>10, <2>3 DEF HandlerInv
        <5>2. /\ dirtyText[n] \/ dirtyAttrs[n] # 0 => dirty[n] \/ pc[g] = "dirty"
              /\ pc[g] = "dirtyText" => dirty[n]
          BY <2>1, <2>5, <4>2, <5>1 DEF HandlerInv, m
        <5>3. dirtyText'[n] \/ dirtyAttrs'[n] # 0 => dirty'[n] \/ pc'[g] = "dirty"
          BY <1>7, <2>5, <5>2
        <5>4. pc'[g] = "dirtyText" => dirty'[n]
          BY <1>7, <2>5 DEF Caller, Idle
        <5>5. pc'[g] = "dirty" => work'[g].node = n
          BY <1>6, <2>5 DEF m, ObserverPCs
        <5>6. pc'[Reader] \in ObserverPCs \cup {"handler"}
          BY <1>6, <4>2 DEF Caller
        <5>7. pc'[Reader] \notin {"mount", Idle, "clear", "clearDirty", "drain", "write"}
          BY <5>6 DEF ObserverPCs, Idle
        <5>8. QED
          BY <4>2, <5>3, <5>4, <5>5, <5>7 DEF HandlerInv, Flushing, Draining
      <4>3. QED
        BY <4>1, <4>2
    <3>9. QED
      BY <2>2, <3>4, <3>5, <3>7, <3>8
  <2>6. QED
    BY <2>4, <2>5
<1>15. QED
  BY <1>12, <1>13, <1>14 DEF FlushingInv

(***************************************************************************)
(* The steps of the reader outside the loop over the dirty nodes.          *)
(***************************************************************************)

\* A step of the reader moves no observer: what they have come to stays true.
LEMMA ReaderMove ==
  ASSUME FlushingInv, pc[Reader] \notin ObserverPCs \cup {"dead"},
         NEW p \in {Idle, "handler", "collect", "drain", "clear", "clearDirty", "write"},
         pc' = [pc EXCEPT ![Reader] = p], UNCHANGED <<attributed, signal, text, work>>
  PROVE  /\ pc' \in [Goroutines -> {"mount", Idle, "dead"} \cup ObserverPCs \cup ReaderPCs]
         /\ pc'[Reader] = p /\ Mounted'
         /\ \A n, h : h \in Goroutines => (At(h, n)' <=> At(h, n))
         /\ \A n : Observed(n)' <=> Observed(n)
         /\ \A g \in Goroutines :
                /\ g # Reader => pc'[g] \in {Idle, "dead"} \cup ObserverPCs
                /\ pc'[g] \in ObserverPCs => /\ work'[g].node \in Sets[g]
                                             /\ work'[g].version > 0
                /\ pc'[g] = "dirtyAttrs" => work'[g].node \in attributed'
                /\ pc'[g] = "dirtyText" => work'[g].node \notin attributed'
         /\ \A n \in Nodes : SetterInv(n)'
         /\ \A n \in Nodes : /\ dirty'[n] = dirty[n] /\ dirtyAttrs'[n] = dirtyAttrs[n]
                             /\ n \in raced => n \in raced'
                             => MarkInv(n)'
<1>1. TypeOK /\ WorkInv /\ Reader \in Goroutines /\ DOMAIN pc = Goroutines
  BY Types DEF FlushingInv
<1>2. pc'[Reader] = p /\ \A h \in Goroutines : h # Reader => pc'[h] = pc[h]
  BY <1>1
<1>3. p \notin ObserverPCs \cup {"mount", "dead"} /\ ObserverPCs' = ObserverPCs
  BY DEF ObserverPCs, Idle
<1>4. pc' \in [Goroutines -> {"mount", Idle, "dead"} \cup ObserverPCs \cup ReaderPCs]
  BY <1>1 DEF TypeOK, ReaderPCs
<1>5. \A n, h : h \in Goroutines => (At(h, n)' <=> At(h, n))
  BY <1>2, <1>3 DEF At
<1>6. \A n : Observed(n)' <=> Observed(n)
  BY <1>5 DEF Observed
<1>7. \A n, h : h \in Goroutines /\ At(h, n) => pc'[h] = pc[h]
  BY <1>2 DEF At
<1>8. \A n \in Nodes : SetterInv(n)'
  <2>1. TAKE n \in Nodes
  <2>2. SUFFICES ASSUME OneSetter(n) PROVE SetterInv(n)'
    BY DEF SetterInv, OneSetter
  <2>3. SetterInv(n)
    BY DEF FlushingInv
  <2>4. \A h \in Goroutines : pc'[h] = "text" <=> pc[h] = "text"
    BY <1>2, <1>3 DEF ObserverPCs
  <2>5. QED
    BY <2>2, <2>3, <2>4 DEF SetterInv
<1>9. ASSUME NEW n \in Nodes, dirty'[n] = dirty[n], dirtyAttrs'[n] = dirtyAttrs[n],
             n \in raced => n \in raced'
      PROVE  MarkInv(n)'
  <2>1. SUFFICES ASSUME n \notin raced PROVE MarkInv(n)'
    BY <1>9 DEF MarkInv
  <2>2. MarkInv(n)
    BY DEF FlushingInv
  <2>3. QED
    BY <1>5, <1>7, <1>9, <2>1, <2>2 DEF MarkInv
<1>10. \A g \in Goroutines :
           /\ g # Reader => pc'[g] \in {Idle, "dead"} \cup ObserverPCs
           /\ pc'[g] \in ObserverPCs => /\ work'[g].node \in Sets[g]
                                        /\ work'[g].version > 0
           /\ pc'[g] = "dirtyAttrs" => work'[g].node \in attributed'
           /\ pc'[g] = "dirtyText" => work'[g].node \notin attributed'
  <2>1. TAKE g \in Goroutines
  <2>2. CASE g = Reader
    BY <1>2, <1>3, <2>2 DEF ObserverPCs
  <2>3. CASE g # Reader
    BY <1>1, <1>2, <2>3 DEF WorkInv
  <2>4. QED
    BY <2>2, <2>3
<1>11. Mounted'
  BY <1>2, <1>3 DEF Mounted
<1>12. QED
  BY <1>2, <1>4, <1>5, <1>6, <1>8, <1>9, <1>10, <1>11

\* The tree is sent: it carries the present text of every node.
LEMMA MountStep ==
  ASSUME FlushingInv, Mount
  PROVE  FlushingInv'
<1>1. /\ pc[Reader] = "mount" /\ pc' = [pc EXCEPT ![Reader] = Idle]
      /\ channel' = Append(channel, [tree |-> TRUE, texts |-> text])
      /\ UNCHANGED <<signal, attributed, text, dirty, dirtyText, dirtyAttrs, work, todo, updates,
                     client, intents, panicked, raced, dropped, overtaken, crashed>>
  BY DEF Mount, Goto, nodeVars, flushVars, lossVars
<1>2. TypeOK /\ WorkInv
  BY DEF FlushingInv
<1> DEFINE f == [tree |-> TRUE, texts |-> text]
<1>3. text \in [Nodes -> Versions] /\ f \in Frames /\ f.texts = text /\ f.tree /\ DOMAIN text = Nodes
  <2>1. text \in [Nodes -> Versions] /\ text \in TextUpdates
    BY <1>2, UpdateTypes DEF TypeOK
  <2>2. QED
    BY <2>1 DEF Frames
<1>4. /\ \A i \in DOMAIN channel : \A n \in DOMAIN channel[i].texts : channel[i].texts[n] > 0
      /\ \A n \in DOMAIN f.texts : f.texts[n] > 0
  BY <1>2, <1>3 DEF WorkInv
<1>5. channel' = Append(channel, f) /\ client' = client
  BY <1>1
<1> HIDE DEF f
<1>6. /\ channel' \in Seq(Frames) /\ Len(channel') = Len(channel) + 1
      /\ channel'[Len(channel) + 1] = f
      /\ \A i \in DOMAIN channel' : \A n \in DOMAIN channel'[i].texts : channel'[i].texts[n] > 0
      /\ \A n \in DOMAIN f.texts : \A v : v = f.texts[n] => Latest(n, v)'
  BY <1>2, <1>3, <1>4, <1>5, ChannelSend
<1>7. pc[Reader] \notin ObserverPCs \cup {"dead"}
  BY <1>1 DEF ObserverPCs
<1>8. /\ pc' \in [Goroutines -> {"mount", Idle, "dead"} \cup ObserverPCs \cup ReaderPCs]
      /\ pc'[Reader] = Idle
      /\ \A g \in Goroutines :
             /\ g # Reader => pc'[g] \in {Idle, "dead"} \cup ObserverPCs
             /\ pc'[g] \in ObserverPCs => /\ work'[g].node \in Sets[g]
                                          /\ work'[g].version > 0
             /\ pc'[g] = "dirtyAttrs" => work'[g].node \in attributed'
             /\ pc'[g] = "dirtyText" => work'[g].node \notin attributed'
      /\ \A n \in Nodes : SetterInv(n)' /\ MarkInv(n)'
  BY <1>1, <1>7, ReaderMove
<1>9. todo = {}
  BY <1>1, <1>2 DEF TypeOK
<1>10. TypeOK'
  <2>1. (todo' = {}) = (pc'[Reader] \notin {"drain", "clear", "clearDirty"})
    BY <1>1, <1>8, <1>9 DEF Idle
  <2>2. QED
    BY <1>1, <1>2, <1>6, <1>8, <2>1 DEF TypeOK
<1>11. WorkInv'
  BY <1>1, <1>2, <1>6, <1>8 DEF WorkInv
<1>12. ASSUME NEW n \in Nodes PROVE TreeInv(n)' /\ FlushInv(n)' /\ HandlerInv(n)'
  <2>1. TreeInv(n) /\ FlushInv(n) /\ HandlerInv(n)
    BY DEF FlushingInv
  <2>2. TreeInv(n)'
    <3>1. SUFFICES ASSUME n \notin overtaken PROVE TreeInv(n)'
      BY <1>1 DEF TreeInv
    <3>2. channel = <<>>
      BY <1>1, <2>1, <3>1 DEF TreeInv
    <3>3. Len(channel') = 1 /\ channel'[1] = f
      BY <1>6, <3>2
    <3>4. Carries(1, n)' /\ \A j \in 1 .. 1 : ~(j < 1)
      BY <1>3, <3>3 DEF Carries
    <3>5. Oldest(1, n)' /\ channel'[1].tree /\ 1 \in 1 .. Len(channel')
      BY <1>3, <3>3, <3>4 DEF Oldest
    <3>6. pc'[Reader] # "mount"
      BY <1>8 DEF Idle
    <3>7. QED
      BY <3>5, <3>6 DEF TreeInv
  <2>3. FlushInv(n)'
    <3>1. \A v : v = text[n] => Latest(n, v)'
      BY <1>3, <1>6
    <3>2. Sent(n)'
      BY <1>1, <1>3, <3>1 DEF Sent
    <3>3. ~Flushing' /\ pc'[Reader] \notin {"clear", "clearDirty"} /\ n \notin todo'
      BY <1>1, <1>8, <1>9 DEF Flushing, Draining, Idle
    <3>4. QED
      BY <3>2, <3>3 DEF FlushInv
  <2>4. HandlerInv(n)'
    BY <1>1, <1>8, <2>1 DEF HandlerInv, Clean, Flushing, Draining, ReaderOnly, Idle
  <2>5. QED
    BY <2>2, <2>3, <2>4
<1>13. QED
  BY <1>8, <1>10, <1>11, <1>12 DEF FlushingInv

\* An intent is taken or ignored, or its handler is over; a panic sends a frame
\* without texts.
LEMMA IntentStep ==
  ASSUME FlushingInv, pc[Reader] \in {Idle, "handler"},
         NEW p \in {Idle, "handler", "collect"}, pc' = [pc EXCEPT ![Reader] = p],
         \/ channel' = channel
         \/ channel' = Append(channel, [tree |-> FALSE, texts |-> <<>>]),
         intents' \in 0 .. MaxIntents, panicked' \in BOOLEAN,
         p = Idle /\ ~panicked' => pc[Reader] = Idle /\ ~panicked,
         UNCHANGED <<signal, attributed, text, dirty, dirtyText, dirtyAttrs, work, todo, updates,
                     client, raced, dropped, overtaken, crashed>>
  PROVE  FlushingInv'
<1>1. TypeOK /\ WorkInv
  BY DEF FlushingInv
<1>2. pc[Reader] \notin ObserverPCs \cup {"dead"}
  BY DEF ObserverPCs, Idle
<1>3. /\ channel' \in Seq(Frames)
      /\ \A i \in DOMAIN channel' : \A n \in DOMAIN channel'[i].texts : channel'[i].texts[n] > 0
      /\ \A n, v : Latest(n, v) => Latest(n, v)'
      /\ \A n : (\E i \in 1 .. Len(channel) : Oldest(i, n) /\ channel[i].tree) =>
                (\E i \in 1 .. Len(channel') : Oldest(i, n)' /\ channel'[i].tree)
  <2>1. \A i \in DOMAIN channel : \A n \in DOMAIN channel[i].texts : channel[i].texts[n] > 0
    BY <1>1 DEF WorkInv
  <2>2. CASE channel' = channel
    <3>1. /\ \A n, v : Latest(n, v)' <=> Latest(n, v)
          /\ \A n, i : Oldest(i, n)' <=> Oldest(i, n)
      BY <2>2, ChannelSame
    <3>2. QED
      BY <1>1, <2>1, <2>2, <3>1 DEF TypeOK
  <2>3. CASE channel' = Append(channel, [tree |-> FALSE, texts |-> <<>>])
    <3> DEFINE f == [tree |-> FALSE, texts |-> <<>>]
    <3>1. f \in Frames /\ DOMAIN f.texts = {}
      BY UpdateTypes DEF Frames
    <3>2. channel' = Append(channel, f)
      BY <2>3
    <3> HIDE DEF f
    <3>3. /\ channel' \in Seq(Frames) /\ Len(channel') = Len(channel) + 1
          /\ \A i \in 1 .. Len(channel) : channel'[i] = channel[i]
          /\ \A i \in DOMAIN channel' : \A n \in DOMAIN channel'[i].texts : channel'[i].texts[n] > 0
          /\ \A n, v : Latest(n, v) => Latest(n, v)'
          /\ \A n : \A i \in 1 .. Len(channel) : Oldest(i, n) => Oldest(i, n)'
      BY <1>1, <2>1, <3>1, <3>2, ChannelSend
    <3>4. 1 .. Len(channel) \subseteq 1 .. Len(channel')
      BY <1>1, <3>3, Types
    <3>5. QED
      BY <3>3, <3>4
  <2>4. QED
    BY <2>2, <2>3
<1>4. /\ pc' \in [Goroutines -> {"mount", Idle, "dead"} \cup ObserverPCs \cup ReaderPCs]
      /\ pc'[Reader] = p
      /\ \A n : Observed(n)' <=> Observed(n)
      /\ \A g \in Goroutines :
             /\ g # Reader => pc'[g] \in {Idle, "dead"} \cup ObserverPCs
             /\ pc'[g] \in ObserverPCs => /\ work'[g].node \in Sets[g]
                                          /\ work'[g].version > 0
             /\ pc'[g] = "dirtyAttrs" => work'[g].node \in attributed'
             /\ pc'[g] = "dirtyText" => work'[g].node \notin attributed'
      /\ \A n \in Nodes : SetterInv(n)' /\ MarkInv(n)'
  BY <1>2, ReaderMove
<1>5. todo = {} /\ ~Flushing /\ ~Flushing' /\ Mounted /\ Mounted'
  BY <1>1, <1>4 DEF TypeOK, Flushing, Draining, Mounted, Idle
<1>6. TypeOK'
  <2>1. (todo' = {}) = (pc'[Reader] \notin {"drain", "clear", "clearDirty"})
    BY <1>4, <1>5 DEF Idle
  <2>2. QED
    BY <1>1, <1>3, <1>4, <2>1 DEF TypeOK
<1>7. WorkInv'
  BY <1>1, <1>3, <1>4 DEF WorkInv
<1>8. ASSUME NEW n \in Nodes PROVE TreeInv(n)' /\ FlushInv(n)' /\ HandlerInv(n)'
  <2>1. TreeInv(n) /\ FlushInv(n) /\ HandlerInv(n)
    BY DEF FlushingInv
  <2>2. TreeInv(n)'
    <3>1. pc'[Reader] # "mount"
      BY <1>4 DEF Idle
    <3>2. QED
      BY <1>3, <1>5, <2>1, <3>1 DEF TreeInv
  <2>3. FlushInv(n)'
    <3>1. Marked(n)' <=> Marked(n)
      BY DEF Marked
    <3>2. Sent(n) => Sent(n)'
      BY <1>3, <1>5 DEF Sent
    <3>3. pc'[Reader] \notin {"clear", "clearDirty"} /\ n \notin todo'
      BY <1>4, <1>5 DEF Idle
    <3>4. QED
      BY <1>4, <1>5, <2>1, <3>1, <3>2, <3>3 DEF FlushInv
  <2>4. HandlerInv(n)'
    <3>1. SUFFICES ASSUME n \in ReaderOnly PROVE HandlerInv(n)'
      BY DEF HandlerInv, ReaderOnly
    <3>2. /\ dirtyText[n] \/ dirtyAttrs[n] # 0 => dirty[n]
          /\ pc[Reader] = Idle /\ ~panicked => Clean(n)
      BY <1>2, <2>1, <3>1 DEF HandlerInv, ObserverPCs
    <3>3. Clean(n)' <=> Clean(n)
      BY DEF Clean
    <3>4. p \notin {"mount", "dirtyText", "clear", "clearDirty"}
      BY DEF Idle
    <3>5. QED
      BY <1>4, <1>5, <3>2, <3>3, <3>4 DEF HandlerInv
  <2>5. QED
    BY <2>2, <2>3, <2>4
<1>9. QED
  BY <1>4, <1>6, <1>7, <1>8 DEF FlushingInv

\* The dirty nodes are collected: there is no update yet, and a node that only
\* handlers change is clean unless it was found dirty.
LEMMA CollectDirtyStep ==
  ASSUME FlushingInv, CollectDirty
  PROVE  FlushingInv'
<1> DEFINE found == {n \in Nodes : dirty[n]}
           p == IF found = {} THEN Idle ELSE "drain"
<1>1. /\ pc[Reader] = "collect" /\ pc' = [pc EXCEPT ![Reader] = p]
      /\ todo' = found /\ updates' = <<>> /\ panicked' = FALSE
      /\ UNCHANGED <<signal, attributed, text, dirty, dirtyText, dirtyAttrs, work, channel,
                     client, intents, raced, dropped, overtaken, crashed>>
  BY DEF CollectDirty, Goto, nodeVars, clientVars, lossVars
<1>2. TypeOK /\ WorkInv
  BY DEF FlushingInv
<1>3. pc[Reader] \notin ObserverPCs \cup {"dead"}
  BY <1>1 DEF ObserverPCs
<1>4. /\ p \in {Idle, "handler", "collect", "drain", "clear", "clearDirty", "write"}
      /\ p \in {Idle, "drain"} /\ (p = Idle) = (found = {}) /\ found \subseteq Nodes
      /\ \A n \in Nodes : n \in found <=> dirty[n]
  BY DEF Idle
<1> HIDE DEF p, found
<1>5. /\ pc' \in [Goroutines -> {"mount", Idle, "dead"} \cup ObserverPCs \cup ReaderPCs]
      /\ pc'[Reader] = p /\ Mounted'
      /\ \A n : Observed(n)' <=> Observed(n)
      /\ \A g \in Goroutines :
             /\ g # Reader => pc'[g] \in {Idle, "dead"} \cup ObserverPCs
             /\ pc'[g] \in ObserverPCs => /\ work'[g].node \in Sets[g]
                                          /\ work'[g].version > 0
             /\ pc'[g] = "dirtyAttrs" => work'[g].node \in attributed'
             /\ pc'[g] = "dirtyText" => work'[g].node \notin attributed'
      /\ \A n \in Nodes : SetterInv(n)' /\ MarkInv(n)'
  BY <1>1, <1>3, <1>4, ReaderMove
<1>6. TypeOK'
  <2>1. (todo' = {}) = (pc'[Reader] \notin {"drain", "clear", "clearDirty"})
    BY <1>1, <1>4, <1>5 DEF Idle
  <2>2. updates' \in TextUpdates /\ todo' \subseteq Nodes /\ panicked' \in BOOLEAN
    BY <1>1, <1>4, UpdateTypes
  <2>3. QED
    BY <1>1, <1>2, <1>5, <2>1, <2>2 DEF TypeOK
<1>7. DOMAIN updates' = {}
  BY <1>1
<1>8. WorkInv'
  BY <1>1, <1>2, <1>5, <1>7 DEF WorkInv
<1>9. ASSUME NEW n \in Nodes PROVE TreeInv(n)' /\ FlushInv(n)' /\ HandlerInv(n)'
  <2>1. TreeInv(n) /\ FlushInv(n) /\ HandlerInv(n) /\ Mounted /\ ~Flushing
    BY <1>1 DEF FlushingInv, Mounted, Flushing, Draining
  <2>2. p \notin {"mount", "clear", "clearDirty", "dirtyText", "dirty", "write", "dead"}
    BY <1>4 DEF Idle
  <2>3. TreeInv(n)'
    BY <1>1, <1>5, <2>1, <2>2, ChannelSame DEF TreeInv
  <2>4. FlushInv(n)'
    <3>1. Marked(n)' <=> Marked(n)
      BY <1>1 DEF Marked
    <3>2. Sent(n) => Sent(n)'
      BY <1>1, <2>1, ChannelSame DEF Sent
    <3>3. QED
      BY <1>1, <1>5, <1>7, <2>1, <2>2, <3>1, <3>2 DEF FlushInv
  <2>5. HandlerInv(n)'
    <3>1. SUFFICES ASSUME n \in ReaderOnly PROVE HandlerInv(n)'
      BY DEF HandlerInv, ReaderOnly
    <3>2. dirtyText[n] \/ dirtyAttrs[n] # 0 => dirty[n]
      BY <1>1, <2>1, <3>1 DEF HandlerInv
    <3>3. n \notin found => Clean(n)'
      BY <1>1, <1>4, <3>2 DEF Clean
    <3>4. QED
      BY <1>1, <1>4, <1>5, <2>2, <3>2, <3>3 DEF HandlerInv
  <2>6. QED
    BY <2>3, <2>4, <2>5
<1>10. QED
  BY <1>5, <1>6, <1>8, <1>9 DEF FlushingInv

(***************************************************************************)
(* The loop over the dirty nodes.                                          *)
(***************************************************************************)

\* What the three steps have in common: a node that is not the current one keeps
\* its marks and its update, and so all it has; the current node is raced if it
\* is observed.
LEMMA DrainOthers ==
  ASSUME FlushingInv, Drain, NEW p \in {"drain", "clear", "clearDirty", "write"},
         pc' = [pc EXCEPT ![Reader] = p],
         UNCHANGED <<attributed, signal, text>>, NEW n \in Nodes, n # Current,
         /\ n \in todo' <=> n \in todo
         /\ p \in {"clear", "clearDirty"} => todo' = todo
         /\ dirty'[n] = dirty[n] /\ dirtyText'[n] = dirtyText[n] /\ dirtyAttrs'[n] = dirtyAttrs[n]
         /\ n \in DOMAIN updates' <=> n \in DOMAIN updates
         /\ n \in DOMAIN updates => updates'[n] = updates[n]
  PROVE  FlushInv(n)' /\ HandlerInv(n)'
<1>1. /\ UNCHANGED <<work, channel, client, intents, panicked, dropped, overtaken, crashed>>
      /\ raced' = raced \cup ({Current} \cap ObservedBy(Goroutines))
      /\ pc[Reader] \in {"drain", "clear", "clearDirty"}
  BY DEF Drain, Collect, Clear, ClearDirty, Goto, clientVars
<1>2. TypeOK /\ FlushInv(n) /\ HandlerInv(n)
  BY DEF FlushingInv
<1>3. pc[Reader] \notin ObserverPCs \cup {"dead"} /\ Flushing /\ Mounted
  BY <1>1 DEF ObserverPCs, Flushing, Draining, Mounted
<1>4. pc'[Reader] = p /\ Mounted' /\ (Observed(n)' <=> Observed(n))
  BY <1>1, <1>3, ReaderMove
<1>5. Flushing' /\ (n \in raced' <=> n \in raced) /\ (n \in todo' <=> n \in todo)
  BY <1>1, <1>4 DEF Flushing, Draining
<1>6. (Marked(n)' <=> Marked(n)) /\ (Clean(n)' <=> Clean(n))
  BY DEF Marked, Clean
<1>7. Sent(n) => Sent(n)'
  BY <1>1, <1>3, <1>5, ChannelSame DEF Sent
<1>8. p \in {"clear", "clearDirty"} => Current' = Current
  BY DEF Current
<1>9. FlushInv(n)'
  <2>1. ~(n \in todo' /\ n \in DOMAIN updates')
    BY <1>2, <1>5 DEF FlushInv
  <2>2. QED
    BY <1>2, <1>3, <1>4, <1>5, <1>6, <1>7, <1>8, <2>1 DEF FlushInv
<1>10. HandlerInv(n)'
  <2>1. SUFFICES ASSUME n \in ReaderOnly PROVE HandlerInv(n)'
    BY DEF HandlerInv, ReaderOnly
  <2>2. /\ dirtyText[n] \/ dirtyAttrs[n] # 0 => dirty[n]
        /\ n \notin todo => Clean(n)
    BY <1>1, <1>2, <1>3, <2>1 DEF HandlerInv
  <2>3. p \notin {"mount", Idle, "dirtyText"}
    BY DEF Idle
  <2>4. QED
    BY <1>4, <1>5, <1>6, <1>8, <2>2, <2>3 DEF HandlerInv
<1>11. QED
  BY <1>9, <1>10

\* The current node is not observed unless it is raced, and is one of the tree.
LEMMA DrainCurrent ==
  ASSUME FlushingInv, Drain
  PROVE  /\ UNCHANGED <<work, channel, client, intents, panicked, dropped, overtaken, crashed>>
         /\ pc[Reader] \in {"drain", "clear", "clearDirty"}
         /\ Current \in todo /\ Current \in Nodes
         /\ \A n : n \in raced => n \in raced'
         /\ raced' \subseteq Nodes
         /\ Current \notin raced' => Current \notin raced /\ \A g \in Goroutines : ~At(g, Current)
<1>1. /\ UNCHANGED <<work, channel, client, intents, panicked, dropped, overtaken, crashed>>
      /\ raced' = raced \cup ({Current} \cap ObservedBy(Goroutines))
      /\ pc[Reader] \in {"drain", "clear", "clearDirty"}
  BY DEF Drain, Collect, Clear, ClearDirty, Goto, clientVars
<1>2. TypeOK
  BY DEF FlushingInv
<1>3. Current \in todo /\ Current \in Nodes
  BY <1>1, <1>2, CurrentTodo DEF Draining
<1>4. raced' \subseteq Nodes
  BY <1>1, <1>2, <1>3 DEF TypeOK
<1>5. Current \notin raced' => Current \notin raced /\ \A g \in Goroutines : ~At(g, Current)
  BY <1>1 DEF ObservedBy, At
<1>6. QED
  BY <1>1, <1>3, <1>4, <1>5

\* The value is collected: it is the text, or there was none to collect.
LEMMA CollectStep ==
  ASSUME FlushingInv, Drain, Collect
  PROVE  FlushingInv'
<1> DEFINE c == Current
<1>1. /\ pc[Reader] = "drain" /\ pc' = [pc EXCEPT ![Reader] = "clear"]
      /\ UNCHANGED <<signal, attributed, text, dirty, dirtyText, dirtyAttrs, todo>>
      /\ updates' = IF Found(c) = 0 THEN updates
                    ELSE [n \in DOMAIN updates \cup {c} |-> IF n = c THEN Found(n) ELSE updates[n]]
  BY DEF Collect, Goto, nodeVars
<1>2. TypeOK /\ WorkInv
  BY DEF FlushingInv
<1>3. /\ UNCHANGED <<work, channel, client, intents, panicked, dropped, overtaken, crashed>>
      /\ c \in todo /\ c \in Nodes /\ raced' \subseteq Nodes
      /\ \A n : n \in raced => n \in raced'
      /\ c \notin raced' => c \notin raced /\ \A g \in Goroutines : ~At(g, c)
  BY DrainCurrent
<1>4. pc[Reader] \notin ObserverPCs \cup {"dead"}
  BY <1>1 DEF ObserverPCs
<1>5. /\ pc' \in [Goroutines -> {"mount", Idle, "dead"} \cup ObserverPCs \cup ReaderPCs]
      /\ pc'[Reader] = "clear" /\ Mounted'
      /\ \A n : Observed(n)' <=> Observed(n)
      /\ \A g \in Goroutines :
             /\ g # Reader => pc'[g] \in {Idle, "dead"} \cup ObserverPCs
             /\ pc'[g] \in ObserverPCs => /\ work'[g].node \in Sets[g]
                                          /\ work'[g].version > 0
             /\ pc'[g] = "dirtyAttrs" => work'[g].node \in attributed'
             /\ pc'[g] = "dirtyText" => work'[g].node \notin attributed'
      /\ \A n \in Nodes : SetterInv(n)' /\ MarkInv(n)'
  BY <1>1, <1>3, <1>4, ReaderMove
<1>6. Found(c) \in Versions /\ Found(c) \in Nat
  <2>1. text[c] \in Versions /\ dirtyAttrs[c] \in Versions /\ Versions \subseteq Nat /\ 0 \in Versions
    BY <1>2, <1>3, Types, SessionAssumption DEF Versions
  <2>2. QED
    BY <2>1 DEF Found
<1>7. DOMAIN updates \subseteq Nodes /\ \A n \in DOMAIN updates : updates[n] \in Versions
  BY <1>2, UpdateTypes DEF TypeOK
<1>8. c \notin DOMAIN updates
  BY <1>1, <1>3 DEF FlushingInv, FlushInv
<1> HIDE DEF c
<1>9. /\ Found(c) = 0 => updates' = updates
      /\ Found(c) # 0 => c \in DOMAIN updates' /\ updates'[c] = Found(c)
      /\ \A n : n # c => (n \in DOMAIN updates' <=> n \in DOMAIN updates)
      /\ \A n \in DOMAIN updates : n # c => updates'[n] = updates[n]
  BY <1>1
<1>10. updates' \in TextUpdates /\ \A n \in DOMAIN updates' : updates'[n] > 0
  <2>1. CASE Found(c) = 0
    BY <1>2, <1>9, <2>1 DEF TypeOK, WorkInv
  <2>2. CASE Found(c) # 0
    <3> DEFINE S == DOMAIN updates \cup {c}
    <3>1. S \in SUBSET Nodes
      BY <1>3, <1>7
    <3>2. updates' \in [S -> Versions]
      BY <1>1, <1>6, <1>7, <2>2
    <3>3. updates' \in TextUpdates
      BY <3>1, <3>2, UpdateTypes
    <3>4. \A n \in DOMAIN updates' : updates'[n] > 0
      <4>1. TAKE n \in DOMAIN updates'
      <4>2. CASE n = c
        BY <1>6, <1>9, <2>2, <4>2
      <4>3. CASE n # c
        BY <1>2, <1>9, <4>3 DEF WorkInv
      <4>4. QED
        BY <4>2, <4>3
    <3>5. QED
      BY <3>3, <3>4
  <2>3. QED
    BY <2>1, <2>2
<1>11. TypeOK'
  <2>1. (todo' = {}) = (pc'[Reader] \notin {"drain", "clear", "clearDirty"})
    BY <1>1, <1>3, <1>5
  <2>2. raced' \cup dropped' \cup overtaken' \cup crashed' \subseteq Nodes
    BY <1>2, <1>3 DEF TypeOK
  <2>3. QED
    BY <1>1, <1>2, <1>3, <1>5, <1>10, <2>1, <2>2 DEF TypeOK
<1>12. WorkInv'
  BY <1>1, <1>2, <1>3, <1>5, <1>10 DEF WorkInv
<1>13. Current' = c /\ Current = c
  BY <1>1 DEF Current, c
<1>14. ASSUME NEW n \in Nodes PROVE TreeInv(n)' /\ FlushInv(n)' /\ HandlerInv(n)'
  <2>1. TreeInv(n) /\ FlushInv(n) /\ HandlerInv(n) /\ Mounted
    BY <1>1 DEF FlushingInv, Mounted
  <2>2. TreeInv(n)'
    BY <1>3, <1>5, <2>1, ChannelSame DEF TreeInv
  <2>3. CASE n # c
    <3>1. FlushInv(n)' /\ HandlerInv(n)'
      <4>1. n # Current /\ UNCHANGED <<attributed, signal, text>>
        BY <1>1, <1>13, <2>3
      <4>2. /\ n \in todo' <=> n \in todo
            /\ "clear" \in {"clear", "clearDirty"} => todo' = todo
            /\ dirty'[n] = dirty[n] /\ dirtyText'[n] = dirtyText[n] /\ dirtyAttrs'[n] = dirtyAttrs[n]
            /\ n \in DOMAIN updates' <=> n \in DOMAIN updates
            /\ n \in DOMAIN updates => updates'[n] = updates[n]
        BY <1>1, <1>9, <2>3
      <4>3. "clear" \in {"drain", "clear", "clearDirty", "write"}
        OBVIOUS
      <4>4. QED
        BY <1>1, <4>1, <4>2, <4>3, DrainOthers, Zenon
    <3>2. QED
      BY <2>2, <3>1
  <2>4. CASE n = c
    <3>1. Flushing' /\ Flushing
      BY <1>1, <1>5 DEF Flushing, Draining
    <3>2. n \notin attributed /\ dirtyText[n] => n \in DOMAIN updates'
      <4>1. text[n] # 0
        BY <1>2 DEF WorkInv
      <4>2. QED
        BY <1>9, <2>4, <4>1 DEF Found
    <3>3. ASSUME n \notin raced'
          PROVE  /\ n \in DOMAIN updates' => updates'[n] = text'[n]
                 /\ Sent(n)'
      <4>1. n \notin raced /\ \A g \in Goroutines : ~At(g, n)
        BY <1>3, <2>4, <3>3
      <4>2. CASE Found(n) # 0
        <5>1. Found(n) = text[n]
          BY <1>4, <2>4, <4>1, <4>2 DEF FlushingInv, MarkInv, Found
        <5>2. n \in DOMAIN updates' /\ updates'[n] = text'[n]
          BY <1>1, <1>9, <2>4, <4>2, <5>1
        <5>3. QED
          BY <3>1, <5>2 DEF Sent
      <4>3. CASE Found(n) = 0
        <5>1. text[n] # 0
          BY <1>2 DEF WorkInv
        <5>2. ~Marked(n) /\ ~Observed(n)
          BY <4>1, <4>3, <5>1 DEF Marked, Observed, Found
        <5>3. Sent(n)
          BY <2>1, <4>1, <5>2 DEF FlushInv
        <5>4. updates' = updates
          BY <1>9, <2>4, <4>3
        <5>5. Sent(n)'
          BY <1>1, <1>3, <3>1, <5>3, <5>4, ChannelSame DEF Sent
        <5>6. n \notin DOMAIN updates'
          BY <1>8, <2>4, <5>4
        <5>7. QED
          BY <5>5, <5>6
      <4>4. QED
        BY <4>2, <4>3
    <3>4. FlushInv(n)'
      BY <1>5, <1>13, <2>4, <3>3 DEF FlushInv
    <3>5. HandlerInv(n)'
      <4>1. SUFFICES ASSUME n \in ReaderOnly PROVE HandlerInv(n)'
        BY DEF HandlerInv, ReaderOnly
      <4>2. dirtyText[n] \/ dirtyAttrs[n] # 0 => dirty[n]
        BY <1>1, <1>4, <2>1, <4>1 DEF HandlerInv
      <4>3. dirtyText[n] => n \in DOMAIN updates'
        BY <1>2, <3>2 DEF WorkInv
      <4>4. n \in todo'
        BY <1>1, <1>3, <2>4
      <4>5. QED
        BY <1>1, <1>5, <4>2, <4>3, <4>4 DEF HandlerInv, Idle
    <3>6. QED
      BY <2>2, <3>4, <3>5
  <2>5. QED
    BY <2>3, <2>4
<1>15. QED
  BY <1>5, <1>11, <1>12, <1>14 DEF FlushingInv

\* The marks of what was collected are cleared.
LEMMA ClearStep ==
  ASSUME FlushingInv, Drain, Clear
  PROVE  FlushingInv'
<1> DEFINE c == Current
<1>1. /\ pc[Reader] = "clear" /\ pc' = [pc EXCEPT ![Reader] = "clearDirty"]
      /\ dirtyText' = [dirtyText EXCEPT ![c] = @ /\ c \notin DOMAIN updates]
      /\ dirtyAttrs' = [dirtyAttrs EXCEPT ![c] = 0]
      /\ UNCHANGED <<signal, attributed, text, dirty, todo, updates>>
  BY DEF Clear, Goto, flushVars
<1>2. TypeOK /\ WorkInv
  BY DEF FlushingInv
<1>3. /\ UNCHANGED <<work, channel, client, intents, panicked, dropped, overtaken, crashed>>
      /\ c \in todo /\ c \in Nodes /\ raced' \subseteq Nodes
      /\ \A n : n \in raced => n \in raced'
      /\ c \notin raced' => c \notin raced /\ \A g \in Goroutines : ~At(g, c)
  BY DrainCurrent
<1>4. pc[Reader] \notin ObserverPCs \cup {"dead"}
  BY <1>1 DEF ObserverPCs
<1>5. /\ pc' \in [Goroutines -> {"mount", Idle, "dead"} \cup ObserverPCs \cup ReaderPCs]
      /\ pc'[Reader] = "clearDirty" /\ Mounted'
      /\ \A n : Observed(n)' <=> Observed(n)
      /\ \A g \in Goroutines :
             /\ g # Reader => pc'[g] \in {Idle, "dead"} \cup ObserverPCs
             /\ pc'[g] \in ObserverPCs => /\ work'[g].node \in Sets[g]
                                          /\ work'[g].version > 0
             /\ pc'[g] = "dirtyAttrs" => work'[g].node \in attributed'
             /\ pc'[g] = "dirtyText" => work'[g].node \notin attributed'
      /\ \A n \in Nodes : SetterInv(n)'
      /\ \A n \in Nodes : /\ dirty'[n] = dirty[n] /\ dirtyAttrs'[n] = dirtyAttrs[n]
                          /\ n \in raced => n \in raced'
                          => MarkInv(n)'
      /\ \A n, h : h \in Goroutines => (At(h, n)' <=> At(h, n))
  BY <1>1, <1>3, <1>4, ReaderMove
<1> HIDE DEF c
<1>6. /\ dirtyText' \in [Nodes -> BOOLEAN] /\ dirtyAttrs' \in [Nodes -> Versions]
      /\ dirtyText'[c] = (dirtyText[c] /\ c \notin DOMAIN updates) /\ dirtyAttrs'[c] = 0
      /\ \A n \in Nodes : n # c => dirtyText'[n] = dirtyText[n] /\ dirtyAttrs'[n] = dirtyAttrs[n]
  <2>1. dirtyText \in [Nodes -> BOOLEAN] /\ dirtyAttrs \in [Nodes -> Versions] /\ 0 \in Versions
    BY <1>2, SessionAssumption DEF TypeOK, Versions
  <2>2. dirtyText[c] \in BOOLEAN /\ (dirtyText[c] /\ c \notin DOMAIN updates) \in BOOLEAN
    BY <1>3, <2>1, Zenon
  <2>3. QED
    BY <1>1, <1>3, <2>1, <2>2
<1>7. TypeOK'
  <2>1. (todo' = {}) = (pc'[Reader] \notin {"drain", "clear", "clearDirty"})
    BY <1>1, <1>3, <1>5
  <2>2. raced' \cup dropped' \cup overtaken' \cup crashed' \subseteq Nodes
    BY <1>2, <1>3 DEF TypeOK
  <2>3. QED
    BY <1>1, <1>2, <1>3, <1>5, <1>6, <2>1, <2>2 DEF TypeOK
<1>8. WorkInv'
  <2>1. \A n \in Nodes : /\ signal'[n] > 0 /\ text'[n] > 0
                         /\ n \in attributed' => ~dirtyText'[n]
                         /\ n \notin attributed' => dirtyAttrs'[n] = 0
    BY <1>1, <1>2, <1>6 DEF WorkInv
  <2>2. QED
    BY <1>1, <1>2, <1>3, <1>5, <2>1 DEF WorkInv
<1>9. Current' = c /\ Current = c
  BY <1>1 DEF Current, c
<1>10. ASSUME NEW n \in Nodes PROVE MarkInv(n)' /\ TreeInv(n)' /\ FlushInv(n)' /\ HandlerInv(n)'
  <2>1. TreeInv(n) /\ FlushInv(n) /\ HandlerInv(n) /\ MarkInv(n) /\ Mounted
    BY <1>1 DEF FlushingInv, Mounted
  <2>2. TreeInv(n)'
    BY <1>3, <1>5, <2>1, ChannelSame DEF TreeInv
  <2>3. CASE n # c
    <3>1. MarkInv(n)'
      BY <1>1, <1>3, <1>5, <1>6, <2>3
    <3>2. FlushInv(n)' /\ HandlerInv(n)'
      <4>1. n # Current /\ UNCHANGED <<attributed, signal, text>>
        BY <1>1, <1>9, <2>3
      <4>2. /\ n \in todo' <=> n \in todo
            /\ "clearDirty" \in {"clear", "clearDirty"} => todo' = todo
            /\ dirty'[n] = dirty[n] /\ dirtyText'[n] = dirtyText[n] /\ dirtyAttrs'[n] = dirtyAttrs[n]
            /\ n \in DOMAIN updates' <=> n \in DOMAIN updates
            /\ n \in DOMAIN updates => updates'[n] = updates[n]
        BY <1>1, <1>6, <2>3
      <4>3. "clearDirty" \in {"drain", "clear", "clearDirty", "write"}
        OBVIOUS
      <4>4. QED
        BY <1>1, <4>1, <4>2, <4>3, DrainOthers, Zenon
    <3>3. QED
      BY <2>2, <3>1, <3>2
  <2>4. CASE n = c
    <3>1. Flushing' /\ Flushing
      BY <1>1, <1>5 DEF Flushing, Draining
    <3>2. MarkInv(n)'
      BY <1>3, <1>5, <1>6, <2>4 DEF MarkInv
    <3>3. ASSUME n \notin raced'
          PROVE  /\ n \in DOMAIN updates' => updates'[n] = text'[n]
                 /\ Sent(n)'
      <4>1. n \notin raced /\ n \in todo
        BY <1>3, <2>4, <3>3
      <4>2. Sent(n) /\ (n \in DOMAIN updates => updates[n] = text[n])
        BY <1>1, <1>9, <2>1, <2>4, <3>1, <4>1 DEF FlushInv
      <4>3. Sent(n)'
        BY <1>1, <1>3, <3>1, <4>2, ChannelSame DEF Sent
      <4>4. QED
        BY <1>1, <4>2, <4>3
    <3>4. FlushInv(n)'
      BY <1>5, <1>9, <2>4, <3>3 DEF FlushInv
    <3>5. HandlerInv(n)'
      <4>1. SUFFICES ASSUME n \in ReaderOnly PROVE HandlerInv(n)'
        BY DEF HandlerInv, ReaderOnly
      <4>2. /\ dirtyText[n] \/ dirtyAttrs[n] # 0 => dirty[n]
            /\ dirtyText[n] => n \in DOMAIN updates
        BY <1>1, <1>4, <1>9, <2>1, <2>4, <4>1 DEF HandlerInv
      <4>3. ~dirtyText'[n] /\ dirtyAttrs'[n] = 0
        BY <1>6, <2>4, <4>2
      <4>4. n \in todo'
        BY <1>1, <1>3, <2>4
      <4>5. QED
        BY <1>5, <4>3, <4>4 DEF HandlerInv, Idle
    <3>6. QED
      BY <2>2, <3>2, <3>4, <3>5
  <2>5. QED
    BY <2>3, <2>4
<1>11. QED
  BY <1>5, <1>7, <1>8, <1>10 DEF FlushingInv

\* The flag of the node is cleared, and the loop goes on to the next one.
LEMMA ClearDirtyStep ==
  ASSUME FlushingInv, Drain, ClearDirty
  PROVE  FlushingInv'
<1> DEFINE c == Current
           p == IF todo = {c} THEN "write" ELSE "drain"
<1>1. /\ pc[Reader] = "clearDirty" /\ pc' = [pc EXCEPT ![Reader] = p]
      /\ dirty' = [dirty EXCEPT ![c] = FALSE] /\ todo' = todo \ {c}
      /\ UNCHANGED <<signal, attributed, text, dirtyText, dirtyAttrs, updates>>
  BY DEF ClearDirty, Goto
<1>2. TypeOK /\ WorkInv
  BY DEF FlushingInv
<1>3. /\ UNCHANGED <<work, channel, client, intents, panicked, dropped, overtaken, crashed>>
      /\ c \in todo /\ c \in Nodes /\ raced' \subseteq Nodes
      /\ \A n : n \in raced => n \in raced'
      /\ c \notin raced' => c \notin raced /\ \A g \in Goroutines : ~At(g, c)
  BY DrainCurrent
<1>4. pc[Reader] \notin ObserverPCs \cup {"dead"}
  BY <1>1 DEF ObserverPCs
<1>5. /\ p \in {"write", "drain"} /\ (p = "write") = (todo \ {c} = {})
      /\ p \in {Idle, "handler", "collect", "drain", "clear", "clearDirty", "write"}
  BY <1>3
<1> HIDE DEF p
<1>6. /\ pc' \in [Goroutines -> {"mount", Idle, "dead"} \cup ObserverPCs \cup ReaderPCs]
      /\ pc'[Reader] = p /\ Mounted'
      /\ \A n : Observed(n)' <=> Observed(n)
      /\ \A g \in Goroutines :
             /\ g # Reader => pc'[g] \in {Idle, "dead"} \cup ObserverPCs
             /\ pc'[g] \in ObserverPCs => /\ work'[g].node \in Sets[g]
                                          /\ work'[g].version > 0
             /\ pc'[g] = "dirtyAttrs" => work'[g].node \in attributed'
             /\ pc'[g] = "dirtyText" => work'[g].node \notin attributed'
      /\ \A n \in Nodes : SetterInv(n)'
      /\ \A n \in Nodes : /\ dirty'[n] = dirty[n] /\ dirtyAttrs'[n] = dirtyAttrs[n]
                          /\ n \in raced => n \in raced'
                          => MarkInv(n)'
      /\ \A n, h : h \in Goroutines => (At(h, n)' <=> At(h, n))
  BY <1>1, <1>3, <1>4, <1>5, ReaderMove
<1> HIDE DEF c
<1>7. /\ dirty' \in [Nodes -> BOOLEAN] /\ dirty'[c] = FALSE
      /\ \A n \in Nodes : n # c => dirty'[n] = dirty[n]
  BY <1>1, <1>2, <1>3 DEF TypeOK
<1>8. TypeOK'
  <2>1. (todo' = {}) = (pc'[Reader] \notin {"drain", "clear", "clearDirty"})
    BY <1>1, <1>5, <1>6
  <2>2. raced' \cup dropped' \cup overtaken' \cup crashed' \subseteq Nodes
    BY <1>2, <1>3 DEF TypeOK
  <2>3. todo' \subseteq Nodes
    BY <1>1, <1>2 DEF TypeOK
  <2>4. QED
    BY <1>1, <1>2, <1>3, <1>6, <1>7, <2>1, <2>2, <2>3 DEF TypeOK
<1>9. WorkInv'
  BY <1>1, <1>2, <1>3, <1>6 DEF WorkInv
<1>10. Current = c
  BY DEF c
<1>11. ASSUME NEW n \in Nodes PROVE MarkInv(n)' /\ TreeInv(n)' /\ FlushInv(n)' /\ HandlerInv(n)'
  <2>1. TreeInv(n) /\ FlushInv(n) /\ HandlerInv(n) /\ MarkInv(n) /\ Mounted
    BY <1>1 DEF FlushingInv, Mounted
  <2>2. p \notin {"mount", Idle, "dirtyText", "dirty", "clear", "clearDirty"}
    BY <1>5 DEF Idle
  <2>3. TreeInv(n)'
    BY <1>3, <1>6, <2>1, <2>2, ChannelSame DEF TreeInv
  <2>4. CASE n # c
    <3>1. MarkInv(n)'
      BY <1>1, <1>3, <1>6, <1>7, <2>4
    <3>2. FlushInv(n)' /\ HandlerInv(n)'
      <4>1. n # Current /\ UNCHANGED <<attributed, signal, text>>
        BY <1>1, <1>10, <2>4
      <4>2. /\ n \in todo' <=> n \in todo
            /\ p \in {"clear", "clearDirty"} => todo' = todo
            /\ dirty'[n] = dirty[n] /\ dirtyText'[n] = dirtyText[n] /\ dirtyAttrs'[n] = dirtyAttrs[n]
            /\ n \in DOMAIN updates' <=> n \in DOMAIN updates
            /\ n \in DOMAIN updates => updates'[n] = updates[n]
        BY <1>1, <1>7, <2>2, <2>4
      <4>3. p \in {"drain", "clear", "clearDirty", "write"}
        BY <1>5
      <4>4. QED
        BY <1>1, <4>1, <4>2, <4>3, DrainOthers, Zenon
    <3>3. QED
      BY <2>3, <3>1, <3>2
  <2>5. CASE n = c
    <3>1. Flushing' /\ Flushing
      BY <1>1, <1>5, <1>6 DEF Flushing, Draining
    <3>2. n \notin todo'
      BY <1>1, <2>5
    <3>3. MarkInv(n)'
      BY <1>1, <1>3, <1>4, <1>6, <2>1, <2>5 DEF MarkInv
    <3>4. ASSUME n \notin raced'
          PROVE  /\ n \in DOMAIN updates' => updates'[n] = text'[n]
                 /\ Sent(n)'
      <4>1. n \notin raced /\ n \in todo
        BY <1>3, <2>5, <3>4
      <4>2. Sent(n) /\ (n \in DOMAIN updates => updates[n] = text[n])
        BY <1>1, <1>10, <2>1, <2>5, <3>1, <4>1 DEF FlushInv
      <4>3. Sent(n)'
        BY <1>1, <1>3, <3>1, <4>2, ChannelSame DEF Sent
      <4>4. QED
        BY <1>1, <4>2, <4>3
    <3>5. FlushInv(n)'
      BY <1>6, <2>2, <3>2, <3>4 DEF FlushInv
    <3>6. HandlerInv(n)'
      <4>1. SUFFICES ASSUME n \in ReaderOnly PROVE HandlerInv(n)'
        BY DEF HandlerInv, ReaderOnly
      <4>2. ~dirtyText[n] /\ dirtyAttrs[n] = 0
        BY <1>1, <1>10, <2>1, <2>5, <4>1 DEF HandlerInv
      <4>3. Clean(n)'
        BY <1>1, <1>7, <2>5, <4>2 DEF Clean
      <4>4. QED
        BY <1>1, <1>6, <2>2, <4>2, <4>3 DEF HandlerInv
    <3>7. QED
      BY <2>3, <3>3, <3>5, <3>6
  <2>6. QED
    BY <2>4, <2>5
<1>12. QED
  BY <1>6, <1>8, <1>9, <1>11 DEF FlushingInv

(***************************************************************************)
(* The frame is written or lost.                                           *)
(***************************************************************************)

\* The updates are sent, and are then the newest of their nodes; or the write
\* fails, and the nodes are known to be dropped.
LEMMA WriteStep ==
  ASSUME FlushingInv, Write \/ WriteFails
  PROVE  FlushingInv'
<1> DEFINE f == [tree |-> FALSE, texts |-> updates]
<1>1. /\ pc[Reader] = "write" /\ pc' = [pc EXCEPT ![Reader] = Idle]
      /\ UNCHANGED <<signal, attributed, text, dirty, dirtyText, dirtyAttrs, work, todo, updates,
                     client, intents, panicked, raced, overtaken, crashed>>
      /\ \/ channel' = Append(channel, f) /\ dropped' = dropped \ DOMAIN updates
         \/ channel' = channel /\ dropped' = dropped \cup DOMAIN updates
  BY DEF Write, WriteFails, Send, Goto, nodeVars, flushVars, clientVars
<1>2. TypeOK /\ WorkInv
  BY DEF FlushingInv
<1>3. /\ f \in Frames /\ f.texts = updates /\ DOMAIN updates \subseteq Nodes
      /\ \A n \in DOMAIN f.texts : f.texts[n] > 0
      /\ \A i \in DOMAIN channel : \A n \in DOMAIN channel[i].texts : channel[i].texts[n] > 0
  BY <1>2, UpdateTypes DEF TypeOK, Frames, WorkInv
<1>4. pc[Reader] \notin ObserverPCs \cup {"dead"}
  BY <1>1 DEF ObserverPCs
<1>5. /\ pc' \in [Goroutines -> {"mount", Idle, "dead"} \cup ObserverPCs \cup ReaderPCs]
      /\ pc'[Reader] = Idle /\ Mounted'
      /\ \A n : Observed(n)' <=> Observed(n)
      /\ \A g \in Goroutines :
             /\ g # Reader => pc'[g] \in {Idle, "dead"} \cup ObserverPCs
             /\ pc'[g] \in ObserverPCs => /\ work'[g].node \in Sets[g]
                                          /\ work'[g].version > 0
             /\ pc'[g] = "dirtyAttrs" => work'[g].node \in attributed'
             /\ pc'[g] = "dirtyText" => work'[g].node \notin attributed'
      /\ \A n \in Nodes : SetterInv(n)' /\ MarkInv(n)'
  BY <1>1, <1>4, ReaderMove
<1> HIDE DEF f
<1>6. /\ channel' \in Seq(Frames)
      /\ \A i \in DOMAIN channel' : \A n \in DOMAIN channel'[i].texts : channel'[i].texts[n] > 0
      /\ \A n, v : n \notin DOMAIN updates /\ Latest(n, v) => Latest(n, v)'
      /\ \A n \in DOMAIN updates : \A v : v = updates[n] => Latest(n, v)' \/ n \in dropped'
      /\ \A n : (\E i \in 1 .. Len(channel) : Oldest(i, n) /\ channel[i].tree) =>
                (\E i \in 1 .. Len(channel') : Oldest(i, n)' /\ channel'[i].tree)
  <2>1. CASE channel' = channel /\ dropped' = dropped \cup DOMAIN updates
    <3>1. /\ \A n, v : Latest(n, v)' <=> Latest(n, v)
          /\ \A n, i : Oldest(i, n)' <=> Oldest(i, n)
      BY <1>1, <2>1, ChannelSame
    <3>2. QED
      BY <1>2, <1>3, <2>1, <3>1 DEF TypeOK
  <2>2. CASE channel' = Append(channel, f)
    <3>1. /\ channel' \in Seq(Frames) /\ Len(channel') = Len(channel) + 1
          /\ \A i \in 1 .. Len(channel) : channel'[i] = channel[i]
          /\ \A i \in DOMAIN channel' : \A n \in DOMAIN channel'[i].texts : channel'[i].texts[n] > 0
          /\ \A n \in DOMAIN f.texts : \A v : v = f.texts[n] => Latest(n, v)'
          /\ \A n, v : n \notin DOMAIN f.texts /\ Latest(n, v) => Latest(n, v)'
          /\ \A n : \A i \in 1 .. Len(channel) : Oldest(i, n) => Oldest(i, n)'
      BY <1>1, <1>2, <1>3, <2>2, ChannelSend
    <3>2. 1 .. Len(channel) \subseteq 1 .. Len(channel')
      BY <1>2, <3>1, Types
    <3>3. QED
      BY <1>3, <3>1, <3>2
  <2>3. QED
    BY <1>1, <2>1, <2>2
<1>7. todo = {} /\ Flushing /\ ~Flushing' /\ Mounted
  BY <1>1, <1>2, <1>5 DEF TypeOK, Flushing, Draining, Mounted, Idle
<1>8. TypeOK'
  <2>1. (todo' = {}) = (pc'[Reader] \notin {"drain", "clear", "clearDirty"})
    BY <1>1, <1>5, <1>7 DEF Idle
  <2>2. raced' \cup dropped' \cup overtaken' \cup crashed' \subseteq Nodes
    BY <1>1, <1>2, <1>3 DEF TypeOK
  <2>3. QED
    BY <1>1, <1>2, <1>5, <1>6, <2>1, <2>2 DEF TypeOK
<1>9. WorkInv'
  BY <1>1, <1>2, <1>5, <1>6 DEF WorkInv
<1>10. ASSUME NEW n \in Nodes PROVE TreeInv(n)' /\ FlushInv(n)' /\ HandlerInv(n)'
  <2>1. TreeInv(n) /\ FlushInv(n) /\ HandlerInv(n)
    BY DEF FlushingInv
  <2>2. Idle \notin {"mount", "clear", "clearDirty", "dirtyText"}
    BY DEF Idle
  <2>3. TreeInv(n)'
    BY <1>1, <1>5, <1>6, <1>7, <2>1, <2>2 DEF TreeInv
  <2>4. FlushInv(n)'
    <3>1. Marked(n)' <=> Marked(n)
      BY <1>1 DEF Marked
    <3>2. text[n] \in Versions
      BY <1>2 DEF TypeOK
    <3>3. ASSUME n \notin raced PROVE Observed(n) \/ Marked(n) \/ Sent(n)'
      <4>1. CASE n \in DOMAIN updates
        <5>1. CASE updates[n] = text[n]
          BY <1>1, <1>6, <3>2, <4>1, <5>1 DEF Sent
        <5>2. CASE Observed(n) \/ Marked(n)
          BY <5>2
        <5>3. QED
          BY <1>7, <2>1, <3>3, <4>1, <5>1, <5>2 DEF FlushInv
      <4>2. CASE n \notin DOMAIN updates
        <5>1. Sent(n) => Sent(n)'
          BY <1>1, <1>6, <4>2 DEF Sent
        <5>2. QED
          BY <1>7, <2>1, <3>3, <5>1 DEF FlushInv
      <4>3. QED
        BY <4>1, <4>2
    <3>4. QED
      BY <1>1, <1>5, <1>7, <2>2, <3>1, <3>3 DEF FlushInv
  <2>5. HandlerInv(n)'
    <3>1. SUFFICES ASSUME n \in ReaderOnly PROVE HandlerInv(n)'
      BY DEF HandlerInv, ReaderOnly
    <3>2. Clean(n)
      BY <1>4, <1>7, <2>1, <3>1 DEF HandlerInv
    <3>3. QED
      BY <1>1, <1>5, <1>7, <2>2, <3>2 DEF HandlerInv, Clean
  <2>6. QED
    BY <2>3, <2>4, <2>5
<1>11. QED
  BY <1>5, <1>8, <1>9, <1>10 DEF FlushingInv

(***************************************************************************)
(* The end of the process, and the client.                                 *)
(***************************************************************************)

\* The runtime ends the process: nothing is claimed of it any more but its types.
LEMMA ThrowStep ==
  ASSUME FlushingInv, Throw
  PROVE  FlushingInv'
<1>1. /\ pc' = [i \in Goroutines |-> "dead"] /\ todo' = {}
      /\ UNCHANGED <<signal, attributed, text, dirty, dirtyText, dirtyAttrs, work, updates, channel,
                     client, intents, panicked, raced, dropped, overtaken>>
  BY DEF Throw, nodeVars, clientVars
<1>2. TypeOK /\ WorkInv /\ Reader \in Goroutines
  BY Types DEF FlushingInv
<1>3. crashed' \subseteq Nodes
  <2>1. PICK g \in Goroutines, h \in Goroutines :
            \E m \in Writes(g) \cap (Writes(h) \cup Iterates(h)) : crashed' = {m[1]}
    BY DEF Throw
  <2>2. PICK m \in Writes(g) : crashed' = {m[1]}
    BY <2>1
  <2>3. work[g].node \in Nodes
    BY <1>2, Types
  <2>4. pc[g] = "clear" => Current \in Nodes
    <3>1. pc[g] = "clear" => g = Reader
      BY <1>2 DEF WorkInv, ObserverPCs, Idle
    <3>2. QED
      BY <1>2, <3>1, CurrentTodo DEF Draining
  <2>5. m[1] \in Nodes
    BY <2>2, <2>3, <2>4 DEF Writes
  <2>6. QED
    BY <2>2, <2>5
<1>4. pc'[Reader] = "dead" /\ \A g \in Goroutines : pc'[g] = "dead"
  BY <1>1, <1>2
<1>5. TypeOK'
  BY <1>1, <1>2, <1>3, <1>4 DEF TypeOK
<1>6. WorkInv'
  BY <1>1, <1>2, <1>4 DEF WorkInv, ObserverPCs
<1>7. ~Flushing' /\ ~Mounted'
  BY <1>4 DEF Flushing, Draining, Mounted
<1>8. ASSUME NEW n \in Nodes
      PROVE  SetterInv(n)' /\ MarkInv(n)' /\ TreeInv(n)' /\ FlushInv(n)' /\ HandlerInv(n)'
  <2>1. SetterInv(n)' /\ MarkInv(n)' /\ HandlerInv(n)'
    BY <1>4 DEF SetterInv, MarkInv, HandlerInv
  <2>2. TreeInv(n)' /\ FlushInv(n)'
    BY <1>1, <1>4, <1>7 DEF TreeInv, FlushInv
  <2>3. QED
    BY <2>1, <2>2
<1>9. QED
  BY <1>5, <1>6, <1>8 DEF FlushingInv

\* The client applies a frame: unless it overtakes an older one of the node, the
\* client comes to the same text in the end.
LEMMA ApplyStep ==
  ASSUME FlushingInv, Apply
  PROVE  FlushingInv'
<1>1. TypeOK /\ WorkInv /\ DOMAIN channel = 1 .. Len(channel) /\ Len(channel) \in Nat
  BY Types DEF FlushingInv
<1>2. PICK i \in 1 .. Len(channel) :
        /\ client' = Patched(channel[i])
        /\ channel' = SubSeq(channel, 1, i - 1) \o SubSeq(channel, i + 1, Len(channel))
        /\ overtaken' = overtaken \cup
               UNION {DOMAIN channel[i].texts \cap DOMAIN channel[j].texts : j \in 1 .. i - 1}
        /\ UNCHANGED <<signal, nodeVars, pc, work, flushVars, intents, panicked,
                       raced, dropped, crashed>>
  BY <1>1 DEF Apply
<1>3. UNCHANGED <<signal, attributed, text, dirty, dirtyText, dirtyAttrs, pc, work, todo, updates,
                  intents, panicked, raced, dropped, crashed>>
  BY <1>2 DEF nodeVars, flushVars
<1>4. /\ channel' \in Seq(Frames) /\ Len(channel') = Len(channel) - 1
      /\ \A j \in 1 .. Len(channel) - 1 :
             channel'[j] = IF j < i THEN channel[j] ELSE channel[j + 1]
  BY <1>1, <1>2, ChannelRemove
<1>5. channel[i] \in Frames /\ channel[i].texts \in TextUpdates /\ DOMAIN channel[i].texts \subseteq Nodes
      /\ \A n \in DOMAIN channel[i].texts : channel[i].texts[n] \in Versions
  BY <1>1, Types, UpdateTypes DEF Frames
<1>6. TypeOK'
  <2>1. client' \in [Nodes -> Versions]
    BY <1>1, <1>2, <1>5, Types DEF Patched
  <2>2. overtaken' \subseteq Nodes
    BY <1>1, <1>2, <1>5 DEF TypeOK
  <2>3. QED
    BY <1>1, <1>3, <1>4, <2>1, <2>2 DEF TypeOK
<1>7. WorkInv'
  <2>1. DOMAIN channel' = 1 .. Len(channel) - 1
    BY <1>4
  <2>2. \A j \in 1 .. Len(channel) - 1 : j \in DOMAIN channel /\ j + 1 \in DOMAIN channel
    BY <1>1
  <2>3. \A j \in DOMAIN channel : \A n \in DOMAIN channel[j].texts : channel[j].texts[n] > 0
    BY <1>1 DEF WorkInv
  <2>4. \A j \in DOMAIN channel' : \A n \in DOMAIN channel'[j].texts : channel'[j].texts[n] > 0
    BY <1>4, <2>1, <2>2, <2>3
  <2>5. QED
    BY <1>1, <1>3, <2>4 DEF WorkInv
<1>8. /\ Current' = Current /\ Flushing' = Flushing /\ Mounted' = Mounted
      /\ \A n : (Marked(n)' <=> Marked(n)) /\ (Observed(n)' <=> Observed(n))
  BY <1>3 DEF Current, Flushing, Draining, Mounted, Marked, Observed, At
<1>9. ASSUME NEW n \in Nodes
      PROVE  SetterInv(n)' /\ MarkInv(n)' /\ TreeInv(n)' /\ FlushInv(n)' /\ HandlerInv(n)'
  <2>1. SetterInv(n) /\ MarkInv(n) /\ TreeInv(n) /\ FlushInv(n) /\ HandlerInv(n)
    BY DEF FlushingInv
  <2>2. SetterInv(n)' /\ MarkInv(n)' /\ HandlerInv(n)'
    BY <1>3, <1>8, <2>1
       DEF SetterInv, MarkInv, HandlerInv, At, OneSetter, Clean, ReaderOnly
  <2>3. ASSUME n \notin overtaken'
        PROVE  /\ n \notin overtaken /\ pc[Reader] # "mount"
               /\ Mounted => /\ \A v : Latest(n, v) => Latest(n, v)'
                             /\ client'[n] = 0 => \E j \in 1 .. Len(channel') :
                                                      Oldest(j, n)' /\ channel'[j].tree
    <3>1. n \notin overtaken /\ (Carries(i, n) => \A j \in 1 .. i - 1 : ~Carries(j, n))
      BY <1>2, <2>3 DEF Carries
    <3>2. Carries(i, n) => Oldest(i, n)
      <4>1. \A j \in 1 .. Len(channel) : j < i => j \in 1 .. i - 1
        BY <1>1
      <4>2. QED
        BY <3>1, <4>1 DEF Oldest
    <3>3. pc[Reader] # "mount"
      <4>1. channel # <<>>
        BY <1>1
      <4>2. QED
        BY <2>1, <3>1, <4>1 DEF TreeInv
    <3>4. ASSUME Mounted
          PROVE  /\ \A v : Latest(n, v) => Latest(n, v)'
                 /\ client'[n] = 0 => \E j \in 1 .. Len(channel') :
                                          Oldest(j, n)' /\ channel'[j].tree
      <4>1. client[n] = 0 => \E j \in 1 .. Len(channel) : Oldest(j, n) /\ channel[j].tree
        BY <2>1, <3>1, <3>4 DEF TreeInv
      <4>2. QED
        BY <1>2, <3>2, <4>1, ChannelApply
    <3>5. QED
      BY <3>1, <3>3, <3>4
  <2>4. TreeInv(n)'
    BY <1>3, <1>8, <2>3 DEF TreeInv
  <2>5. Mounted /\ Sent(n) => Sent(n)'
    <3>1. CASE n \in overtaken'
      BY <3>1 DEF Sent
    <3>2. CASE n \notin overtaken'
      BY <1>3, <1>8, <2>3, <3>2 DEF Sent
    <3>3. QED
      BY <3>1, <3>2
  <2>6. FlushInv(n)'
    <3>1. pc[Reader] \in {"clear", "clearDirty"} => Mounted
      BY DEF Mounted
    <3>2. QED
      BY <1>3, <1>8, <2>1, <2>5, <3>1 DEF FlushInv
  <2>7. QED
    BY <2>2, <2>4, <2>6
<1>10. QED
  BY <1>6, <1>7, <1>9 DEF FlushingInv

(***************************************************************************)
(* The theorems.                                                           *)
(***************************************************************************)

\* The component has rendered and nothing has been sent.
LEMMA FlushInit ==
  ASSUME Init
  PROVE  FlushingInv
<1>1. /\ 0 \in Versions /\ 1 \in Versions /\ Reader \in Goroutines
      /\ NoWork \in [node : Nodes, version : Versions] /\ <<>> \in TextUpdates
  BY SessionAssumption, UpdateTypes DEF Versions, NoWork, Goroutines
<1>2. pc[Reader] = "mount" /\ \A g \in Goroutines : g # Reader => pc[g] = Idle
  BY <1>1 DEF Init
<1>3. TypeOK
  <2>1. /\ attributed \subseteq Nodes /\ signal \in [Nodes -> Versions]
        /\ text \in [Nodes -> Versions] /\ dirty \in [Nodes -> BOOLEAN]
        /\ dirtyText \in [Nodes -> BOOLEAN] /\ dirtyAttrs \in [Nodes -> Versions]
    BY <1>1 DEF Init
  <2>2. /\ pc \in [Goroutines -> {"mount", Idle, "dead"} \cup ObserverPCs \cup ReaderPCs]
        /\ work \in [Goroutines -> [node : Nodes, version : Versions]]
    BY <1>1 DEF Init
  <2>3. todo \subseteq Nodes /\ (todo = {}) = (pc[Reader] \notin {"drain", "clear", "clearDirty"})
    BY <1>2 DEF Init
  <2>4. /\ updates \in TextUpdates /\ client \in [Nodes -> Versions] /\ intents \in 0 .. MaxIntents
        /\ raced \cup dropped \cup overtaken \cup crashed \subseteq Nodes
    BY <1>1, SessionAssumption DEF Init
  <2>5. channel \in Seq(Frames)
    BY DEF Init
  <2>6. panicked \in BOOLEAN
    BY DEF Init
  <2>7. QED
    BY <2>1, <2>2, <2>3, <2>4, <2>5, <2>6 DEF TypeOK
<1>4. \A g \in Goroutines : pc[g] \notin ObserverPCs
  BY <1>2 DEF ObserverPCs, Idle
<1>5. WorkInv
  <2>1. \A n \in Nodes : /\ signal[n] > 0 /\ text[n] > 0
                         /\ n \in attributed => ~dirtyText[n]
                         /\ n \notin attributed => dirtyAttrs[n] = 0
    BY DEF Init
  <2>2. DOMAIN channel = {} /\ DOMAIN updates = {}
    BY DEF Init
  <2>3. QED
    BY <1>2, <1>4, <2>1, <2>2 DEF WorkInv, ObserverPCs
<1>6. ASSUME NEW n \in Nodes
      PROVE  SetterInv(n) /\ MarkInv(n) /\ TreeInv(n) /\ FlushInv(n) /\ HandlerInv(n)
  <2>1. /\ text[n] = signal[n] /\ dirtyAttrs[n] = 0 /\ Clean(n) /\ channel = <<>> /\ client[n] = 0
        /\ todo = {} /\ DOMAIN updates = {}
    BY DEF Init, Clean
  <2>2. ~Mounted /\ ~Flushing
    BY <1>2 DEF Mounted, Flushing, Draining
  <2>3. SetterInv(n) /\ MarkInv(n)
    BY <1>4, <2>1 DEF SetterInv, MarkInv, At, ObserverPCs
  <2>4. TreeInv(n) /\ FlushInv(n)
    BY <1>2, <2>1, <2>2 DEF TreeInv, FlushInv
  <2>5. HandlerInv(n)
    BY <1>2, <2>1, <2>2 DEF HandlerInv, Clean
  <2>6. QED
    BY <2>3, <2>4, <2>5
<1>7. QED
  BY <1>3, <1>5, <1>6 DEF FlushingInv

\* Every step keeps the invariant.
LEMMA FlushNext ==
  ASSUME FlushingInv, [Next]_vars
  PROVE  FlushingInv'
<1>1. ASSUME UNCHANGED vars PROVE FlushingInv'
  <2>1. UNCHANGED <<attributed, signal, text, dirty, dirtyText, dirtyAttrs, pc, work, todo, updates,
                    channel, client, intents, panicked, raced, dropped, overtaken, crashed>>
    BY <1>1 DEF vars, nodeVars, flushVars, clientVars, lossVars
  <2>2. TypeOK' /\ WorkInv'
    BY <2>1 DEF FlushingInv, TypeOK, WorkInv
  <2>3. ASSUME NEW n \in Nodes
        PROVE  SetterInv(n)' /\ MarkInv(n)' /\ TreeInv(n)' /\ FlushInv(n)' /\ HandlerInv(n)'
    <3>1. SetterInv(n) /\ MarkInv(n) /\ TreeInv(n) /\ FlushInv(n) /\ HandlerInv(n)
      BY DEF FlushingInv
    <3>2. SetterInv(n)' /\ MarkInv(n)' /\ HandlerInv(n)'
      BY <2>1, <3>1 DEF SetterInv, MarkInv, HandlerInv, At, OneSetter, Clean, ReaderOnly,
                        Flushing, Draining, Current
    <3>3. TreeInv(n)'
      BY <2>1, <3>1, ChannelSame DEF TreeInv, Mounted
    <3>4. Sent(n)' <=> Sent(n)
      BY <2>1, ChannelSame DEF Sent, Flushing, Draining
    <3>5. FlushInv(n)'
      BY <2>1, <3>1, <3>4 DEF FlushInv, Mounted, Flushing, Draining, Current, Marked, Observed, At
    <3>6. QED
      BY <3>2, <3>3, <3>5
  <2>4. QED
    BY <2>2, <2>3 DEF FlushingInv
<1>2. ASSUME NEW g \in Goroutines, Change(g) \/ Notify(g) PROVE FlushingInv'
  BY <1>2, UpdateStep, NotifyStep DEF Change
<1>3. /\ intents \in 0 .. MaxIntents /\ panicked \in BOOLEAN
      /\ pc \in [Goroutines -> {"mount", Idle, "dead"} \cup ObserverPCs \cup ReaderPCs]
  BY DEF FlushingInv, TypeOK
<1>4. ASSUME IntentIgnored PROVE FlushingInv'
  <2>1. pc' = [pc EXCEPT ![Reader] = Idle] /\ pc[Reader] \in {Idle, "handler"}
    BY <1>3, <1>4 DEF IntentIgnored
  <2>2. intents' \in 0 .. MaxIntents /\ panicked' \in BOOLEAN
    BY <1>3, <1>4, SessionAssumption DEF IntentIgnored
  <2>3. QED
    BY <1>4, <2>1, <2>2, IntentStep DEF IntentIgnored, nodeVars, flushVars, clientVars, lossVars
<1>5. ASSUME IntentHandled PROVE FlushingInv'
  <2>1. pc' = [pc EXCEPT ![Reader] = "handler"] /\ pc[Reader] \in {Idle, "handler"}
    BY <1>5 DEF IntentHandled, Goto
  <2>2. intents' \in 0 .. MaxIntents /\ panicked' \in BOOLEAN /\ "handler" # Idle
    BY <1>3, <1>5, SessionAssumption DEF IntentHandled, Idle
  <2>3. QED
    BY <1>5, <2>1, <2>2, IntentStep DEF IntentHandled, nodeVars, flushVars, clientVars, lossVars
<1>6. ASSUME HandlerReturns PROVE FlushingInv'
  <2>1. pc' = [pc EXCEPT ![Reader] = "collect"] /\ pc[Reader] \in {Idle, "handler"}
    BY <1>6 DEF HandlerReturns, Goto
  <2>2. intents' \in 0 .. MaxIntents /\ panicked' \in BOOLEAN /\ "collect" # Idle
    BY <1>3, <1>6 DEF HandlerReturns, Idle
  <2>3. QED
    BY <1>6, <2>1, <2>2, IntentStep DEF HandlerReturns, nodeVars, flushVars, clientVars, lossVars
<1>7. ASSUME HandlerPanics PROVE FlushingInv'
  <2>1. pc' = [pc EXCEPT ![Reader] = Idle] /\ pc[Reader] \in {Idle, "handler"}
    BY <1>7 DEF HandlerPanics, Goto
  <2>2. intents' \in 0 .. MaxIntents /\ panicked' = TRUE
    BY <1>3, <1>7 DEF HandlerPanics
  <2>3. QED
    BY <1>7, <2>1, <2>2, IntentStep DEF HandlerPanics, Send, nodeVars, flushVars, lossVars
<1>8. ASSUME Drain PROVE FlushingInv'
  <2>1. Collect \/ Clear \/ ClearDirty
    BY <1>8 DEF Drain
  <2>2. QED
    BY <1>8, <2>1, CollectStep, ClearStep, ClearDirtyStep
<1>9. QED
  <2>1. CASE Next
    BY <1>2, <1>4, <1>5, <1>6, <1>7, <1>8, <2>1, MountStep, CollectDirtyStep, WriteStep, ThrowStep,
       ApplyStep DEF Next, ReaderStep, Flush
  <2>2. QED
    BY <1>1, <2>1

\* The marks of a node, the updates of a flush and the frames on the way account
\* for the text of every node in every reachable state.
THEOREM FlushInvariant == Spec => []FlushingInv
<1>1. Init => FlushingInv
  BY FlushInit
<1>2. FlushingInv /\ [Next]_vars => FlushingInv'
  BY FlushNext
<1>3. QED
  BY <1>1, <1>2, PTL DEF Spec

\* No change of a signal is lost silently, whatever the goroutines and however
\* many: at rest the browser shows the text of every node or the next flush sends
\* it, unless an observer crossed the flush, a write failed or a frame was
\* overtaken; and the text is that of the signal when one goroutine sets it.
THEOREM NoUpdateLost == Spec => []NoLostUpdate
<1>1. ASSUME FlushingInv PROVE NoLostUpdate
  <2>1. TypeOK /\ Reader \in Goroutines
    BY <1>1, Types DEF FlushingInv
  <2>2. SUFFICES ASSUME Quiet, NEW n \in Nodes
                 PROVE  /\ n \in raced \cup dropped \cup overtaken
                           \/ client[n] = text[n] \/ Marked(n)
                        /\ OneSetter(n) => text[n] = signal[n]
    BY <2>1 DEF NoLostUpdate
  <2>3. /\ \A g \in Goroutines : pc[g] \notin ObserverPCs /\ pc[g] # "text"
        /\ Mounted /\ ~Flushing /\ pc[Reader] # "dead" /\ 1 .. Len(channel) = {}
    BY <2>1, <2>2 DEF Quiet, ObserverPCs, Mounted, Flushing, Draining, Idle
  <2>4. SetterInv(n) /\ FlushInv(n)
    BY <1>1 DEF FlushingInv
  <2>5. OneSetter(n) => text[n] = signal[n]
    BY <2>3, <2>4 DEF SetterInv
  <2>6. ~Observed(n)
    BY <2>3 DEF Observed, At
  <2>7. Sent(n) => client[n] = text[n] \/ n \in dropped \cup overtaken
    BY <2>3 DEF Sent, Latest
  <2>8. QED
    BY <2>3, <2>4, <2>5, <2>6, <2>7 DEF FlushInv
<1>2. QED
  BY <1>1, FlushInvariant, PTL

\* An intent whose handler does not panic leaves nothing behind to flush of what
\* only handlers change.
THEOREM FlushedUnlessPanic == Spec => []UnflushedOnlyAfterPanic
<1>1. ASSUME FlushingInv PROVE UnflushedOnlyAfterPanic
  <2>1. SUFFICES ASSUME pc[Reader] = Idle, ~panicked, NEW n \in ReaderOnly
                 PROVE  ~dirty[n] /\ ~dirtyText[n] /\ dirtyAttrs[n] = 0
    BY DEF UnflushedOnlyAfterPanic
  <2>2. HandlerInv(n)
    BY <1>1 DEF FlushingInv, ReaderOnly
  <2>3. pc[Reader] # "dead"
    BY <2>1 DEF Idle
  <2>4. QED
    BY <2>1, <2>2, <2>3 DEF HandlerInv, Clean
<1>2. QED
  BY <1>1, FlushInvariant, PTL
=============================================================================
