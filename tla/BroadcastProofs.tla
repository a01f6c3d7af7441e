-------------------------- MODULE BroadcastProofs --------------------------
(***************************************************************************)
(* Proofs about Broadcast, for any finite sets of channels and publishers, *)
(* and every size of a channel.                                            *)
(***************************************************************************)
EXTENDS Broadcast, FiniteSetTheorems, TLAPS

(***************************************************************************)
(* The inductive invariant.                                                *)
(***************************************************************************)

Open == {c \in Channels : state[c] = "open"}

\* The slice of a header lies within its array.
Within(a, n) == IF a = 0 THEN n = 0 ELSE a <= Len(arrays) /\ n <= Len(arrays[a])

\* The list as it will be when the running Unsubscribe has moved its elements.
Elem(k)  == IF k \in DOMAIN unsub.slots THEN unsub.slots[k] ELSE arrays[header.array][k]
Size     == IF Unlocked THEN header.len ELSE header.len - 1
Members  == IF Unlocked THEN Open ELSE Open \ {unsub.channel}

\* That list holds the open channels that stay, each once.
ListInv ==
    /\ Within(header.array, header.len)
    /\ header.len = Cardinality(Open)
    /\ unsub = [channel |-> unsub.channel, slots |-> unsub.slots]
    /\ ~Unlocked => unsub.channel \in Open
    /\ DOMAIN unsub.slots \subseteq 1 .. Size
    /\ \A k \in 1 .. Size : Elem(k) \in Members
    /\ \A j, k \in 1 .. Size : Elem(j) = Elem(k) => j = k
    /\ \A c \in Members : \E k \in 1 .. Size : Elem(k) = c

\* The slice that a publisher has copied, and how far it has come.
Copied(p, k) == arrays[pub[p].array][k]
Done(p) == IF pub[p].at = "send" THEN pub[p].i - 1 ELSE pub[p].i

\* A publisher walks within the slice it copied, which holds no nil.
WalkInv(p) ==
    pub[p].at # "out" =>
        /\ pub[p].count > 0
        /\ Within(pub[p].array, pub[p].len)
        /\ \A k \in 1 .. pub[p].len : Copied(p, k) \in Channels
        /\ pub[p].at = "send" => pub[p].i > 0
        /\ pub[p].at = "end" => pub[p].i = pub[p].len

\* Without an Unsubscribe since the copying, the slice is as it was: appending
\* writes behind it.  Each channel it holds is open and has been dealt with once.
ExactInv(p) ==
    pub[p].at # "out" /\ ~pub[p].raced =>
        /\ Unlocked
        /\ pub[p].at # "panic"
        /\ pub[p].array = header.array => pub[p].len <= header.len
        /\ \A k \in 1 .. pub[p].len : state[Copied(p, k)] = "open"
        /\ \A j, k \in 1 .. pub[p].len : Copied(p, j) = Copied(p, k) => j = k
        /\ pub[p].first = {Copied(p, k) : k \in 1 .. pub[p].len}
        /\ pub[p].at = "send" => pub[p].to = Copied(p, pub[p].i)
        /\ pub[p].full \subseteq {Copied(p, k) : k \in 1 .. Done(p)}
        /\ \A c \in Channels :
               pub[p].sent[c] = IF c \in {Copied(p, k) : k \in 1 .. Done(p)} \ pub[p].full
                                THEN 1 ELSE 0

BroadcastInv ==
    /\ TypeOK
    /\ ListInv
    /\ \A p \in Publishers : WalkInv(p) /\ ExactInv(p)

(***************************************************************************)
(* Facts about the list and its arrays.                                    *)
(***************************************************************************)

\* With the lock free the slice itself is the list.
LEMMA UnlockedList ==
  ASSUME BroadcastInv, Unlocked
  PROVE  /\ DOMAIN unsub.slots = {} /\ Size = header.len /\ Members = Open
         /\ \A k \in 1 .. header.len : arrays[header.array][k] \in Open
         /\ \A j, k \in 1 .. header.len :
                arrays[header.array][j] = arrays[header.array][k] => j = k
         /\ \A c \in Open : \E k \in 1 .. header.len : arrays[header.array][k] = c
         /\ Listed = Open
<1>1. DOMAIN unsub.slots = {} /\ Size = header.len /\ Members = Open
  BY DEF Unlocked, NoCall, Size, Members
<1>2. \A k \in 1 .. header.len : Elem(k) = arrays[header.array][k]
  BY <1>1 DEF Elem
<1>3. /\ \A k \in 1 .. header.len : Elem(k) \in Open
      /\ \A j, k \in 1 .. header.len : Elem(j) = Elem(k) => j = k
      /\ \A c \in Open : \E k \in 1 .. header.len : Elem(k) = c
  BY <1>1 DEF BroadcastInv, ListInv
<1>4. QED
  BY <1>1, <1>2, <1>3 DEF Listed

\* The types that the proofs use most.
LEMMA Types ==
  ASSUME TypeOK
  PROVE  /\ Len(arrays) \in Nat /\ DOMAIN arrays = 1 .. Len(arrays)
         /\ \A a \in 1 .. Len(arrays) : /\ arrays[a] \in Seq(Channels \cup {Nil})
                                        /\ Len(arrays[a]) \in Nat
                                        /\ DOMAIN arrays[a] = 1 .. Len(arrays[a])
         /\ header.array \in Nat /\ header.array <= Len(arrays) /\ header.len \in Nat
         /\ \A p \in Publishers :
                /\ pub[p] \in Calls
                /\ pub[p].array \in Nat /\ pub[p].len \in Nat /\ pub[p].i \in Nat
                /\ pub[p].i <= pub[p].len
                /\ pub[p].count \in Nat /\ pub[p].sent \in [Channels -> Nat]
<1>1. arrays \in Seq(Seq(Channels \cup {Nil}))
  BY DEF TypeOK
<1>2. /\ Len(arrays) \in Nat /\ DOMAIN arrays = 1 .. Len(arrays)
      /\ \A a \in 1 .. Len(arrays) : arrays[a] \in Seq(Channels \cup {Nil})
  BY <1>1
<1>3. \A a \in 1 .. Len(arrays) : Len(arrays[a]) \in Nat /\ DOMAIN arrays[a] = 1 .. Len(arrays[a])
  BY <1>2
<1>4. header.array \in Nat /\ header.array <= Len(arrays) /\ header.len \in Nat
  <2>1. IsFiniteSet(Channels)
    BY BroadcastAssumption
  <2>2. Cardinality(Channels) \in Nat
    BY <2>1, FS_CardinalityType
  <2>3. QED
    BY <1>2, <2>2 DEF TypeOK
<1>5. ASSUME NEW p \in Publishers
      PROVE  /\ pub[p] \in Calls
             /\ pub[p].array \in Nat /\ pub[p].len \in Nat /\ pub[p].i \in Nat
             /\ pub[p].i <= pub[p].len
             /\ pub[p].count \in Nat /\ pub[p].sent \in [Channels -> Nat]
  <2>1. pub[p] \in Calls /\ pub[p].i \in 0 .. pub[p].len
    BY DEF TypeOK
  <2>2. QED
    BY <2>1, BroadcastAssumption DEF Calls
<1>6. QED
  BY <1>2, <1>3, <1>4, <1>5

\* Nothing has been subscribed or published yet.
LEMMA BroadcastInit == Init => BroadcastInv
<1> SUFFICES ASSUME Init PROVE BroadcastInv
  OBVIOUS
<1> USE DEF Init
<1>1. Open = {}
  BY DEF Open
<1>2. Cardinality(Open) = 0 /\ Cardinality(Channels) \in Nat
  BY <1>1, FS_EmptySet, FS_CardinalityType, BroadcastAssumption
<1>3. \A p \in Publishers : pub[p] = Quiet(0)
  OBVIOUS
<1>4. Quiet(0) \in Calls /\ Quiet(0).i = 0 /\ Quiet(0).len = 0 /\ Quiet(0).at = "out"
  BY BroadcastAssumption DEF Quiet, Calls
<1>5. TypeOK
  <2>1. /\ arrays \in Seq(Seq(Channels \cup {Nil}))
        /\ header \in [array : 0 .. Len(arrays), len : 0 .. Cardinality(Channels)]
        /\ state \in [Channels -> {"new", "open", "closed"}]
    BY <1>2
  <2>2. /\ buffer \in [Channels -> Seq(Messages)]
        /\ \A c \in Channels : Len(buffer[c]) <= ChannelSize
    BY BroadcastAssumption
  <2>3. unsub.channel \in Channels \cup {Nil}
    BY DEF NoCall
  <2>4. pub \in [Publishers -> Calls]
    BY <1>4
  <2>5. QED
    BY <1>3, <1>4, <2>1, <2>2, <2>3, <2>4 DEF TypeOK
<1>6. ListInv
  <2>1. /\ Unlocked /\ DOMAIN unsub.slots = {} /\ Size = 0 /\ Members = {}
        /\ header.array = 0 /\ header.len = 0
    BY <1>1 DEF Unlocked, NoCall, Size, Members
  <2>2. unsub = [channel |-> unsub.channel, slots |-> unsub.slots]
    BY DEF NoCall
  <2>3. QED
    BY <1>2, <2>1, <2>2 DEF ListInv, Within
<1>7. QED
  BY <1>3, <1>4, <1>5, <1>6 DEF BroadcastInv, WalkInv, ExactInv

(***************************************************************************)
(* The steps of a publisher and of a subscriber that receives.             *)
(***************************************************************************)

\* Such a step leaves the list alone, and what it says of other publishers.
LEMMA ListStays ==
  ASSUME BroadcastInv, UNCHANGED <<arrays, header, state, unsub>>
  PROVE  /\ ListInv'
         /\ \A q \in Publishers : pub'[q] = pub[q] => WalkInv(q)' /\ ExactInv(q)'
<1>1. ListInv'
  <2>1. /\ Open' = Open /\ Size' = Size /\ Members' = Members
        /\ (Unlocked' <=> Unlocked) /\ \A k : Elem(k)' = Elem(k)
    BY DEF Open, Elem, Size, Members, Unlocked
  <2>2. Within(header.array, header.len)' <=> Within(header.array, header.len)
    BY DEF Within
  <2>3. QED
    BY <2>1, <2>2 DEF BroadcastInv, ListInv
<1>2. ASSUME NEW q \in Publishers, pub'[q] = pub[q] PROVE WalkInv(q)' /\ ExactInv(q)'
  <2>1. WalkInv(q) /\ ExactInv(q)
    BY DEF BroadcastInv
  <2>2. /\ \A k : Copied(q, k)' = Copied(q, k)
        /\ Done(q)' = Done(q) /\ (Unlocked' <=> Unlocked)
        /\ Within(pub[q].array, pub[q].len)' <=> Within(pub[q].array, pub[q].len)
    BY <1>2 DEF Copied, Done, Unlocked, Within
  <2>3. WalkInv(q)'
    BY <1>2, <2>1, <2>2 DEF WalkInv
  <2>4. ExactInv(q)'
    BY <1>2, <2>1, <2>2 DEF ExactInv
  <2>5. QED
    BY <2>3, <2>4
<1>3. QED
  BY <1>1, <1>2

\* Publish copies the header: it holds the open channels.
LEMMA PublishStep ==
  ASSUME BroadcastInv, NEW p \in Publishers, Publish(p)
  PROVE  BroadcastInv'
<1> USE DEF Publish
<1> DEFINE call == [Quiet(pub[p].count + 1) EXCEPT
                       !.at = "loop", !.array = header.array, !.len = header.len,
                       !.first = Listed]
<1>1. TypeOK
  BY DEF BroadcastInv
<1>2. pub \in [Publishers -> Calls]
  BY <1>1 DEF TypeOK
<1>3. pub' = [pub EXCEPT ![p] = call]
  OBVIOUS
<1>4. /\ call.at = "loop" /\ call.count = pub[p].count + 1 /\ call.array = header.array
      /\ call.len = header.len /\ call.i = 0 /\ call.to = Nil /\ call.first = Listed
      /\ call.full = {} /\ call.sent = [c \in Channels |-> 0] /\ ~call.raced
  BY DEF Quiet
<1>5. call \in Calls
  <2>1. pub[p].count + 1 \in 0 .. MaxMessages /\ header.array \in Nat /\ header.len \in Nat
    BY <1>1, Types, BroadcastAssumption DEF TypeOK
  <2>2. Listed \in SUBSET Channels
    BY UnlockedList DEF Open
  <2>3. QED
    BY <2>1, <2>2 DEF Quiet, Calls
<1> HIDE DEF call
<1>6. pub'[p] = call /\ \A q \in Publishers : q # p => pub'[q] = pub[q]
  BY <1>2, <1>3
<1>7. TypeOK'
  <2>1. pub' \in [Publishers -> Calls]
    BY <1>2, <1>3, <1>5
  <2>2. \A q \in Publishers : /\ pub'[q].i \in 0 .. pub'[q].len
                              /\ pub'[q].at = "send" => pub'[q].to \in Channels
    <3>1. 0 \in 0 .. header.len
      BY <1>1, Types
    <3>2. QED
      BY <1>1, <1>4, <1>6, <3>1 DEF TypeOK
  <2>3. QED
    BY <1>1, <2>1, <2>2 DEF TypeOK
<1>8. ListInv' /\ \A q \in Publishers : q # p => WalkInv(q)' /\ ExactInv(q)'
  BY <1>6, ListStays
<1>9. \A k : Copied(p, k)' = arrays[header.array][k]
  BY <1>4, <1>6 DEF Copied
<1>10. Done(p)' = 0
  BY <1>4, <1>6 DEF Done
<1>11. WalkInv(p)'
  <2>1. Within(header.array, header.len)'
    BY DEF BroadcastInv, ListInv, Within
  <2>2. Within(pub[p].array, pub[p].len)'
    BY <1>4, <1>6, <2>1 DEF Within
  <2>3. \A k \in 1 .. header.len : Copied(p, k)' \in Channels
    BY <1>9, UnlockedList DEF Open
  <2>4. pub[p].count + 1 > 0
    BY <1>1, Types
  <2>5. QED
    BY <1>4, <1>6, <2>2, <2>3, <2>4 DEF WalkInv
<1>12. ExactInv(p)'
  <2>1. Unlocked'
    BY DEF Unlocked
  <2>2. \A k \in 1 .. header.len : state'[Copied(p, k)'] = "open"
    BY <1>9, UnlockedList DEF Open
  <2>3. \A j, k \in 1 .. header.len : Copied(p, j)' = Copied(p, k)' => j = k
    BY <1>9, UnlockedList
  <2>4. Listed = {Copied(p, k)' : k \in 1 .. header.len}
    BY <1>9 DEF Listed
  <2>5. header.len <= header.len
    BY <1>1, Types
  <2>6. {Copied(p, k)' : k \in 1 .. Done(p)'} = {}
    BY <1>10
  <2>7. /\ pub'[p].first = {Copied(p, k)' : k \in 1 .. pub'[p].len}
        /\ pub'[p].full \subseteq {Copied(p, k)' : k \in 1 .. Done(p)'}
    BY <1>4, <1>6, <2>4, <2>6
  <2>8. \A c \in Channels : pub'[p].sent[c] =
            IF c \in {Copied(p, k)' : k \in 1 .. Done(p)'} \ pub'[p].full THEN 1 ELSE 0
    BY <1>4, <1>6, <2>6
  <2>9. pub'[p].len = header'.len /\ pub'[p].at = "loop"
    BY <1>4, <1>6
  <2>10. QED
    BY <2>1, <2>2, <2>3, <2>5, <2>7, <2>8, <2>9 DEF ExactInv
<1>13. QED
  BY <1>7, <1>8, <1>11, <1>12 DEF BroadcastInv

\* The loop reads an element of the copied slice, or ends behind the last.
LEMMA NextElementStep ==
  ASSUME BroadcastInv, NEW p \in Publishers, NextElement(p)
  PROVE  BroadcastInv'
<1> USE DEF NextElement
<1>1. TypeOK /\ WalkInv(p) /\ ExactInv(p)
  BY DEF BroadcastInv
<1>2. pub \in [Publishers -> Calls] /\ pub[p] \in Calls /\ pub[p].at = "loop"
  BY <1>1 DEF TypeOK
<1>3. pub[p].i \in Nat /\ pub[p].len \in Nat /\ pub[p].i <= pub[p].len
  BY <1>1, Types
<1>4. \A q \in Publishers : q # p => pub'[q] = pub[q]
  BY <1>2
<1>5. ListInv' /\ \A q \in Publishers : q # p => WalkInv(q)' /\ ExactInv(q)'
  BY <1>4, ListStays
<1>6. CASE pub[p].i = pub[p].len
  <2>1. pub' = [pub EXCEPT ![p] = [pub[p] EXCEPT !.at = "end"]]
    BY <1>6
  <2>2. pub'[p] = [pub[p] EXCEPT !.at = "end"]
    BY <1>2, <2>1
  <2>3. /\ pub'[p].at = "end" /\ pub'[p].count = pub[p].count /\ pub'[p].array = pub[p].array
        /\ pub'[p].len = pub[p].len /\ pub'[p].i = pub[p].i
        /\ pub'[p].first = pub[p].first /\ pub'[p].full = pub[p].full
        /\ pub'[p].sent = pub[p].sent /\ pub'[p].raced = pub[p].raced
        /\ pub'[p] \in Calls
    BY <1>2, <2>2 DEF Calls
  <2>4. TypeOK'
    <3>1. pub' \in [Publishers -> Calls]
      BY <1>2, <2>1, <2>2, <2>3
    <3>2. \A q \in Publishers : /\ pub'[q].i \in 0 .. pub'[q].len
                                /\ pub'[q].at = "send" => pub'[q].to \in Channels
      BY <1>1, <1>4, <2>3 DEF TypeOK
    <3>3. QED
      BY <1>1, <3>1, <3>2 DEF TypeOK
  <2>5. /\ \A k : Copied(p, k)' = Copied(p, k)
        /\ Done(p)' = Done(p) /\ (Unlocked' <=> Unlocked)
        /\ Within(pub[p].array, pub[p].len)' <=> Within(pub[p].array, pub[p].len)
    BY <1>2, <2>3 DEF Copied, Done, Unlocked, Within
  <2>6. WalkInv(p)'
    BY <1>1, <1>2, <1>6, <2>3, <2>5 DEF WalkInv
  <2>7. ExactInv(p)'
    BY <1>1, <1>2, <2>3, <2>5 DEF ExactInv
  <2>8. QED
    BY <1>5, <2>4, <2>6, <2>7 DEF BroadcastInv
<1>7. CASE pub[p].i # pub[p].len
  <2> DEFINE e == arrays[pub[p].array][pub[p].i + 1]
  <2>1. pub' = [pub EXCEPT ![p] = [pub[p] EXCEPT !.at = "send", !.i = pub[p].i + 1, !.to = e]]
    BY <1>7
  <2>2. pub'[p] = [pub[p] EXCEPT !.at = "send", !.i = pub[p].i + 1, !.to = e]
    BY <1>2, <2>1
  <2>3. e = Copied(p, pub[p].i + 1) /\ pub[p].i + 1 \in 1 .. pub[p].len
    BY <1>3, <1>7 DEF Copied
  <2>4. e \in Channels
    BY <1>1, <1>2, <2>3 DEF WalkInv
  <2> HIDE DEF e
  <2>5. /\ pub'[p].at = "send" /\ pub'[p].count = pub[p].count /\ pub'[p].array = pub[p].array
        /\ pub'[p].len = pub[p].len /\ pub'[p].i = pub[p].i + 1 /\ pub'[p].to = e
        /\ pub'[p].first = pub[p].first /\ pub'[p].full = pub[p].full
        /\ pub'[p].sent = pub[p].sent /\ pub'[p].raced = pub[p].raced
        /\ pub'[p] \in Calls
    <3>1. pub[p].i + 1 \in Nat /\ e \in Channels \cup {Nil}
      BY <1>3, <2>4
    <3>2. pub'[p] \in Calls
      BY <1>2, <2>2, <3>1 DEF Calls
    <3>3. QED
      BY <1>2, <2>2, <3>2 DEF Calls
  <2>6. TypeOK'
    <3>1. pub' \in [Publishers -> Calls]
      BY <1>2, <2>1, <2>2, <2>5
    <3>2. pub'[p].i \in 0 .. pub'[p].len
      BY <1>3, <2>3, <2>5
    <3>3. \A q \in Publishers : /\ pub'[q].i \in 0 .. pub'[q].len
                                /\ pub'[q].at = "send" => pub'[q].to \in Channels
      BY <1>1, <1>4, <2>4, <2>5, <3>2 DEF TypeOK
    <3>4. QED
      BY <1>1, <3>1, <3>3 DEF TypeOK
  <2>7. /\ \A k : Copied(p, k)' = Copied(p, k)
        /\ (Unlocked' <=> Unlocked)
        /\ Within(pub[p].array, pub[p].len)' <=> Within(pub[p].array, pub[p].len)
    BY <2>5 DEF Copied, Unlocked, Within
  <2>8. Done(p)' = Done(p) /\ pub[p].i + 1 > 0
    BY <1>2, <1>3, <2>5 DEF Done
  <2>9. WalkInv(p)'
    BY <1>1, <1>2, <2>5, <2>7, <2>8 DEF WalkInv
  <2>10. ExactInv(p)'
    <3>1. pub'[p].to = Copied(p, pub[p].i)'
      BY <2>3, <2>5 DEF Copied
    <3>2. QED
      BY <1>1, <1>2, <2>5, <2>7, <2>8, <3>1 DEF ExactInv
  <2>11. QED
    BY <1>5, <2>6, <2>9, <2>10 DEF BroadcastInv
<1>8. QED
  BY <1>6, <1>7

\* Publish returns.
LEMMA ReturnStep ==
  ASSUME BroadcastInv, NEW p \in Publishers, Return(p)
  PROVE  BroadcastInv'
<1> USE DEF Return
<1>1. TypeOK
  BY DEF BroadcastInv
<1>2. pub \in [Publishers -> Calls] /\ pub[p] \in Calls
  BY <1>1 DEF TypeOK
<1>3. pub'[p] = Quiet(pub[p].count) /\ \A q \in Publishers : q # p => pub'[q] = pub[q]
  BY <1>2
<1>4. /\ pub'[p] \in Calls /\ pub'[p].at = "out" /\ pub'[p].i = 0 /\ pub'[p].len = 0
  BY <1>2, <1>3 DEF Quiet, Calls
<1>5. TypeOK'
  <2>1. pub' \in [Publishers -> Calls]
    BY <1>2, <1>3, <1>4
  <2>2. \A q \in Publishers : /\ pub'[q].i \in 0 .. pub'[q].len
                              /\ pub'[q].at = "send" => pub'[q].to \in Channels
    BY <1>1, <1>3, <1>4 DEF TypeOK
  <2>3. QED
    BY <1>1, <2>1, <2>2 DEF TypeOK
<1>6. ListInv' /\ \A q \in Publishers : q # p => WalkInv(q)' /\ ExactInv(q)'
  BY <1>3, ListStays
<1>7. WalkInv(p)' /\ ExactInv(p)'
  BY <1>4 DEF WalkInv, ExactInv
<1>8. QED
  BY <1>5, <1>6, <1>7 DEF BroadcastInv

\* A subscriber takes a message.
LEMMA TakeStep ==
  ASSUME BroadcastInv, NEW c \in Channels, Take(c)
  PROVE  BroadcastInv'
<1> USE DEF Take
<1>1. TypeOK
  BY DEF BroadcastInv
<1>2. buffer \in [Channels -> Seq(Messages)] /\ Len(buffer[c]) <= ChannelSize
  BY <1>1 DEF TypeOK
<1>3. /\ Tail(buffer[c]) \in Seq(Messages) /\ Len(Tail(buffer[c])) <= ChannelSize
  BY <1>2, BroadcastAssumption
<1>4. TypeOK'
  <2>1. /\ buffer' \in [Channels -> Seq(Messages)]
        /\ \A d \in Channels : Len(buffer'[d]) <= ChannelSize
    BY <1>1, <1>2, <1>3 DEF TypeOK
  <2>2. QED
    BY <1>1, <2>1 DEF TypeOK
<1>5. QED
  BY <1>4, ListStays DEF BroadcastInv

\* The select: a channel of an unraced publisher is open, and gets its one copy
\* or is noted as full.
LEMMA SendStep ==
  ASSUME BroadcastInv, NEW p \in Publishers, Send(p)
  PROVE  BroadcastInv'
<1> DEFINE c == pub[p].to
<1>1. TypeOK /\ WalkInv(p) /\ ExactInv(p)
  BY DEF BroadcastInv
<1>2. /\ pub \in [Publishers -> Calls] /\ pub[p] \in Calls /\ pub[p].at = "send"
      /\ c \in Channels /\ state \in [Channels -> {"new", "open", "closed"}]
      /\ buffer \in [Channels -> Seq(Messages)] /\ Len(buffer[c]) <= ChannelSize
      /\ UNCHANGED <<arrays, header, state, unsub>>
  BY <1>1 DEF TypeOK, Send
<1>3. /\ pub[p].i \in Nat /\ pub[p].len \in Nat /\ pub[p].i \in 1 .. pub[p].len
      /\ pub[p].sent \in [Channels -> Nat] /\ pub[p].count \in Nat
      /\ pub[p].count \in 1 .. MaxMessages
  <2>1. pub[p].i > 0 /\ pub[p].count > 0
    BY <1>1, <1>2 DEF WalkInv
  <2>2. pub[p].count \in 0 .. MaxMessages
    BY <1>2 DEF Calls
  <2>3. QED
    BY <1>1, <2>1, <2>2, Types, BroadcastAssumption
<1>4. Message(p) \in Messages
  BY <1>3 DEF Message, Messages
<1>5. ~pub[p].raced => /\ state[c] = "open" /\ c = Copied(p, pub[p].i)
  BY <1>1, <1>2, <1>3 DEF ExactInv
<1>6. \/ /\ state[c] = "closed"
         /\ pub' = [pub EXCEPT ![p].at = "panic"] /\ buffer' = buffer
      \/ /\ state[c] # "closed" /\ Len(buffer[c]) < ChannelSize
         /\ buffer' = [buffer EXCEPT ![c] = Append(@, Message(p))]
         /\ pub' = [pub EXCEPT ![p].at = "loop", ![p].sent[c] = @ + 1]
      \/ /\ state[c] # "closed"
         /\ pub' = [pub EXCEPT ![p].at = "loop", ![p].full = @ \cup {c}] /\ buffer' = buffer
  <2>1. CASE state[c] = "closed"
    BY <2>1 DEF Send
  <2>2. CASE state[c] = "open" /\ Len(buffer[c]) < ChannelSize
    BY <2>2 DEF Send
  <2>3. CASE state[c] # "closed" /\ ~(state[c] = "open" /\ Len(buffer[c]) < ChannelSize)
    BY <2>3 DEF Send
  <2>4. QED
    BY <2>1, <2>2, <2>3
<1> HIDE DEF c
<1>7. /\ \A q \in Publishers : q # p => pub'[q] = pub[q]
      /\ pub'[p] \in Calls /\ pub' \in [Publishers -> Calls]
      /\ pub'[p].at \in {"loop", "panic"} /\ pub'[p].count = pub[p].count
      /\ pub'[p].array = pub[p].array /\ pub'[p].len = pub[p].len /\ pub'[p].i = pub[p].i
      /\ pub'[p].first = pub[p].first /\ pub'[p].raced = pub[p].raced
  <2>1. CASE pub' = [pub EXCEPT ![p].at = "panic"]
    BY <1>2, <2>1 DEF Calls
  <2>2. CASE pub' = [pub EXCEPT ![p].at = "loop", ![p].sent[c] = @ + 1]
    <3>1. [pub[p].sent EXCEPT ![c] = @ + 1] \in [Channels -> Nat]
      BY <1>2, <1>3
    <3>2. pub'[p] = [pub[p] EXCEPT !.at = "loop", !.sent = [pub[p].sent EXCEPT ![c] = @ + 1]]
      BY <1>2, <2>2 DEF Calls
    <3>3. pub'[p] \in Calls
      BY <1>2, <3>1, <3>2 DEF Calls
    <3>4. QED
      BY <1>2, <2>2, <3>2, <3>3 DEF Calls
  <2>3. CASE pub' = [pub EXCEPT ![p].at = "loop", ![p].full = @ \cup {c}]
    BY <1>2, <2>3 DEF Calls
  <2>4. QED
    BY <1>6, <2>1, <2>2, <2>3
<1>8. TypeOK'
  <2>1. /\ buffer' \in [Channels -> Seq(Messages)]
        /\ \A d \in Channels : Len(buffer'[d]) <= ChannelSize
    <3>1. CASE buffer' = buffer
      BY <1>1, <3>1 DEF TypeOK
    <3>2. CASE Len(buffer[c]) < ChannelSize /\ buffer' = [buffer EXCEPT ![c] = Append(@, Message(p))]
      <4>1. buffer[c] \in Seq(Messages) /\ Append(buffer[c], Message(p)) \in Seq(Messages)
            /\ Len(Append(buffer[c], Message(p))) = Len(buffer[c]) + 1
        BY <1>2, <1>4
      <4>2. Len(Append(buffer[c], Message(p))) <= ChannelSize
        BY <3>2, <4>1, BroadcastAssumption
      <4>3. QED
        BY <1>1, <1>2, <3>2, <4>1, <4>2 DEF TypeOK
    <3>3. QED
      BY <1>6, <3>1, <3>2
  <2>2. \A q \in Publishers : /\ pub'[q].i \in 0 .. pub'[q].len
                              /\ pub'[q].at = "send" => pub'[q].to \in Channels
    BY <1>1, <1>7 DEF TypeOK
  <2>3. QED
    BY <1>1, <1>2, <1>7, <2>1, <2>2 DEF TypeOK
<1>9. ListInv' /\ \A q \in Publishers : q # p => WalkInv(q)' /\ ExactInv(q)'
  BY <1>2, <1>7, ListStays
<1>10. /\ \A k : Copied(p, k)' = Copied(p, k)
       /\ (Unlocked' <=> Unlocked)
       /\ Within(pub[p].array, pub[p].len)' <=> Within(pub[p].array, pub[p].len)
  BY <1>2, <1>7 DEF Copied, Unlocked, Within
<1>11. Done(p)' = pub[p].i /\ Done(p) = pub[p].i - 1
  BY <1>2, <1>7 DEF Done
<1>12. WalkInv(p)'
  BY <1>1, <1>2, <1>7, <1>10 DEF WalkInv
<1>13. ExactInv(p)'
  <2>1. SUFFICES ASSUME ~pub'[p].raced PROVE ExactInv(p)'
    BY DEF ExactInv
  <2>2. ~pub[p].raced /\ state[c] = "open" /\ c = Copied(p, pub[p].i)
    BY <1>5, <1>7, <2>1
  <2> DEFINE before == {Copied(p, k) : k \in 1 .. pub[p].i - 1}
             after  == {Copied(p, k) : k \in 1 .. pub[p].i}
  <2>3. after = before \cup {c}
    BY <1>3, <2>2
  <2>4. /\ \A j, k \in 1 .. pub[p].len : Copied(p, j) = Copied(p, k) => j = k
        /\ pub[p].full \subseteq before
        /\ \A d \in Channels : pub[p].sent[d] = IF d \in before \ pub[p].full THEN 1 ELSE 0
    BY <1>1, <1>2, <1>11, <2>2 DEF ExactInv
  <2>5. c \notin before
    BY <1>3, <2>2, <2>4
  <2> HIDE DEF before, after
  <2>6. /\ pub'[p].at = "loop" /\ pub'[p].full \subseteq after
        /\ \A d \in Channels : pub'[p].sent[d] = IF d \in after \ pub'[p].full THEN 1 ELSE 0
    <3>1. CASE pub' = [pub EXCEPT ![p].at = "loop", ![p].sent[c] = @ + 1]
      <4>1. /\ pub'[p].at = "loop" /\ pub'[p].full = pub[p].full
            /\ pub'[p].sent = [pub[p].sent EXCEPT ![c] = @ + 1]
        BY <1>2, <3>1 DEF Calls
      <4>2. QED
        BY <1>2, <1>3, <2>3, <2>4, <2>5, <4>1
    <3>2. CASE pub' = [pub EXCEPT ![p].at = "loop", ![p].full = @ \cup {c}]
      <4>1. /\ pub'[p].at = "loop" /\ pub'[p].full = pub[p].full \cup {c}
            /\ pub'[p].sent = pub[p].sent
        BY <1>2, <3>2 DEF Calls
      <4>2. QED
        BY <1>2, <1>3, <2>3, <2>4, <2>5, <4>1
    <3>3. QED
      BY <1>6, <2>2, <3>1, <3>2
  <2>7. after = {Copied(p, k)' : k \in 1 .. Done(p)'}
    BY <1>10, <1>11 DEF after
  <2>8. QED
    BY <1>1, <1>2, <1>7, <1>10, <2>2, <2>6, <2>7 DEF ExactInv
<1>14. QED
  BY <1>8, <1>9, <1>12, <1>13 DEF BroadcastInv

(***************************************************************************)
(* Subscribe.                                                              *)
(***************************************************************************)

\* append, in place or into a new array: the list gets c behind its elements,
\* and no place of an older slice changes.
LEMMA AppendFacts ==
  ASSUME BroadcastInv, Unlocked, NEW c \in Channels, AppendChannel(c)
  PROVE  /\ arrays' \in Seq(Seq(Channels \cup {Nil})) /\ Len(arrays) <= Len(arrays')
         /\ header' \in [array : 1 .. Len(arrays'), len : Nat]
         /\ header'.len = header.len + 1 /\ header'.len <= Len(arrays'[header'.array])
         /\ \A k \in 1 .. header.len :
                arrays'[header'.array][k] = arrays[header.array][k]
         /\ arrays'[header'.array][header.len + 1] = c
         /\ header'.array = header.array \/ header'.array > Len(arrays)
         /\ \A a \in 1 .. Len(arrays) :
                /\ Len(arrays'[a]) = Len(arrays[a])
                /\ \A k \in 1 .. Len(arrays[a]) :
                       \/ arrays'[a][k] = arrays[a][k]
                       \/ a = header.array /\ k = header.len + 1 /\ arrays'[a][k] = c
<1> DEFINE h == header.array
           n == header.len
           S == Seq(Channels \cup {Nil})
<1>1. TypeOK /\ Within(h, n)
  BY DEF BroadcastInv, ListInv
<1>2. /\ Len(arrays) \in Nat /\ DOMAIN arrays = 1 .. Len(arrays) /\ arrays \in Seq(S)
      /\ \A a \in 1 .. Len(arrays) : /\ arrays[a] \in S /\ Len(arrays[a]) \in Nat
                                     /\ DOMAIN arrays[a] = 1 .. Len(arrays[a])
      /\ h \in Nat /\ h <= Len(arrays) /\ n \in Nat
  BY <1>1, Types DEF TypeOK
<1>3. header = [array |-> h, len |-> n]
  BY <1>1 DEF TypeOK
<1>4. CASE n < (IF h = 0 THEN 0 ELSE Len(arrays[h]))
  <2>1. h \in 1 .. Len(arrays) /\ n < Len(arrays[h])
    BY <1>2, <1>4
  <2>2. /\ arrays' = [arrays EXCEPT ![h] = [arrays[h] EXCEPT ![n + 1] = c]]
        /\ header' = [header EXCEPT !.len = n + 1]
    BY <1>4 DEF AppendChannel
  <2>3. header' = [array |-> h, len |-> n + 1]
    BY <1>3, <2>2
  <2> DEFINE b == [arrays[h] EXCEPT ![n + 1] = c]
  <2>4. n + 1 \in 1 .. Len(arrays[h]) /\ arrays[h] \in Seq(Channels \cup {Nil})
    BY <1>2, <2>1
  <2>5. /\ b \in S /\ Len(b) = Len(arrays[h]) /\ b[n + 1] = c
        /\ \A k \in 1 .. Len(arrays[h]) : k # n + 1 => b[k] = arrays[h][k]
    BY <2>4
  <2> HIDE DEF b, S
  <2>6. /\ arrays' \in Seq(S) /\ Len(arrays') = Len(arrays) /\ arrays'[h] = b
        /\ \A a \in 1 .. Len(arrays) : a # h => arrays'[a] = arrays[a]
    BY <1>2, <2>1, <2>2, <2>5 DEF b
  <2>7. /\ header'.array = h /\ header'.len = n + 1
        /\ header' \in [array : 1 .. Len(arrays'), len : Nat]
        /\ header'.len <= Len(arrays'[header'.array])
    BY <1>2, <2>1, <2>3, <2>5, <2>6
  <2>8. /\ \A k \in 1 .. n : arrays'[header'.array][k] = arrays[h][k]
        /\ arrays'[header'.array][n + 1] = c
    <3>1. \A k \in 1 .. n : k \in 1 .. Len(arrays[h]) /\ k # n + 1
      BY <1>2, <2>1
    <3>2. QED
      BY <2>5, <2>6, <2>7, <3>1
  <2>9. ASSUME NEW a \in 1 .. Len(arrays)
        PROVE  /\ Len(arrays'[a]) = Len(arrays[a])
               /\ \A k \in 1 .. Len(arrays[a]) :
                      \/ arrays'[a][k] = arrays[a][k]
                      \/ a = h /\ k = n + 1 /\ arrays'[a][k] = c
    <3>1. CASE a = h
      BY <2>5, <2>6, <3>1
    <3>2. CASE a # h
      BY <2>6, <3>2
    <3>3. QED
      BY <3>1, <3>2
  <2>10. QED
    BY <1>2, <2>6, <2>7, <2>8, <2>9 DEF S
<1>5. CASE ~(n < (IF h = 0 THEN 0 ELSE Len(arrays[h])))
  <2> DEFINE m == IF n = 0 THEN 1 ELSE 2 * n
             b == [i \in 1 .. m |-> IF i <= n THEN arrays[h][i]
                                    ELSE IF i = n + 1 THEN c ELSE Nil]
  <2>1. arrays' = Append(arrays, b) /\ header' = [array |-> Len(arrays'), len |-> n + 1]
    BY <1>5 DEF AppendChannel
  <2>2. m \in Nat /\ n + 1 \in 1 .. m
    BY <1>2
  <2> HIDE DEF m
  <2>3. \A i \in 1 .. n : arrays[h][i] \in Channels \cup {Nil}
    BY <1>1, UnlockedList DEF Open
  <2>4. b \in [1 .. m -> Channels \cup {Nil}]
    BY <2>2, <2>3
  <2>5. b \in S /\ Len(b) = m
    BY <2>2, <2>4
  <2>6. b[n + 1] = c /\ \A i \in 1 .. n : b[i] = arrays[h][i]
    BY <1>2, <2>2
  <2> HIDE DEF b, S
  <2>7. /\ arrays' \in Seq(S) /\ Len(arrays') = Len(arrays) + 1
        /\ arrays'[Len(arrays) + 1] = b
        /\ \A a \in 1 .. Len(arrays) : arrays'[a] = arrays[a]
    BY <1>2, <2>1, <2>5
  <2>8. header'.array = Len(arrays) + 1 /\ header'.len = n + 1
        /\ header' \in [array : 1 .. Len(arrays'), len : Nat]
    BY <1>2, <2>1, <2>7
  <2>9. QED
    BY <1>2, <2>2, <2>5, <2>6, <2>7, <2>8 DEF S
<1>6. QED
  BY <1>4, <1>5

\* A subscription: the list gains the channel, and a publisher that is under way
\* does not see it.
LEMMA SubscribeStep ==
  ASSUME BroadcastInv, NEW c \in Channels, Subscribe(c)
  PROVE  BroadcastInv'
<1>1. /\ Unlocked /\ state[c] = "new" /\ state' = [state EXCEPT ![c] = "open"]
      /\ AppendChannel(c) /\ UNCHANGED <<buffer, unsub, pub>>
  BY DEF Subscribe
<1>2. TypeOK /\ ListInv
  BY DEF BroadcastInv
<1>3. /\ Len(arrays) \in Nat
      /\ \A a \in 1 .. Len(arrays) : Len(arrays[a]) \in Nat
      /\ header.array \in Nat /\ header.array <= Len(arrays) /\ header.len \in Nat
      /\ state \in [Channels -> {"new", "open", "closed"}]
  BY <1>2, Types DEF TypeOK
<1>4. /\ arrays' \in Seq(Seq(Channels \cup {Nil})) /\ Len(arrays) <= Len(arrays')
      /\ header' \in [array : 1 .. Len(arrays'), len : Nat]
      /\ header'.len = header.len + 1 /\ header'.len <= Len(arrays'[header'.array])
      /\ \A k \in 1 .. header.len :
             arrays'[header'.array][k] = arrays[header.array][k]
      /\ arrays'[header'.array][header.len + 1] = c
      /\ header'.array = header.array \/ header'.array > Len(arrays)
      /\ \A a \in 1 .. Len(arrays) :
             /\ Len(arrays'[a]) = Len(arrays[a])
             /\ \A k \in 1 .. Len(arrays[a]) :
                    \/ arrays'[a][k] = arrays[a][k]
                    \/ a = header.array /\ k = header.len + 1 /\ arrays'[a][k] = c
  BY <1>1, AppendFacts
<1>5. Open' = Open \cup {c} /\ c \notin Open
  BY <1>1, <1>3 DEF Open
<1>6. /\ header'.len = Cardinality(Open') /\ header'.len <= Cardinality(Channels)
      /\ Cardinality(Channels) \in Nat
  <2>1. IsFiniteSet(Channels) /\ Open \subseteq Channels /\ Open' \subseteq Channels
    BY BroadcastAssumption DEF Open
  <2>2. IsFiniteSet(Open)
    BY <2>1, FS_Subset
  <2>3. Cardinality(Open') = Cardinality(Open) + 1
    BY <1>5, <2>2, FS_AddElement
  <2>4. Cardinality(Open') <= Cardinality(Channels) /\ Cardinality(Channels) \in Nat
    BY <2>1, FS_Subset, FS_CardinalityType
  <2>5. QED
    BY <1>2, <1>4, <2>3, <2>4 DEF ListInv
<1>7. TypeOK'
  <2>1. header' \in [array : 0 .. Len(arrays'), len : 0 .. Cardinality(Channels)]
    BY <1>3, <1>4, <1>6
  <2>2. state' \in [Channels -> {"new", "open", "closed"}]
    BY <1>1, <1>3
  <2>3. QED
    BY <1>1, <1>2, <1>4, <2>1, <2>2 DEF TypeOK
<1>8. ListInv'
  <2>1. /\ Unlocked' /\ DOMAIN unsub'.slots = {} /\ Size' = header.len + 1
        /\ Members' = Open \cup {c}
    BY <1>1, <1>4, <1>5, UnlockedList DEF Unlocked, Size, Members
  <2>2. \A k \in 1 .. header.len : Elem(k)' = arrays[header.array][k]
    BY <1>4, <2>1 DEF Elem
  <2>3. \A k : k = header.len + 1 => Elem(k)' = c
    BY <1>4, <2>1 DEF Elem
  <2>4. \A k \in 1 .. header.len + 1 : k \in 1 .. header.len \/ k = header.len + 1
    BY <1>3
  <2>5. header.len + 1 \in 1 .. header.len + 1 /\ 1 .. header.len \subseteq 1 .. header.len + 1
    BY <1>3
  <2>6. /\ \A k \in 1 .. header.len : arrays[header.array][k] \in Open
        /\ \A j, k \in 1 .. header.len :
               arrays[header.array][j] = arrays[header.array][k] => j = k
        /\ \A d \in Open : \E k \in 1 .. header.len : arrays[header.array][k] = d
    BY <1>1, UnlockedList
  <2>7. \A k \in 1 .. Size' : Elem(k)' \in Members'
    BY <2>1, <2>2, <2>3, <2>4, <2>6
  <2>8. \A j, k \in 1 .. Size' : Elem(j)' = Elem(k)' => j = k
    BY <1>5, <2>1, <2>2, <2>3, <2>4, <2>6
  <2>9. \A d \in Members' : \E k \in 1 .. Size' : Elem(k)' = d
    BY <2>1, <2>2, <2>3, <2>5, <2>6
  <2>10. Within(header.array, header.len)'
    BY <1>3, <1>4 DEF Within
  <2>11. unsub' = [channel |-> unsub'.channel, slots |-> unsub'.slots]
    BY <1>1, <1>2 DEF ListInv
  <2>12. QED
    BY <1>6, <2>1, <2>7, <2>8, <2>9, <2>10, <2>11 DEF ListInv
<1>9. ASSUME NEW p \in Publishers PROVE WalkInv(p)' /\ ExactInv(p)'
  <2>1. WalkInv(p) /\ ExactInv(p) /\ pub'[p] = pub[p]
    BY <1>1 DEF BroadcastInv
  <2>2. pub[p].array \in Nat /\ pub[p].len \in Nat /\ pub[p].i \in Nat /\ pub[p].i <= pub[p].len
    BY <1>2, Types
  <2>3. SUFFICES ASSUME pub[p].at # "out" PROVE WalkInv(p)' /\ ExactInv(p)'
    BY <2>1 DEF WalkInv, ExactInv
  <2>4. Within(pub[p].array, pub[p].len)
    BY <2>1, <2>3 DEF WalkInv
  <2>5. Within(pub[p].array, pub[p].len)'
    <3>1. CASE pub[p].array = 0
      BY <2>1, <2>4, <3>1 DEF Within
    <3>2. CASE pub[p].array # 0
      <4>1. pub[p].array \in 1 .. Len(arrays) /\ pub[p].len <= Len(arrays[pub[p].array])
        BY <1>3, <2>2, <2>4, <3>2 DEF Within
      <4>2. Len(arrays') \in Nat /\ Len(arrays) <= Len(arrays')
        BY <1>4
      <4>3. Len(arrays'[pub[p].array]) = Len(arrays[pub[p].array])
        BY <1>4, <4>1
      <4>4. pub[p].array <= Len(arrays') /\ pub[p].len <= Len(arrays'[pub[p].array])
        BY <1>3, <2>2, <4>1, <4>2, <4>3
      <4>5. QED
        BY <2>1, <3>2, <4>4 DEF Within
    <3>3. QED
      BY <3>1, <3>2
  <2>6. ASSUME NEW k \in 1 .. pub[p].len
        PROVE  \/ Copied(p, k)' = Copied(p, k)
               \/ /\ pub[p].array = header.array /\ k = header.len + 1
                  /\ Copied(p, k)' = c
    <3>1. pub[p].array \in 1 .. Len(arrays) /\ k \in 1 .. Len(arrays[pub[p].array])
      BY <1>3, <2>2, <2>4, <2>6 DEF Within
    <3>2. QED
      BY <1>4, <2>1, <3>1 DEF Copied
  <2>7. WalkInv(p)'
    BY <2>1, <2>3, <2>5, <2>6 DEF WalkInv
  <2>8. ExactInv(p)'
    <3>1. SUFFICES ASSUME ~pub[p].raced PROVE ExactInv(p)'
      BY <2>1 DEF ExactInv
    <3>2. \A k \in 1 .. pub[p].len : Copied(p, k)' = Copied(p, k)
      BY <1>3, <2>1, <2>2, <2>3, <2>6, <3>1 DEF ExactInv
    <3>3. \A k \in 1 .. pub[p].len : state'[Copied(p, k)'] = "open"
      BY <1>1, <1>3, <2>1, <2>3, <3>1, <3>2 DEF ExactInv, WalkInv
    <3>4. pub[p].array = header'.array => pub[p].len <= header'.len
      <4>1. pub[p].array <= Len(arrays)
        BY <1>3, <2>2, <2>4 DEF Within
      <4>2. CASE header'.array = header.array
        BY <1>3, <1>4, <2>1, <2>2, <2>3, <3>1, <4>2 DEF ExactInv
      <4>3. CASE header'.array > Len(arrays)
        BY <1>3, <1>4, <2>2, <4>1, <4>3
      <4>4. QED
        BY <1>4, <4>2, <4>3
    <3>5. Done(p)' = Done(p) /\ 1 .. Done(p) \subseteq 1 .. pub[p].len
      BY <2>1, <2>2 DEF Done
    <3>6. /\ {Copied(p, k)' : k \in 1 .. pub[p].len} = {Copied(p, k) : k \in 1 .. pub[p].len}
          /\ {Copied(p, k)' : k \in 1 .. Done(p)'} = {Copied(p, k) : k \in 1 .. Done(p)}
      BY <3>2, <3>5
    <3>7. pub[p].at = "send" => pub[p].to = Copied(p, pub[p].i)'
      <4>1. pub[p].at = "send" => pub[p].i \in 1 .. pub[p].len /\ pub[p].to = Copied(p, pub[p].i)
        BY <2>1, <2>2, <2>3, <3>1 DEF ExactInv, WalkInv
      <4>2. Copied(p, pub[p].i)' = arrays'[pub[p].array][pub[p].i]
        BY <2>1 DEF Copied
      <4>3. QED
        BY <2>1, <3>2, <4>1, <4>2 DEF Copied
    <3>8. Unlocked'
      BY <1>1 DEF Unlocked
    <3>9. QED
      BY <2>1, <2>3, <3>1, <3>2, <3>3, <3>4, <3>6, <3>7, <3>8 DEF ExactInv
  <2>9. QED
    BY <2>7, <2>8
<1>10. QED
  BY <1>7, <1>8, <1>9 DEF BroadcastInv

(***************************************************************************)
(* Unsubscribe.                                                            *)
(***************************************************************************)

\* The lock is taken: without the channel at i the list is as it should be, and
\* every publisher under way counts as raced.
LEMMA UnsubscribeStep ==
  ASSUME BroadcastInv, NEW c \in Channels, Unsubscribe(c)
  PROVE  BroadcastInv'
<1> DEFINE a == arrays[header.array]
           n == header.len
           Found(k) == a[k] = c /\ \A m \in 1 .. k - 1 : a[m] # c
           i == CHOOSE k \in 1 .. n : Found(k)
           slots == [k \in i .. n - 1 |-> a[k + 1]]
           Raced(p) == pub[p].raced \/ pub[p].at # "out"
<1>1. /\ Unlocked /\ c \in Listed
      /\ unsub' = [channel |-> c, slots |-> slots]
      /\ pub' = [p \in Publishers |-> [pub[p] EXCEPT !.raced = Raced(p)]]
      /\ UNCHANGED <<arrays, header, state, buffer>>
  BY DEF Unsubscribe
<1>2. TypeOK /\ ListInv
  BY DEF BroadcastInv
<1>3. n \in Nat /\ pub \in [Publishers -> Calls]
  BY <1>2, Types DEF TypeOK
<1>4. /\ \A k \in 1 .. n : a[k] \in Open
      /\ \A j, k \in 1 .. n : a[j] = a[k] => j = k
      /\ \A d \in Open : \E k \in 1 .. n : a[k] = d
      /\ c \in Open
  BY <1>1, UnlockedList
<1>5. i \in 1 .. n /\ a[i] = c
  <2>1. PICK k \in 1 .. n : a[k] = c
    BY <1>4
  <2>2. Found(k)
    BY <1>3, <1>4, <2>1
  <2> HIDE DEF Found
  <2>3. i \in 1 .. n /\ Found(i)
    BY <2>2
  <2>4. QED
    BY <2>3 DEF Found
<1> HIDE DEF a, i, Found
<1>6. /\ unsub'.channel = c /\ unsub'.slots = slots /\ DOMAIN unsub'.slots = i .. n - 1
      /\ \A k \in i .. n - 1 : unsub'.slots[k] = a[k + 1]
  BY <1>1
<1> HIDE DEF slots
<1>7. ~Unlocked'
  BY <1>6, BroadcastAssumption DEF Unlocked, NoCall
<1>8. Size' = n - 1 /\ Members' = Open \ {c}
  BY <1>1, <1>6, <1>7 DEF Size, Members, Open
<1>9. \A k \in 1 .. n - 1 : Elem(k)' = IF k \in i .. n - 1 THEN a[k + 1] ELSE a[k]
  BY <1>1, <1>6 DEF Elem, a
<1>10. ListInv'
  <2>1. i .. n - 1 \subseteq 1 .. n - 1
    BY <1>3, <1>5
  <2>2. \A k \in 1 .. n - 1 : Elem(k)' \in Open \ {c}
    BY <1>3, <1>4, <1>5, <1>9
  <2>3. \A j, k \in 1 .. n - 1 : Elem(j)' = Elem(k)' => j = k
    BY <1>3, <1>4, <1>5, <1>9
  <2>4. ASSUME NEW d \in Open \ {c} PROVE \E k \in 1 .. n - 1 : Elem(k)' = d
    <3>1. PICK k \in 1 .. n : a[k] = d
      BY <1>4
    <3>2. CASE k < i
      <4>1. k \in 1 .. n - 1 /\ Elem(k)' = d
        BY <1>3, <1>5, <1>9, <3>1, <3>2
      <4>2. QED
        BY <4>1
    <3>3. CASE k > i
      <4>1. k - 1 \in i .. n - 1 /\ k - 1 \in 1 .. n - 1 /\ (k - 1) + 1 = k
        BY <1>3, <1>5, <3>1, <3>3
      <4>2. Elem(k - 1)' = d
        BY <1>9, <3>1, <4>1
      <4>3. QED
        BY <4>1, <4>2
    <3>4. QED
      BY <1>3, <1>5, <3>1, <3>2, <3>3
  <2>5. Within(header.array, header.len)' /\ header'.len = Cardinality(Open')
    BY <1>1, <1>2 DEF ListInv, Within, Open
  <2>6. unsub'.channel \in Open'
    BY <1>1, <1>4, <1>6 DEF Open
  <2>7. unsub' = [channel |-> unsub'.channel, slots |-> unsub'.slots]
    BY <1>1, <1>6
  <2>8. QED
    BY <1>6, <1>8, <2>1, <2>2, <2>3, <2>4, <2>5, <2>6, <2>7 DEF ListInv
<1>11. \A p \in Publishers :
           /\ pub'[p] \in Calls
           /\ pub'[p].at = pub[p].at /\ pub'[p].array = pub[p].array
           /\ pub'[p].len = pub[p].len /\ pub'[p].i = pub[p].i /\ pub'[p].to = pub[p].to
           /\ pub'[p].count = pub[p].count
           /\ pub[p].at # "out" => pub'[p].raced
  <2>1. \A p \in Publishers : Raced(p) \in BOOLEAN
    BY Zenon
  <2>2. \A p \in Publishers : pub[p].at # "out" => Raced(p)
    BY Zenon
  <2> HIDE DEF Raced
  <2>3. QED
    BY <1>1, <1>3, <2>1, <2>2 DEF Calls
<1>12. TypeOK'
  <2>1. pub' \in [Publishers -> Calls]
    BY <1>1, <1>11
  <2>2. \A p \in Publishers : /\ pub'[p].i \in 0 .. pub'[p].len
                              /\ pub'[p].at = "send" => pub'[p].to \in Channels
    BY <1>2, <1>11 DEF TypeOK
  <2>3. QED
    BY <1>1, <1>2, <1>6, <2>1, <2>2 DEF TypeOK
<1>13. ASSUME NEW p \in Publishers PROVE WalkInv(p)' /\ ExactInv(p)'
  <2>1. WalkInv(p)
    BY DEF BroadcastInv
  <2>2. QED
    BY <1>1, <1>11, <2>1 DEF WalkInv, ExactInv, Copied, Within
<1>14. QED
  BY <1>10, <1>12, <1>13 DEF BroadcastInv

\* An element is moved to its place: the list to be stays as it is.
LEMMA MoveElementStep ==
  ASSUME BroadcastInv, MoveElement
  PROVE  BroadcastInv'
<1> DEFINE h == header.array
           S == Seq(Channels \cup {Nil})
<1>1. PICK k \in DOMAIN unsub.slots :
          /\ arrays' = [arrays EXCEPT ![h] = [arrays[h] EXCEPT ![k] = unsub.slots[k]]]
          /\ unsub' = [unsub EXCEPT !.slots =
                           [m \in DOMAIN unsub.slots \ {k} |-> unsub.slots[m]]]
  BY DEF MoveElement
<1>2. ~Unlocked /\ UNCHANGED <<header, state, buffer, pub>>
  BY DEF MoveElement
<1>3. TypeOK /\ ListInv
  BY DEF BroadcastInv
<1>4. /\ Len(arrays) \in Nat /\ DOMAIN arrays = 1 .. Len(arrays) /\ arrays \in Seq(S)
      /\ \A a \in 1 .. Len(arrays) : /\ arrays[a] \in S /\ Len(arrays[a]) \in Nat
                                     /\ DOMAIN arrays[a] = 1 .. Len(arrays[a])
      /\ h \in Nat /\ h <= Len(arrays) /\ header.len \in Nat
  BY <1>3, Types DEF TypeOK
<1>5. /\ Size = header.len - 1 /\ Members = Open \ {unsub.channel}
      /\ k \in 1 .. Size /\ DOMAIN unsub.slots \subseteq 1 .. Size
      /\ Within(h, header.len)
  BY <1>2, <1>3 DEF Size, Members, ListInv
<1>6. h \in 1 .. Len(arrays) /\ k \in 1 .. Len(arrays[h]) /\ header.len <= Len(arrays[h])
  BY <1>4, <1>5 DEF Within
<1>7. unsub.slots[k] \in Open /\ unsub.slots[k] \in Channels
  BY <1>3, <1>5 DEF ListInv, Elem, Open
<1> DEFINE b == [arrays[h] EXCEPT ![k] = unsub.slots[k]]
<1>8. /\ b \in S /\ Len(b) = Len(arrays[h]) /\ b[k] = unsub.slots[k]
      /\ \A m \in 1 .. Len(arrays[h]) : m # k => b[m] = arrays[h][m]
  <2>1. arrays[h] \in Seq(Channels \cup {Nil})
    BY <1>4, <1>6
  <2>2. QED
    BY <1>6, <1>7, <2>1
<1> HIDE DEF S, b
<1>9. /\ arrays' \in Seq(S) /\ Len(arrays') = Len(arrays) /\ arrays'[h] = b
      /\ \A a \in 1 .. Len(arrays) : a # h => arrays'[a] = arrays[a]
  BY <1>1, <1>4, <1>6, <1>8 DEF b
<1>10. \A a \in 1 .. Len(arrays) :
           /\ Len(arrays'[a]) = Len(arrays[a])
           /\ \A m \in 1 .. Len(arrays[a]) :
                  arrays'[a][m] = arrays[a][m] \/ arrays'[a][m] \in Channels
  <2>1. TAKE a \in 1 .. Len(arrays)
  <2>2. CASE a = h
    BY <1>7, <1>8, <1>9, <2>2
  <2>3. CASE a # h
    BY <1>9, <2>3
  <2>4. QED
    BY <2>2, <2>3
<1>11. /\ unsub'.channel = unsub.channel
       /\ DOMAIN unsub'.slots = DOMAIN unsub.slots \ {k}
       /\ \A m \in DOMAIN unsub.slots \ {k} : unsub'.slots[m] = unsub.slots[m]
       /\ unsub' = [channel |-> unsub'.channel, slots |-> unsub'.slots]
  <2>1. unsub = [channel |-> unsub.channel, slots |-> unsub.slots]
    BY <1>3 DEF ListInv
  <2>2. unsub' = [channel |-> unsub.channel,
                  slots |-> [m \in DOMAIN unsub.slots \ {k} |-> unsub.slots[m]]]
    BY <1>1, <2>1
  <2>3. QED
    BY <2>2
<1>12. ~Unlocked' /\ Size' = Size /\ Members' = Members
  <2>1. unsub.channel \in Channels /\ unsub.channel # Nil
    BY <1>2, <1>3, BroadcastAssumption DEF ListInv, Open
  <2>2. ~Unlocked'
    BY <1>11, <2>1 DEF Unlocked, NoCall
  <2>3. QED
    BY <1>2, <1>5, <1>11, <2>2 DEF Size, Members, Open
<1>13. \A m \in 1 .. Size : Elem(m)' = Elem(m)
  <2>1. TAKE m \in 1 .. Size
  <2>2. m \in 1 .. Len(arrays[h])
    BY <1>4, <1>5, <1>6
  <2>3. Elem(m)' = IF m \in DOMAIN unsub.slots \ {k} THEN unsub.slots[m] ELSE b[m]
    BY <1>2, <1>9, <1>11 DEF Elem
  <2>4. CASE m = k
    BY <1>8, <2>3, <2>4 DEF Elem
  <2>5. CASE m # k
    BY <1>8, <2>2, <2>3, <2>5 DEF Elem
  <2>6. QED
    BY <2>4, <2>5
<1>14. ListInv'
  <2>1. Within(header.array, header.len)'
    BY <1>2, <1>5, <1>6, <1>9, <1>10 DEF Within
  <2>2. Open' = Open
    BY <1>2 DEF Open
  <2>3. /\ \A m \in 1 .. Size' : Elem(m)' \in Members'
        /\ \A j, m \in 1 .. Size' : Elem(j)' = Elem(m)' => j = m
        /\ \A d \in Members' : \E m \in 1 .. Size' : Elem(m)' = d
    BY <1>3, <1>12, <1>13 DEF ListInv
  <2>4. DOMAIN unsub'.slots \subseteq 1 .. Size'
    BY <1>5, <1>11, <1>12
  <2>5. header'.len = Cardinality(Open') /\ unsub'.channel \in Open'
    BY <1>2, <1>3, <1>11, <2>2 DEF ListInv
  <2>6. QED
    BY <1>11, <2>1, <2>3, <2>4, <2>5 DEF ListInv
<1>15. TypeOK'
  BY <1>2, <1>3, <1>9, <1>11 DEF TypeOK, S
<1>16. ASSUME NEW p \in Publishers PROVE WalkInv(p)' /\ ExactInv(p)'
  <2>1. WalkInv(p) /\ ExactInv(p) /\ pub'[p] = pub[p]
    BY <1>2 DEF BroadcastInv
  <2>2. ExactInv(p)'
    BY <1>2, <2>1 DEF ExactInv
  <2>3. SUFFICES ASSUME pub[p].at # "out" PROVE WalkInv(p)'
    BY <2>1, <2>2 DEF WalkInv
  <2>4. pub[p].array \in Nat /\ pub[p].len \in Nat /\ Within(pub[p].array, pub[p].len)
    BY <1>3, <2>1, <2>3, Types DEF WalkInv
  <2>5. Within(pub[p].array, pub[p].len)'
    BY <1>4, <1>9, <1>10, <2>1, <2>4 DEF Within
  <2>6. \A m \in 1 .. pub[p].len : Copied(p, m)' \in Channels
    <3>1. TAKE m \in 1 .. pub[p].len
    <3>2. pub[p].array \in 1 .. Len(arrays) /\ m \in 1 .. Len(arrays[pub[p].array])
      BY <1>4, <2>4 DEF Within
    <3>3. Copied(p, m) \in Channels
      BY <2>1, <2>3 DEF WalkInv
    <3>4. QED
      BY <1>10, <2>1, <3>2, <3>3 DEF Copied
  <2>7. QED
    BY <2>1, <2>3, <2>5, <2>6 DEF WalkInv
<1>17. QED
  BY <1>14, <1>15, <1>16 DEF BroadcastInv

\* The channel is closed and the lock released: the shorter slice is the list.
LEMMA CloseChannelStep ==
  ASSUME BroadcastInv, CloseChannel
  PROVE  BroadcastInv'
<1> DEFINE c == unsub.channel
<1>1. /\ ~Unlocked /\ DOMAIN unsub.slots = {}
      /\ header' = [header EXCEPT !.len = header.len - 1]
      /\ state' = [state EXCEPT ![c] = "closed"]
      /\ unsub' = NoCall /\ UNCHANGED <<arrays, buffer, pub>>
  BY DEF CloseChannel
<1>2. TypeOK /\ ListInv
  BY DEF BroadcastInv
<1>3. /\ header.array \in Nat /\ header.array <= Len(arrays) /\ header.len \in Nat
      /\ state \in [Channels -> {"new", "open", "closed"}]
      /\ header = [array |-> header.array, len |-> header.len]
  BY <1>2, Types DEF TypeOK
<1>4. c \in Open /\ c \in Channels
  BY <1>1, <1>2 DEF ListInv, Open
<1>5. Open' = Open \ {c}
  BY <1>1, <1>3, <1>4 DEF Open
<1>6. /\ header.len > 0 /\ header'.array = header.array /\ header'.len = header.len - 1
      /\ header'.len = Cardinality(Open')
      /\ header' \in [array : 0 .. Len(arrays), len : 0 .. Cardinality(Channels)]
  <2>1. IsFiniteSet(Channels) /\ Open \subseteq Channels /\ Cardinality(Channels) \in Nat
    BY BroadcastAssumption, FS_CardinalityType DEF Open
  <2>2. IsFiniteSet(Open)
    BY <2>1, FS_Subset
  <2>3. Cardinality(Open \ {c}) = Cardinality(Open) - 1 /\ Cardinality(Open \ {c}) \in Nat
    BY <1>4, <2>2, FS_RemoveElement, FS_CardinalityType
  <2>4. header.len = Cardinality(Open)
    BY <1>2 DEF ListInv
  <2>5. header' = [array |-> header.array, len |-> header.len - 1]
    BY <1>1, <1>3
  <2>6. header.len \in 0 .. Cardinality(Channels) /\ header.array \in 0 .. Len(arrays)
    BY <1>2 DEF TypeOK
  <2>7. QED
    BY <1>3, <1>5, <2>1, <2>3, <2>4, <2>5, <2>6
<1>7. TypeOK'
  <2>1. state' \in [Channels -> {"new", "open", "closed"}]
    BY <1>1, <1>3
  <2>2. unsub'.channel \in Channels \cup {Nil}
    BY <1>1 DEF NoCall
  <2>3. QED
    BY <1>1, <1>2, <1>6, <2>1, <2>2 DEF TypeOK
<1>8. ListInv'
  <2>1. Unlocked' /\ unsub'.slots = <<>> /\ unsub' = [channel |-> unsub'.channel, slots |-> unsub'.slots]
    BY <1>1 DEF Unlocked, NoCall
  <2>2. DOMAIN unsub'.slots = {}
    BY <2>1
  <2>3. Size' = Size /\ Members' = Members
    BY <1>1, <1>5, <1>6, <2>1 DEF Size, Members
  <2>4. \A k : Elem(k)' = Elem(k)
    BY <1>1, <1>6, <2>2 DEF Elem
  <2>5. Within(header.array, header.len)'
    <3>1. Within(header.array, header.len)
      BY <1>2 DEF ListInv
    <3>2. header.array # 0 /\ header.array \in 1 .. Len(arrays) /\ Len(arrays[header.array]) \in Nat
      BY <1>2, <1>3, <1>6, <3>1, Types DEF Within
    <3>3. QED
      BY <1>1, <1>3, <1>6, <3>1, <3>2 DEF Within
  <2>6. /\ \A k \in 1 .. Size' : Elem(k)' \in Members'
        /\ \A j, k \in 1 .. Size' : Elem(j)' = Elem(k)' => j = k
        /\ \A d \in Members' : \E k \in 1 .. Size' : Elem(k)' = d
    BY <1>2, <2>3, <2>4 DEF ListInv
  <2>7. QED
    BY <1>6, <2>1, <2>2, <2>5, <2>6 DEF ListInv
<1>9. ASSUME NEW p \in Publishers PROVE WalkInv(p)' /\ ExactInv(p)'
  <2>1. WalkInv(p) /\ ExactInv(p) /\ pub'[p] = pub[p]
    BY <1>1 DEF BroadcastInv
  <2>2. ExactInv(p)'
    BY <1>1, <2>1 DEF ExactInv
  <2>3. QED
    BY <1>1, <2>1, <2>2 DEF WalkInv, Copied, Within
<1>10. QED
  BY <1>7, <1>8, <1>9 DEF BroadcastInv

(***************************************************************************)
(* The theorems.                                                           *)
(***************************************************************************)

\* Every step keeps the invariant.
LEMMA BroadcastNext ==
  ASSUME BroadcastInv, [Next]_vars
  PROVE  BroadcastInv'
<1>1. ASSUME NEW c \in Channels, Subscribe(c) PROVE BroadcastInv'
  BY <1>1, SubscribeStep
<1>2. ASSUME NEW c \in Channels, Unsubscribe(c) PROVE BroadcastInv'
  BY <1>2, UnsubscribeStep
<1>3. ASSUME NEW c \in Channels, Take(c) PROVE BroadcastInv'
  BY <1>3, TakeStep
<1>4. CASE MoveElement
  BY <1>4, MoveElementStep
<1>5. CASE CloseChannel
  BY <1>5, CloseChannelStep
<1>6. ASSUME NEW p \in Publishers, Publish(p) PROVE BroadcastInv'
  BY <1>6, PublishStep
<1>7. ASSUME NEW p \in Publishers, NextElement(p) PROVE BroadcastInv'
  BY <1>7, NextElementStep
<1>8. ASSUME NEW p \in Publishers, Send(p) PROVE BroadcastInv'
  BY <1>8, SendStep
<1>9. ASSUME NEW p \in Publishers, Return(p) PROVE BroadcastInv'
  BY <1>9, ReturnStep
<1>10. CASE UNCHANGED vars
  <2>1. TypeOK'
    BY <1>10 DEF vars, BroadcastInv, TypeOK
  <2>2. ListInv' /\ \A p \in Publishers : WalkInv(p)' /\ ExactInv(p)'
    BY <1>10, ListStays DEF vars
  <2>3. QED
    BY <2>1, <2>2 DEF BroadcastInv
<1>11. QED
  BY <1>1, <1>2, <1>3, <1>4, <1>5, <1>6, <1>7, <1>8, <1>9, <1>10 DEF Next

\* In every reachable state the list is the open channels but for the moves an
\* Unsubscribe still owes, and a publisher that no Unsubscribe has raced walks
\* an unchanged slice.
THEOREM BroadcastInvariant == Spec => []BroadcastInv
<1>1. Init => BroadcastInv
  BY BroadcastInit
<1>2. BroadcastInv /\ [Next]_vars => BroadcastInv'
  BY BroadcastNext
<1>3. QED
  BY <1>1, <1>2, PTL DEF Spec

\* No channel is lost or doubled by the appends and shifts in shared arrays:
\* whenever the lock of Subscribe and Unsubscribe is free, the list holds each
\* open channel once and no other.
THEOREM ListExact == Spec => []ListHoldsOpenChannels
<1>1. ASSUME BroadcastInv PROVE ListHoldsOpenChannels
  <2>1. ASSUME Unlocked PROVE Listed = Open /\ header.len = Cardinality(Listed)
    BY <1>1, <2>1, UnlockedList DEF BroadcastInv, ListInv
  <2>2. QED
    BY <1>1, <2>1 DEF BroadcastInv, ListHoldsOpenChannels, Open
<1>2. QED
  BY <1>1, BroadcastInvariant, PTL

\* A Publish during which no Unsubscribe ran sends one copy to each channel that
\* was subscribed when it began and not full, none to another, and never panics.
THEOREM PublishExact == Spec => []UnracedPublishIsExact
<1>1. ASSUME BroadcastInv PROVE UnracedPublishIsExact
  <2>1. ASSUME NEW p \in Publishers, pub[p].at = "panic" PROVE pub[p].raced
    BY <1>1, <2>1 DEF BroadcastInv, ExactInv
  <2>2. ASSUME NEW p \in Publishers, pub[p].at = "end", ~pub[p].raced, NEW c \in Channels
        PROVE  pub[p].sent[c] = IF c \in pub[p].first \ pub[p].full THEN 1 ELSE 0
    <3>1. WalkInv(p) /\ ExactInv(p)
      BY <1>1 DEF BroadcastInv
    <3>2. Done(p) = pub[p].len
      BY <2>2, <3>1 DEF WalkInv, Done
    <3>3. QED
      BY <2>2, <3>1, <3>2 DEF ExactInv
  <2>3. QED
    BY <2>1, <2>2 DEF UnracedPublishIsExact
<1>2. QED
  BY <1>1, BroadcastInvariant, PTL
=============================================================================
