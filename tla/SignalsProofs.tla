--------------------------- MODULE SignalsProofs ---------------------------
(***************************************************************************)
(* Proofs about Signals, for any goroutines, observers and values and any  *)
(* number of changes and depth of nesting.                                 *)
(***************************************************************************)
EXTENDS Signals, TLAPS

(***************************************************************************)
(* The inductive invariant.                                                *)
(***************************************************************************)

Places  == Observers \cup {Nil}
Frames  == [at : {"fn", "waiting", "snapshot", "notify"}, value : Values, number : Nat,
            todo : Seq(Places), in : Places]
Tellings == [number : Nat, value : Values]

Types ==
    /\ kind \in {"signal", "box", "list"}
    /\ value \in Values
    /\ observers \in Seq(Places)
    /\ index \in [Observers -> Nat]
    /\ calls \in [Goroutines -> Seq(Frames)]
    /\ lock \in Goroutines \cup {Nil}
    /\ told \in [Observers -> Seq(Tellings)]
    /\ audience \in Seq(SUBSET Observers)
    /\ left \subseteq Observers
    /\ overlap \in BOOLEAN
    /\ panicked \in BOOLEAN

\* An observer has one place in the list, and loses it when it unsubscribes.
PlaceInv ==
    /\ \A o \in Observers : IF index[o] = 0 THEN told[o] = <<>> /\ o \notin left
                            ELSE /\ index[o] \in DOMAIN observers
                                 /\ observers[index[o]] = IF o \in left THEN Nil ELSE o
    /\ \A i \in DOMAIN observers : observers[i] # Nil => index[observers[i]] = i

\* The function of an Update runs with the lock held, and in the innermost call.
FnInv ==
    /\ Changes <= MaxChanges
    /\ \A g \in Goroutines : \A i \in DOMAIN calls[g] :
           calls[g][i].at \in {"fn", "waiting"} =>
               lock = g /\ i = 1 /\ calls[g][i].in = Nil /\ Changes < MaxChanges

\* The i-th call of g has stored its change and is telling the observers of it.
Tells(g, i) == i \in DOMAIN calls[g] /\ calls[g][i].at \in {"snapshot", "notify"}

\* The observers that a list still names.
Fresh(c) == \A j \in DOMAIN c.todo : c.todo[j] # Nil =>
                /\ c.todo[j] \in audience[c.number]
                /\ c.number \notin Numbers(c.todo[j])
                /\ index[c.todo[j]] # 0
Once(c)  == \A j, k \in DOMAIN c.todo : c.todo[j] # Nil /\ c.todo[j] = c.todo[k] => j = k

\* A call has a change of its own, of which none of those it still names was told.
TellInv ==
    \A g \in Goroutines : \A i \in DOMAIN calls[g] : Tells(g, i) =>
        /\ calls[g][i].number \in 1 .. Changes
        /\ Fresh(calls[g][i])
        /\ Once(calls[g][i])
        /\ \A h \in Goroutines : \A k \in DOMAIN calls[h] :
               Tells(h, k) /\ calls[h][k].number = calls[g][i].number => h = g /\ k = i

\* What an observer was told of.
ToldInv ==
    \A o \in Observers :
        /\ \A a, b \in DOMAIN told[o] : told[o][a].number = told[o][b].number => a = b
        /\ \A a \in DOMAIN told[o] : /\ told[o][a].number \in 1 .. Changes
                                     /\ o \in audience[told[o][a].number]

\* A call will tell o of a change.
Pending(g, i, o) == Tells(g, i) /\ o \in ToSet(calls[g][i].todo)
Owed(o, n) == \E g \in Goroutines : \E i \in DOMAIN calls[g] :
                  Pending(g, i, o) /\ calls[g][i].number = n

\* Without a panic nobody is forgotten.
DoneInv ==
    ~panicked => \A o \in Observers : \A n \in 1 .. Changes :
                     o \in audience[n] => n \in Numbers(o) \/ Owed(o, n)

\* Without a panic and without overlapping changes, what is told is the value.
LastInv ==
    ~panicked /\ ~overlap =>
        /\ \A g \in Goroutines : \A i \in DOMAIN calls[g] :
               calls[g][i].at = "notify" => calls[g][i].value = value
        /\ \A o \in Observers \ left : told[o] # <<>> =>
               \/ Last(told[o]).value = value
               \/ \E g \in Goroutines : \E i \in DOMAIN calls[g] : Pending(g, i, o)

SignalInv == Types /\ PlaceInv /\ FnInv /\ TellInv /\ ToldInv /\ DoneInv /\ LastInv

(***************************************************************************)
(* Facts about sequences and types.                                        *)
(***************************************************************************)

\* An element is put before a sequence.
LEMMA Prepend ==
  ASSUME NEW S, NEW x \in S, NEW q \in Seq(S)
  PROVE  /\ <<x>> \o q \in Seq(S) /\ Len(<<x>> \o q) = Len(q) + 1
         /\ DOMAIN (<<x>> \o q) = 1 .. Len(q) + 1
         /\ (<<x>> \o q)[1] = x
         /\ \A k \in 1 .. Len(q) : (<<x>> \o q)[k + 1] = q[k]
<1>1. /\ <<x>> \in Seq(S) /\ Len(<<x>>) = 1 /\ <<x>>[1] = x
      /\ Len(q) \in Nat /\ DOMAIN q = 1 .. Len(q)
  OBVIOUS
<1>2. <<x>> \o q \in Seq(S) /\ Len(<<x>> \o q) = Len(q) + 1
  BY <1>1
<1>3. DOMAIN (<<x>> \o q) = 1 .. Len(q) + 1
  BY <1>1, <1>2
<1>4. (<<x>> \o q)[1] = x
  BY <1>1
<1>5. ASSUME NEW k \in 1 .. Len(q) PROVE (<<x>> \o q)[k + 1] = q[k]
  BY <1>1
<1>6. QED
  BY <1>2, <1>3, <1>4, <1>5

\* The first element is taken from a sequence.
LEMMA Behead ==
  ASSUME NEW S, NEW q \in Seq(S), q # <<>>
  PROVE  /\ Tail(q) \in Seq(S) /\ Len(q) \in Nat \ {0} /\ Len(Tail(q)) = Len(q) - 1
         /\ Head(q) = q[1] /\ Head(q) \in S /\ 1 \in DOMAIN q
         /\ DOMAIN q = 1 .. Len(q) /\ DOMAIN Tail(q) = 1 .. Len(q) - 1
         /\ \A k \in 1 .. Len(q) - 1 : Tail(q)[k] = q[k + 1]
OBVIOUS

\* The types that the proofs use most.
LEMMA TypeFacts ==
  ASSUME Types
  PROVE  /\ Changes \in Nat /\ DOMAIN audience = 1 .. Changes
         /\ DOMAIN observers = 1 .. Len(observers) /\ Len(observers) \in Nat
         /\ \A i \in DOMAIN observers : observers[i] \in Places
         /\ \A g \in Goroutines : /\ calls[g] \in Seq(Frames) /\ Len(calls[g]) \in Nat
                                  /\ DOMAIN calls[g] = 1 .. Len(calls[g])
                                  /\ \A i \in DOMAIN calls[g] : calls[g][i] \in Frames
         /\ \A o \in Observers : /\ told[o] \in Seq(Tellings) /\ Len(told[o]) \in Nat
                                 /\ DOMAIN told[o] = 1 .. Len(told[o])
                                 /\ \A a \in DOMAIN told[o] : told[o][a] \in Tellings
         /\ Nil \notin Observers /\ Nil \notin Goroutines
<1> HIDE DEF Frames, Tellings, Places
<1>1. Changes \in Nat /\ DOMAIN audience = 1 .. Changes
  BY DEF Types, Changes
<1>2. DOMAIN observers = 1 .. Len(observers) /\ Len(observers) \in Nat
      /\ \A i \in DOMAIN observers : observers[i] \in Places
  BY DEF Types
<1>3. ASSUME NEW g \in Goroutines
      PROVE  /\ calls[g] \in Seq(Frames) /\ Len(calls[g]) \in Nat
             /\ DOMAIN calls[g] = 1 .. Len(calls[g])
             /\ \A i \in DOMAIN calls[g] : calls[g][i] \in Frames
  <2>1. calls[g] \in Seq(Frames)
    BY DEF Types
  <2>2. QED
    BY <2>1
<1>4. ASSUME NEW o \in Observers
      PROVE  /\ told[o] \in Seq(Tellings) /\ Len(told[o]) \in Nat
             /\ DOMAIN told[o] = 1 .. Len(told[o])
             /\ \A a \in DOMAIN told[o] : told[o][a] \in Tellings
  <2>1. told[o] \in Seq(Tellings)
    BY DEF Types
  <2>2. QED
    BY <2>1
<1>5. QED
  BY <1>1, <1>2, <1>3, <1>4, SignalsAssumption

\* The record of a change, and its replacement.
LEMMA FrameFacts ==
  ASSUME Types
  PROVE  /\ \A v \in Values :
                /\ Call(v) \in Frames
                /\ Call(v).at = (IF kind = "list" THEN "snapshot" ELSE "notify")
                /\ Call(v).value = v /\ Call(v).number = Changes + 1
                /\ Call(v).todo = observers /\ Call(v).in = Nil
         /\ \A c \in Frames : /\ c.number \in Nat /\ c.todo \in Seq(Places) /\ c.in \in Places
                              /\ c.value \in Values
                              /\ c.at \in {"fn", "waiting", "snapshot", "notify"}
<1>1. Changes + 1 \in Nat /\ Nil \in Places /\ observers \in Seq(Places)
  BY TypeFacts DEF Types, Places
<1>2. QED
  BY <1>1 DEF Call, Frames

(***************************************************************************)
(* Steps that begin or end no telling: the calls that tell are the same,   *)
(* perhaps one place further in or out.                                    *)
(***************************************************************************)

LEMMA FramesKept ==
  ASSUME SignalInv, NEW g \in Goroutines, NEW d \in {-1, 0, 1},
         Types',
         \A h \in Goroutines : h # g => calls'[h] = calls[h],
         \A k \in DOMAIN calls'[g] : calls'[g][k].at \in {"snapshot", "notify"} =>
             /\ Tells(g, k + d)
             /\ calls'[g][k].number = calls[g][k + d].number
             /\ calls'[g][k].todo = calls[g][k + d].todo
             /\ calls'[g][k].at = "notify" =>
                    \/ calls'[g][k].value = value
                    \/ calls[g][k + d].at = "notify" /\ calls'[g][k].value = calls[g][k + d].value,
         panicked' \/ \A k \in DOMAIN calls[g] : Tells(g, k) /\ calls[g][k].todo # <<>> =>
             /\ k - d \in DOMAIN calls'[g] /\ calls'[g][k - d].at \in {"snapshot", "notify"}
             /\ calls'[g][k - d].number = calls[g][k].number
             /\ calls'[g][k - d].todo = calls[g][k].todo,
         panicked => panicked',
         audience' = audience \/ audience' = Append(audience, {}),
         UNCHANGED <<value, index, told, left, overlap>>
  PROVE  TellInv' /\ ToldInv' /\ DoneInv' /\ LastInv'
<1> DEFINE shift(h) == IF h = g THEN d ELSE 0
<1>1. Types /\ TellInv /\ ToldInv /\ DoneInv /\ LastInv
  BY DEF SignalInv
<1>2. /\ Changes \in Nat /\ Changes' \in Nat /\ Changes <= Changes'
      /\ \A n \in 1 .. Changes : n \in 1 .. Changes' /\ audience'[n] = audience[n]
      /\ \A n \in 1 .. Changes' : n \in 1 .. Changes \/ audience'[n] = {}
  <2>1. audience \in Seq(SUBSET Observers) /\ Changes \in Nat
    BY <1>1, TypeFacts DEF Types
  <2>2. QED
    BY <2>1 DEF Changes
<1>3. \A h \in Goroutines : /\ Len(calls[h]) \in Nat /\ DOMAIN calls[h] = 1 .. Len(calls[h])
                            /\ Len(calls'[h]) \in Nat /\ DOMAIN calls'[h] = 1 .. Len(calls'[h])
  <2>1. calls' \in [Goroutines -> Seq(Frames)]
    BY DEF Types
  <2> HIDE DEF Frames
  <2>2. \A h \in Goroutines : Len(calls'[h]) \in Nat /\ DOMAIN calls'[h] = 1 .. Len(calls'[h])
    <3>1. TAKE h \in Goroutines
    <3>2. calls'[h] \in Seq(Frames)
      BY <2>1
    <3>3. QED
      BY <3>2
  <2>3. QED
    BY <1>1, <2>2, TypeFacts
<1>4. ASSUME NEW h \in Goroutines, NEW k \in DOMAIN calls'[h], Tells(h, k)'
      PROVE  /\ k + shift(h) \in DOMAIN calls[h] /\ Tells(h, k + shift(h))
             /\ calls'[h][k].number = calls[h][k + shift(h)].number
             /\ calls'[h][k].todo = calls[h][k + shift(h)].todo
             /\ calls'[h][k].at = "notify" =>
                    \/ calls'[h][k].value = value
                    \/ /\ calls[h][k + shift(h)].at = "notify"
                       /\ calls'[h][k].value = calls[h][k + shift(h)].value
  <2>1. CASE h = g
    BY <1>4, <2>1 DEF Tells
  <2>2. CASE h # g
    <3>1. k + shift(h) = k
      BY <1>3, <2>2
    <3>2. QED
      BY <1>4, <2>2, <3>1 DEF Tells
  <2>3. QED
    BY <2>1, <2>2
<1>5. ASSUME ~panicked', NEW h \in Goroutines, NEW k \in DOMAIN calls[h], Tells(h, k),
             calls[h][k].todo # <<>>
      PROVE  /\ k - shift(h) \in DOMAIN calls'[h] /\ Tells(h, k - shift(h))'
             /\ calls'[h][k - shift(h)].number = calls[h][k].number
             /\ calls'[h][k - shift(h)].todo = calls[h][k].todo
  <2>1. CASE h = g
    BY <1>5, <2>1 DEF Tells
  <2>2. CASE h # g
    <3>1. k - shift(h) = k
      BY <1>3, <2>2
    <3>2. QED
      BY <1>5, <2>2, <3>1 DEF Tells
  <2>3. QED
    BY <2>1, <2>2
<1>6. \A h \in Goroutines : shift(h) \in Int
  OBVIOUS
<1> HIDE DEF shift
<1>7. \A o : Numbers(o)' = Numbers(o)
  BY DEF Numbers
<1>8. TellInv'
  <2>1. SUFFICES ASSUME NEW h \in Goroutines, NEW i \in DOMAIN calls'[h], Tells(h, i)'
                 PROVE  /\ calls'[h][i].number \in 1 .. Changes'
                        /\ Fresh(calls[h][i])'
                        /\ Once(calls[h][i])'
                        /\ \A h2 \in Goroutines : \A k \in DOMAIN calls'[h2] :
                               Tells(h2, k)' /\ calls'[h2][k].number = calls'[h][i].number
                               => h2 = h /\ k = i
    BY DEF TellInv
  <2> DEFINE c == calls[h][i + shift(h)]
  <2>2. /\ i + shift(h) \in DOMAIN calls[h] /\ Tells(h, i + shift(h))
        /\ calls'[h][i].number = c.number /\ calls'[h][i].todo = c.todo
    BY <1>4, <2>1
  <2>3. /\ c.number \in 1 .. Changes /\ Fresh(c) /\ Once(c)
        /\ \A h2 \in Goroutines : \A k \in DOMAIN calls[h2] :
               Tells(h2, k) /\ calls[h2][k].number = c.number => h2 = h /\ k = i + shift(h)
    BY <1>1, <2>2 DEF TellInv
  <2> HIDE DEF c
  <2>4. Fresh(calls[h][i])'
    BY <1>2, <1>7, <2>2, <2>3 DEF Fresh
  <2>5. Once(calls[h][i])'
    BY <2>2, <2>3 DEF Once
  <2>6. ASSUME NEW h2 \in Goroutines, NEW k \in DOMAIN calls'[h2], Tells(h2, k)',
               calls'[h2][k].number = calls'[h][i].number
        PROVE  h2 = h /\ k = i
    <3>1. /\ k + shift(h2) \in DOMAIN calls[h2] /\ Tells(h2, k + shift(h2))
          /\ calls'[h2][k].number = calls[h2][k + shift(h2)].number
      BY <1>4, <2>6
    <3>2. h2 = h /\ k + shift(h2) = i + shift(h)
      BY <2>2, <2>3, <2>6, <3>1
    <3>3. k \in Int /\ i \in Int
      BY <1>3
    <3>4. QED
      BY <1>6, <3>2, <3>3
  <2>7. QED
    BY <1>2, <2>2, <2>3, <2>4, <2>5, <2>6
<1>9. ToldInv'
  BY <1>1, <1>2 DEF ToldInv
<1>10. ASSUME ~panicked', NEW h \in Goroutines, NEW k \in DOMAIN calls[h], NEW o \in Observers,
              Pending(h, k, o)
       PROVE  \E j \in DOMAIN calls'[h] : Pending(h, j, o)' /\ calls'[h][j].number = calls[h][k].number
  <2>1. Tells(h, k) /\ calls[h][k].todo # <<>> /\ o \in ToSet(calls[h][k].todo)
    BY <1>10 DEF Pending, ToSet
  <2>2. PICK j : j = k - shift(h)
    OBVIOUS
  <2>3. /\ j \in DOMAIN calls'[h] /\ Tells(h, j)'
        /\ calls'[h][j].number = calls[h][k].number
        /\ calls'[h][j].todo = calls[h][k].todo
    BY <1>5, <1>10, <2>1, <2>2
  <2>4. QED
    BY <2>1, <2>3 DEF Pending
<1>11. DoneInv'
  <2>1. SUFFICES ASSUME ~panicked', NEW o \in Observers, NEW n \in 1 .. Changes', o \in audience'[n]
                 PROVE  n \in Numbers(o)' \/ Owed(o, n)'
    BY DEF DoneInv
  <2>2. n \in 1 .. Changes /\ o \in audience[n]
    BY <1>2, <2>1
  <2>3. n \in Numbers(o) \/ Owed(o, n)
    BY <1>1, <2>1, <2>2 DEF DoneInv
  <2>4. ASSUME Owed(o, n) PROVE Owed(o, n)'
    <3>1. PICK h \in Goroutines : \E k \in DOMAIN calls[h] :
                                     Pending(h, k, o) /\ calls[h][k].number = n
      BY <2>4 DEF Owed
    <3>2. \E j \in DOMAIN calls'[h] : Pending(h, j, o)' /\ calls'[h][j].number = n
      BY <1>10, <2>1, <3>1
    <3>3. QED
      BY <3>2 DEF Owed
  <2>5. QED
    BY <1>7, <2>3, <2>4
<1>12. LastInv'
  <2>1. SUFFICES ASSUME ~panicked', ~overlap'
                 PROVE  /\ \A h \in Goroutines : \A i \in DOMAIN calls'[h] :
                               calls'[h][i].at = "notify" => calls'[h][i].value = value'
                        /\ \A o \in Observers \ left' : told'[o] # <<>> =>
                               \/ Last(told[o])'.value = value'
                               \/ \E h \in Goroutines : \E i \in DOMAIN calls'[h] : Pending(h, i, o)'
    BY DEF LastInv
  <2>2. /\ \A h \in Goroutines : \A i \in DOMAIN calls[h] :
               calls[h][i].at = "notify" => calls[h][i].value = value
        /\ \A o \in Observers \ left : told[o] # <<>> =>
               \/ Last(told[o]).value = value
               \/ \E h \in Goroutines : \E i \in DOMAIN calls[h] : Pending(h, i, o)
    BY <1>1, <2>1 DEF LastInv
  <2>3. ASSUME NEW h \in Goroutines, NEW i \in DOMAIN calls'[h], calls'[h][i].at = "notify"
        PROVE  calls'[h][i].value = value'
    <3>1. Tells(h, i)'
      BY <2>3 DEF Tells
    <3>2. QED
      BY <1>4, <2>2, <2>3, <3>1
  <2>4. ASSUME NEW o \in Observers \ left', told'[o] # <<>>
        PROVE  \/ Last(told[o])'.value = value'
               \/ \E h \in Goroutines : \E i \in DOMAIN calls'[h] : Pending(h, i, o)'
    <3>1. Last(told[o])' = Last(told[o])
      BY DEF Last
    <3>2. CASE Last(told[o]).value = value
      BY <3>1, <3>2
    <3>3. CASE \E h \in Goroutines : \E i \in DOMAIN calls[h] : Pending(h, i, o)
      BY <1>10, <2>1, <3>3
    <3>4. QED
      BY <2>2, <2>4, <3>2, <3>3
  <2>5. QED
    BY <2>3, <2>4
<1>13. QED
  BY <1>8, <1>9, <1>11, <1>12

\* The innermost call is replaced.
LEMMA ReplaceFacts ==
  ASSUME Types, NEW g \in Goroutines, Busy(g), NEW c \in Frames, ReplaceTop(g, c)
  PROVE  /\ calls' \in [Goroutines -> Seq(Frames)]
         /\ \A h \in Goroutines : h # g => calls'[h] = calls[h]
         /\ 1 \in DOMAIN calls[g] /\ DOMAIN calls'[g] = DOMAIN calls[g] /\ calls'[g][1] = c
         /\ \A k \in DOMAIN calls[g] : k # 1 => calls'[g][k] = calls[g][k]
<1> HIDE DEF Frames
<1> DEFINE q == [calls[g] EXCEPT ![1] = c]
<1>1. calls \in [Goroutines -> Seq(Frames)] /\ calls[g] \in Seq(Frames) /\ calls[g] # <<>>
  BY DEF Types, Busy
<1>2. /\ q \in Seq(Frames) /\ DOMAIN q = DOMAIN calls[g] /\ 1 \in DOMAIN calls[g] /\ q[1] = c
      /\ \A k \in DOMAIN calls[g] : k # 1 => q[k] = calls[g][k]
  BY <1>1
<1>3. calls' = [calls EXCEPT ![g] = q]
  BY DEF ReplaceTop
<1> HIDE DEF q
<1>4. calls'[g] = q /\ \A h \in Goroutines : h # g => calls'[h] = calls[h]
  BY <1>1, <1>3
<1>5. calls' \in [Goroutines -> Seq(Frames)]
  BY <1>1, <1>2, <1>3
<1>6. QED
  BY <1>2, <1>4, <1>5

\* The innermost call ends.
LEMMA PopFacts ==
  ASSUME Types, NEW g \in Goroutines, Busy(g), calls' = [calls EXCEPT ![g] = Tail(@)]
  PROVE  /\ calls' \in [Goroutines -> Seq(Frames)]
         /\ \A h \in Goroutines : h # g => calls'[h] = calls[h]
         /\ Len(calls[g]) \in Nat \ {0} /\ DOMAIN calls[g] = 1 .. Len(calls[g])
         /\ DOMAIN calls'[g] = 1 .. Len(calls[g]) - 1
         /\ \A k \in 1 .. Len(calls[g]) - 1 : calls'[g][k] = calls[g][k + 1]
<1> HIDE DEF Frames
<1> DEFINE q == Tail(calls[g])
<1>1. calls \in [Goroutines -> Seq(Frames)] /\ calls[g] \in Seq(Frames) /\ calls[g] # <<>>
  BY DEF Types, Busy
<1>2. /\ q \in Seq(Frames) /\ Len(calls[g]) \in Nat \ {0} /\ DOMAIN calls[g] = 1 .. Len(calls[g])
      /\ DOMAIN q = 1 .. Len(calls[g]) - 1
      /\ \A k \in 1 .. Len(calls[g]) - 1 : q[k] = calls[g][k + 1]
  BY <1>1, Behead
<1>3. calls' = [calls EXCEPT ![g] = q]
  OBVIOUS
<1> HIDE DEF q
<1>4. calls'[g] = q /\ \A h \in Goroutines : h # g => calls'[h] = calls[h]
  BY <1>1, <1>3
<1>5. calls' \in [Goroutines -> Seq(Frames)]
  BY <1>1, <1>2, <1>3
<1>6. QED
  BY <1>2, <1>4, <1>5

\* The calls of one goroutine change.
LEMMA CallsOf ==
  ASSUME Types, NEW g \in Goroutines, NEW q \in Seq(Frames), calls' = [calls EXCEPT ![g] = q]
  PROVE  /\ calls' \in [Goroutines -> Seq(Frames)] /\ calls'[g] = q
         /\ \A h \in Goroutines : h # g => calls'[h] = calls[h]
<1> HIDE DEF Frames
<1>1. calls \in [Goroutines -> Seq(Frames)]
  BY DEF Types
<1>2. QED
  BY <1>1

\* The innermost call goes on without telling anyone.
LEMMA TopStep ==
  ASSUME SignalInv, NEW g \in Goroutines, Busy(g), NEW c \in Frames, ReplaceTop(g, c),
         /\ c.number = Top(g).number /\ c.todo = Top(g).todo
         /\ c.at \in {"snapshot", "notify"} <=> Top(g).at \in {"snapshot", "notify"}
         /\ c.at = "notify" => \/ c.value = value
                               \/ Top(g).at = "notify" /\ c.value = Top(g).value
         /\ c.at \in {"fn", "waiting"} => c.in = Nil,
         UNCHANGED <<kind, value, observers, index, lock, told, audience, left, overlap, panicked>>
  PROVE  SignalInv'
<1>1. Types /\ PlaceInv /\ FnInv
  BY DEF SignalInv
<1>2. /\ calls' \in [Goroutines -> Seq(Frames)]
      /\ \A h \in Goroutines : h # g => calls'[h] = calls[h]
      /\ 1 \in DOMAIN calls[g] /\ DOMAIN calls'[g] = DOMAIN calls[g] /\ calls'[g][1] = c
      /\ \A k \in DOMAIN calls[g] : k # 1 => calls'[g][k] = calls[g][k]
      /\ Top(g) = calls[g][1]
  BY <1>1, ReplaceFacts DEF Top
<1>3. Types'
  BY <1>1, <1>2 DEF Types
<1>4. PlaceInv' /\ Changes' = Changes
  BY <1>1 DEF PlaceInv, Changes
<1>5. /\ c.at \in {"fn", "waiting", "snapshot", "notify"}
      /\ Top(g).at \in {"fn", "waiting", "snapshot", "notify"}
  BY <1>1, <1>2, TypeFacts, FrameFacts
<1>6. FnInv'
  <2>1. ASSUME NEW h \in Goroutines, NEW i \in DOMAIN calls'[h], calls'[h][i].at \in {"fn", "waiting"}
        PROVE  lock' = h /\ i = 1 /\ calls'[h][i].in = Nil /\ Changes' < MaxChanges
    <3>1. CASE h = g /\ i = 1
      BY <1>1, <1>2, <1>4, <1>5, <2>1, <3>1 DEF FnInv
    <3>2. CASE ~(h = g /\ i = 1)
      BY <1>1, <1>2, <1>4, <2>1, <3>2 DEF FnInv
    <3>3. QED
      BY <3>1, <3>2
  <2>2. QED
    BY <1>1, <1>4, <2>1 DEF FnInv
<1>7. \A k \in DOMAIN calls[g] : k \in Int /\ k + 0 = k /\ k - 0 = k
  BY <1>1, TypeFacts
<1>8. \A k \in DOMAIN calls'[g] : calls'[g][k].at \in {"snapshot", "notify"} =>
          /\ Tells(g, k + 0)
          /\ calls'[g][k].number = calls[g][k + 0].number
          /\ calls'[g][k].todo = calls[g][k + 0].todo
          /\ calls'[g][k].at = "notify" =>
                 \/ calls'[g][k].value = value
                 \/ calls[g][k + 0].at = "notify" /\ calls'[g][k].value = calls[g][k + 0].value
  <2>1. TAKE k \in DOMAIN calls'[g]
  <2>2. CASE k = 1
    BY <1>2, <1>7, <2>2 DEF Tells
  <2>3. CASE k # 1
    BY <1>2, <1>7, <2>3 DEF Tells
  <2>4. QED
    BY <2>2, <2>3
<1>9. \A k \in DOMAIN calls[g] : Tells(g, k) /\ calls[g][k].todo # <<>> =>
          /\ k - 0 \in DOMAIN calls'[g] /\ calls'[g][k - 0].at \in {"snapshot", "notify"}
          /\ calls'[g][k - 0].number = calls[g][k].number
          /\ calls'[g][k - 0].todo = calls[g][k].todo
  <2>1. TAKE k \in DOMAIN calls[g]
  <2>2. CASE k = 1
    BY <1>2, <1>7, <2>2 DEF Tells
  <2>3. CASE k # 1
    BY <1>2, <1>7, <2>3 DEF Tells
  <2>4. QED
    BY <2>2, <2>3
<1>10. 0 \in {-1, 0, 1}
  OBVIOUS
<1>11. TellInv' /\ ToldInv' /\ DoneInv' /\ LastInv'
  BY <1>2, <1>3, <1>8, <1>9, <1>10, FramesKept
<1>12. QED
  BY <1>3, <1>4, <1>6, <1>11 DEF SignalInv

\* The innermost call ends: it has told all, or its function changed nothing.
LEMMA PopStep ==
  ASSUME SignalInv, NEW g \in Goroutines, Busy(g), calls' = [calls EXCEPT ![g] = Tail(@)],
         Top(g).at \in {"snapshot", "notify"} => Top(g).todo = <<>>,
         \/ UNCHANGED <<lock, audience>>
         \/ Top(g).at = "fn" /\ lock' = Nil /\ audience' = Append(audience, {}),
         UNCHANGED <<kind, value, observers, index, told, left, overlap, panicked>>
  PROVE  SignalInv'
<1>1. Types /\ PlaceInv /\ FnInv
  BY DEF SignalInv
<1> DEFINE m == Len(calls[g])
<1>2. /\ calls' \in [Goroutines -> Seq(Frames)]
      /\ \A h \in Goroutines : h # g => calls'[h] = calls[h]
      /\ m \in Nat \ {0} /\ DOMAIN calls[g] = 1 .. m /\ DOMAIN calls'[g] = 1 .. m - 1
      /\ \A k \in 1 .. m - 1 : calls'[g][k] = calls[g][k + 1]
  BY <1>1, PopFacts
<1>3. Top(g) = calls[g][1] /\ 1 \in DOMAIN calls[g]
  BY <1>2 DEF Top
<1>4. /\ audience' \in Seq(SUBSET Observers) /\ Changes \in Nat
      /\ Changes' = Changes \/ (Changes' = Changes + 1 /\ Top(g).at = "fn")
  <2>1. audience \in Seq(SUBSET Observers)
    BY <1>1 DEF Types
  <2>2. QED
    BY <2>1 DEF Changes
<1>5. Types'
  <2>1. lock' \in Goroutines \cup {Nil}
    BY <1>1 DEF Types
  <2>2. QED
    BY <1>1, <1>2, <1>4, <2>1 DEF Types
<1>6. PlaceInv'
  BY <1>1 DEF PlaceInv
<1> HIDE DEF m
<1>7. \A k \in 1 .. m - 1 : k \in Int /\ k + 1 \in 1 .. m /\ k + 1 # 1
  BY <1>2
<1>8. FnInv'
  <2>1. Changes' <= MaxChanges
    BY <1>1, <1>3, <1>4, SignalsAssumption DEF FnInv
  <2>2. ASSUME NEW h \in Goroutines, NEW i \in DOMAIN calls'[h], calls'[h][i].at \in {"fn", "waiting"}
        PROVE  lock' = h /\ i = 1 /\ calls'[h][i].in = Nil /\ Changes' < MaxChanges
    <3>1. h # g
      BY <1>1, <1>2, <1>7, <2>2 DEF FnInv
    <3>2. i \in DOMAIN calls[h] /\ calls[h][i] = calls'[h][i]
      BY <1>2, <2>2, <3>1
    <3>3. lock = h /\ i = 1 /\ calls'[h][i].in = Nil /\ Changes < MaxChanges
      BY <1>1, <2>2, <3>2 DEF FnInv
    <3>4. Top(g).at # "fn"
      BY <1>1, <1>3, <3>1, <3>3 DEF FnInv
    <3>5. QED
      BY <1>4, <3>3, <3>4
  <2>3. QED
    BY <2>1, <2>2 DEF FnInv
<1>9. \A k \in DOMAIN calls'[g] : calls'[g][k].at \in {"snapshot", "notify"} =>
          /\ Tells(g, k + 1)
          /\ calls'[g][k].number = calls[g][k + 1].number
          /\ calls'[g][k].todo = calls[g][k + 1].todo
          /\ calls'[g][k].at = "notify" =>
                 \/ calls'[g][k].value = value
                 \/ calls[g][k + 1].at = "notify" /\ calls'[g][k].value = calls[g][k + 1].value
  BY <1>2, <1>7 DEF Tells
<1>10. \A k \in DOMAIN calls[g] : Tells(g, k) /\ calls[g][k].todo # <<>> =>
          /\ k - 1 \in DOMAIN calls'[g] /\ calls'[g][k - 1].at \in {"snapshot", "notify"}
          /\ calls'[g][k - 1].number = calls[g][k].number
          /\ calls'[g][k - 1].todo = calls[g][k].todo
  <2>1. SUFFICES ASSUME NEW k \in DOMAIN calls[g], Tells(g, k), calls[g][k].todo # <<>>
                 PROVE  /\ k - 1 \in DOMAIN calls'[g] /\ calls'[g][k - 1] = calls[g][k]
    BY DEF Tells
  <2>2. k # 1
    BY <1>3, <2>1 DEF Tells
  <2>3. k - 1 \in 1 .. m - 1 /\ (k - 1) + 1 = k
    BY <1>2, <2>2
  <2>4. QED
    BY <1>2, <2>3
<1>11. 1 \in {-1, 0, 1}
  OBVIOUS
<1>12. TellInv' /\ ToldInv' /\ DoneInv' /\ LastInv'
  BY <1>2, <1>5, <1>9, <1>10, <1>11, FramesKept
<1>13. QED
  BY <1>5, <1>6, <1>8, <1>12 DEF SignalInv

\* Update takes the lock and calls its function.
LEMMA UpdateStep ==
  ASSUME SignalInv, NEW g \in Goroutines, Update(g)
  PROVE  SignalInv'
<1>1. Types /\ PlaceInv /\ FnInv
  BY DEF SignalInv
<1>2. PICK c : c = [Call(value) EXCEPT !.at = "fn"]
  OBVIOUS
<1>3. PICK outer : outer = calls[g]
  OBVIOUS
<1>4. PICK q : q = <<c>> \o outer
  OBVIOUS
<1> DEFINE m == Len(outer)
<1>5. /\ lock = Nil /\ Changes < MaxChanges /\ lock' = g
      /\ calls' = [calls EXCEPT ![g] = q]
      /\ UNCHANGED <<kind, value, observers, index, told, audience, left, overlap, panicked>>
  BY <1>2, <1>3, <1>4 DEF Update, MayBegin
<1>6. c \in Frames /\ c.at = "fn" /\ c.in = Nil
  <2>1. Call(value) \in Frames /\ Call(value).in = Nil
    BY <1>1, FrameFacts DEF Types
  <2>2. c \in Frames
    BY <1>2, <2>1 DEF Frames
  <2>3. c.at = "fn" /\ c.in = Nil
    BY <1>2, <2>1 DEF Frames
  <2>4. QED
    BY <2>2, <2>3
<1>7. outer \in Seq(Frames) /\ DOMAIN outer = 1 .. m
  BY <1>1, <1>3, TypeFacts
<1>8. /\ calls' \in [Goroutines -> Seq(Frames)]
      /\ \A h \in Goroutines : h # g => calls'[h] = calls[h]
      /\ m \in Nat /\ DOMAIN calls'[g] = 1 .. m + 1 /\ calls'[g][1] = c
      /\ \A k \in 1 .. m : calls'[g][k + 1] = outer[k]
  <2>1. /\ q \in Seq(Frames) /\ DOMAIN q = 1 .. m + 1 /\ q[1] = c
        /\ \A k \in 1 .. m : q[k + 1] = outer[k]
    BY <1>4, <1>6, <1>7, Prepend
  <2>2. /\ calls' \in [Goroutines -> Seq(Frames)] /\ calls'[g] = q
        /\ \A h \in Goroutines : h # g => calls'[h] = calls[h]
    BY <1>1, <1>5, <2>1, CallsOf
  <2>3. m \in Nat
    BY <1>7
  <2>4. QED
    BY <2>1, <2>2, <2>3
<1>9. DOMAIN calls[g] = 1 .. m /\ \A k \in 1 .. m : calls'[g][k + 1] = calls[g][k]
  BY <1>3, <1>7, <1>8
<1> HIDE DEF m
<1>10. Types' /\ PlaceInv' /\ Changes' = Changes
  <2>1. Types'
    BY <1>1, <1>5, <1>8 DEF Types
  <2>2. QED
    BY <1>1, <1>5, <2>1 DEF PlaceInv, Changes
<1>11. \A h \in Goroutines : \A i \in DOMAIN calls[h] : calls[h][i].at \notin {"fn", "waiting"}
  BY <1>1, <1>5, TypeFacts DEF FnInv
<1>12. \A k \in 1 .. m + 1 : k # 1 => /\ k - 1 \in 1 .. m /\ (k - 1) + 1 = k /\ k + -1 = k - 1
                                     /\ calls'[g][k] = calls[g][k - 1]
  BY <1>8, <1>9
<1>13. FnInv'
  <2>1. ASSUME NEW h \in Goroutines, NEW i \in DOMAIN calls'[h], calls'[h][i].at \in {"fn", "waiting"}
        PROVE  lock' = h /\ i = 1 /\ calls'[h][i].in = Nil
    <3>1. h = g
      BY <1>8, <1>11, <2>1
    <3>2. i = 1
      <4>1. SUFFICES ASSUME i # 1 PROVE FALSE
        OBVIOUS
      <4>2. i - 1 \in DOMAIN calls[g] /\ calls'[g][i] = calls[g][i - 1]
        BY <1>8, <1>9, <1>12, <2>1, <3>1, <4>1
      <4>3. QED
        BY <1>11, <2>1, <3>1, <4>2
    <3>3. QED
      BY <1>5, <1>6, <1>8, <3>1, <3>2
  <2>2. QED
    BY <1>1, <1>5, <1>10, <2>1 DEF FnInv
<1>14. \A k \in DOMAIN calls'[g] : calls'[g][k].at \in {"snapshot", "notify"} =>
          /\ Tells(g, k + -1)
          /\ calls'[g][k].number = calls[g][k + -1].number
          /\ calls'[g][k].todo = calls[g][k + -1].todo
          /\ calls'[g][k].at = "notify" =>
                 \/ calls'[g][k].value = value
                 \/ calls[g][k + -1].at = "notify" /\ calls'[g][k].value = calls[g][k + -1].value
  <2>1. SUFFICES ASSUME NEW k \in DOMAIN calls'[g], calls'[g][k].at \in {"snapshot", "notify"}
                 PROVE  k + -1 \in DOMAIN calls[g] /\ calls'[g][k] = calls[g][k + -1]
    BY DEF Tells
  <2>2. k # 1
    BY <1>6, <1>8, <2>1
  <2>3. QED
    BY <1>8, <1>9, <1>12, <2>2
<1>15. \A k \in DOMAIN calls[g] : Tells(g, k) /\ calls[g][k].todo # <<>> =>
          /\ k - -1 \in DOMAIN calls'[g] /\ calls'[g][k - -1].at \in {"snapshot", "notify"}
          /\ calls'[g][k - -1].number = calls[g][k].number
          /\ calls'[g][k - -1].todo = calls[g][k].todo
  <2>1. SUFFICES ASSUME NEW k \in DOMAIN calls[g], Tells(g, k)
                 PROVE  k - -1 \in DOMAIN calls'[g] /\ calls'[g][k - -1] = calls[g][k]
    BY DEF Tells
  <2>2. k - -1 = k + 1 /\ k + 1 \in 1 .. m + 1
    BY <1>8, <1>9
  <2>3. QED
    BY <1>8, <1>9, <2>2
<1>16. -1 \in {-1, 0, 1}
  OBVIOUS
<1>17. TellInv' /\ ToldInv' /\ DoneInv' /\ LastInv'
  BY <1>5, <1>8, <1>10, <1>14, <1>15, <1>16, FramesKept
<1>18. QED
  BY <1>10, <1>13, <1>17 DEF SignalInv

\* A panic ends all calls of the goroutine; a lock that it holds stays.
LEMMA PanicStep ==
  ASSUME SignalInv, NEW g \in Goroutines, Panic(g)
  PROVE  SignalInv'
<1>1. Types /\ PlaceInv /\ FnInv
  BY DEF SignalInv
<1>2. /\ calls' = [calls EXCEPT ![g] = <<>>] /\ panicked' = TRUE
      /\ UNCHANGED <<kind, value, observers, index, lock, told, audience, left, overlap>>
  BY DEF Panic
<1>3. /\ calls' \in [Goroutines -> Seq(Frames)] /\ calls'[g] = <<>> /\ DOMAIN calls'[g] = {}
      /\ \A h \in Goroutines : h # g => calls'[h] = calls[h]
  BY <1>1, <1>2 DEF Types
<1>4. Types' /\ PlaceInv' /\ Changes' = Changes
  <2>1. panicked' \in BOOLEAN
    BY <1>2
  <2>2. Types'
    BY <1>1, <1>2, <1>3, <2>1 DEF Types
  <2>3. QED
    BY <1>1, <1>2, <2>2 DEF PlaceInv, Changes
<1>5. FnInv'
  BY <1>1, <1>2, <1>3, <1>4 DEF FnInv
<1>6. 0 \in {-1, 0, 1} /\ (panicked => panicked')
  BY <1>2
<1>7. TellInv' /\ ToldInv' /\ DoneInv' /\ LastInv'
  BY <1>2, <1>3, <1>4, <1>6, FramesKept
<1>8. QED
  BY <1>4, <1>5, <1>7 DEF SignalInv

(***************************************************************************)
(* A change is stored.  It takes the place of the e calls of Update.       *)
(***************************************************************************)

LEMMA StoreStep ==
  ASSUME SignalInv, NEW g \in Goroutines, NEW v \in Values, NEW e \in {0, 1},
         NEW outer \in Seq(Frames), Len(outer) = Len(calls[g]) - e,
         \A k \in 1 .. Len(outer) : outer[k] = calls[g][k + e],
         e = 0 => lock = Nil /\ Changes < MaxChanges,
         e = 1 => Busy(g) /\ Top(g).at = "fn",
         Store(g, v, Call(v), outer)
  PROVE  SignalInv'
<1>1. Types /\ PlaceInv /\ FnInv /\ TellInv /\ ToldInv /\ DoneInv /\ LastInv
  BY DEF SignalInv
<1>2. PICK c : c = Call(v)
  OBVIOUS
<1>3. PICK q : q = <<c>> \o outer
  OBVIOUS
<1> DEFINE m == Len(outer)
<1>4. /\ value' = v /\ audience' = Append(audience, ToSet(observers) \ {Nil})
      /\ calls' = [calls EXCEPT ![g] = q] /\ lock' = Nil
      /\ overlap' = (overlap \/ outer # <<>> \/ \E h \in Goroutines \ {g} : Busy(h))
      /\ UNCHANGED <<kind, observers, index, told, left, panicked>>
  BY <1>2, <1>3 DEF Store
<1>5. /\ c \in Frames /\ c.at \in {"snapshot", "notify"} /\ c.value = v
      /\ c.number = Changes + 1 /\ c.todo = observers
  BY <1>1, <1>2, FrameFacts
<1>6. /\ m \in Nat /\ calls' \in [Goroutines -> Seq(Frames)]
      /\ \A h \in Goroutines : h # g => calls'[h] = calls[h]
      /\ DOMAIN calls'[g] = 1 .. m + 1 /\ calls'[g][1] = c
      /\ \A k \in 1 .. m : calls'[g][k + 1] = outer[k]
  <2>1. /\ q \in Seq(Frames) /\ DOMAIN q = 1 .. m + 1 /\ q[1] = c
        /\ \A k \in 1 .. m : q[k + 1] = outer[k]
    BY <1>3, <1>5, Prepend
  <2>2. /\ calls' \in [Goroutines -> Seq(Frames)] /\ calls'[g] = q
        /\ \A h \in Goroutines : h # g => calls'[h] = calls[h]
    BY <1>1, <1>4, <2>1, CallsOf
  <2>3. m \in Nat
    OBVIOUS
  <2>4. QED
    BY <2>1, <2>2, <2>3
<1>7. /\ \A h \in Goroutines : DOMAIN calls[h] = 1 .. Len(calls[h]) /\ Len(calls[h]) \in Nat
      /\ Len(calls[g]) = m + e
  <2>1. \A h \in Goroutines : DOMAIN calls[h] = 1 .. Len(calls[h]) /\ Len(calls[h]) \in Nat
    BY <1>1, TypeFacts
  <2>2. QED
    BY <1>6, <2>1
<1> HIDE DEF m
<1>8. \A h \in Goroutines : \A i \in DOMAIN calls[h] : calls[h][i].at \in {"fn", "waiting"} =>
          e = 1 /\ h = g /\ i = 1
  <2>1. CASE e = 0
    BY <1>1, <2>1, TypeFacts DEF FnInv
  <2>2. CASE e = 1
    <3>1. 1 \in DOMAIN calls[g] /\ calls[g][1].at = "fn"
      BY <1>6, <1>7, <2>2 DEF Top
    <3>2. lock = g
      BY <1>1, <3>1 DEF FnInv
    <3>3. QED
      BY <1>1, <2>2, <3>2 DEF FnInv
  <2>3. QED
    BY <2>1, <2>2
<1>9. Changes \in Nat /\ Changes < MaxChanges
  <2>1. CASE e = 1
    BY <1>1, <1>6, <1>7, <2>1, TypeFacts DEF FnInv, Top
  <2>2. QED
    BY <1>1, <2>1, TypeFacts
<1>10. /\ Changes' = Changes + 1 /\ audience' \in Seq(SUBSET Observers)
       /\ audience'[Changes + 1] = ToSet(observers) \ {Nil}
       /\ \A n \in 1 .. Changes : n \in 1 .. Changes' /\ audience'[n] = audience[n]
       /\ \A n \in 1 .. Changes' : n \in 1 .. Changes \/ n = Changes + 1
  <2>1. audience \in Seq(SUBSET Observers) /\ Len(audience) = Changes
    BY <1>1 DEF Types, Changes
  <2>2. PICK new : new = ToSet(observers) \ {Nil}
    OBVIOUS
  <2>3. new \in SUBSET Observers
    BY <1>1, <2>2, TypeFacts DEF ToSet, Places
  <2>4. audience' = Append(audience, new)
    BY <1>4, <2>2
  <2>5. /\ audience' \in Seq(SUBSET Observers) /\ Len(audience') = Changes + 1
        /\ audience'[Changes + 1] = new
        /\ \A n \in 1 .. Changes : audience'[n] = audience[n]
    BY <1>9, <2>1, <2>3, <2>4
  <2>6. Changes' = Changes + 1
    BY <2>5 DEF Changes
  <2>7. QED
    BY <1>9, <2>2, <2>5, <2>6
<1>11. Types'
  <2>1. overlap' \in BOOLEAN
    BY <1>4
  <2>2. QED
    BY <1>1, <1>4, <1>6, <1>10, <2>1 DEF Types
<1>12. PlaceInv'
  BY <1>1, <1>4 DEF PlaceInv
<1> DEFINE shift(h) == IF h = g THEN e - 1 ELSE 0
<1>13. ASSUME NEW h \in Goroutines, NEW k \in DOMAIN calls'[h], ~(h = g /\ k = 1)
       PROVE  /\ k \in Int /\ k + shift(h) \in DOMAIN calls[h]
              /\ calls'[h][k] = calls[h][k + shift(h)]
              /\ h = g /\ e = 1 => k + shift(h) # 1
  <2>1. CASE h = g
    <3>1. k - 1 \in 1 .. m /\ (k - 1) + 1 = k /\ (k - 1) + e = k + (e - 1) /\ k \in Int
      BY <1>6, <1>13, <2>1
    <3>2. calls'[g][k] = calls[g][k + (e - 1)]
      BY <1>6, <3>1 DEF m
    <3>3. k + (e - 1) \in 1 .. m + e /\ (e = 1 => k + (e - 1) # 1)
      BY <1>6, <1>13, <2>1, <3>1
    <3>4. QED
      BY <1>7, <2>1, <3>1, <3>2, <3>3
  <2>2. CASE h # g
    <3>1. k \in Int /\ k + 0 = k
      BY <1>6, <1>7, <2>2
    <3>2. QED
      BY <1>6, <2>2, <3>1
  <2>3. QED
    BY <2>1, <2>2
<1>14. ASSUME NEW h \in Goroutines, NEW k \in DOMAIN calls[h], ~(e = 1 /\ h = g /\ k = 1)
       PROVE  k - shift(h) \in DOMAIN calls'[h] /\ calls'[h][k - shift(h)] = calls[h][k]
  <2>1. CASE h = g
    <3>1. /\ k \in 1 .. m + e /\ (e = 1 => k # 1) /\ k - e \in 1 .. m /\ (k - e) + e = k
          /\ (k - e) + 1 = k - (e - 1) /\ (k - e) + 1 \in 1 .. m + 1
      BY <1>6, <1>7, <1>14, <2>1
    <3>2. QED
      BY <1>6, <2>1, <3>1 DEF m
  <2>2. CASE h # g
    <3>1. k - 0 = k
      BY <1>7
    <3>2. QED
      BY <1>6, <2>2, <3>1
  <2>3. QED
    BY <2>1, <2>2
<1>15. \A h \in Goroutines : shift(h) \in Int
  OBVIOUS
<1> HIDE DEF shift
<1>16. FnInv'
  <2>1. Changes' <= MaxChanges
    BY <1>9, <1>10, SignalsAssumption
  <2>2. ASSUME NEW h \in Goroutines, NEW i \in DOMAIN calls'[h], calls'[h][i].at \in {"fn", "waiting"}
        PROVE  FALSE
    <3>1. ~(h = g /\ i = 1)
      BY <1>5, <1>6, <2>2
    <3>2. QED
      BY <1>8, <1>13, <2>2, <3>1
  <2>3. QED
    BY <2>1, <2>2 DEF FnInv
<1>17. \A o : Numbers(o)' = Numbers(o)
  BY <1>4 DEF Numbers
<1>18. \A o \in Observers : \A n \in Numbers(o) : n \in 1 .. Changes
  BY <1>1 DEF ToldInv, Numbers
<1>19. TellInv'
  <2>1. ASSUME NEW h \in Goroutines, NEW k \in DOMAIN calls'[h], Tells(h, k)', ~(h = g /\ k = 1)
        PROVE  LET x == calls[h][k + shift(h)]
               IN  /\ k + shift(h) \in DOMAIN calls[h] /\ Tells(h, k + shift(h)) /\ calls'[h][k] = x
                   /\ x.number \in 1 .. Changes /\ Fresh(x) /\ Once(x)
                   /\ \A h2 \in Goroutines : \A k2 \in DOMAIN calls[h2] :
                          Tells(h2, k2) /\ calls[h2][k2].number = x.number
                          => h2 = h /\ k2 = k + shift(h)
    <3>1. k + shift(h) \in DOMAIN calls[h] /\ calls'[h][k] = calls[h][k + shift(h)]
      BY <1>13, <2>1
    <3>2. Tells(h, k + shift(h))
      BY <2>1, <3>1 DEF Tells
    <3>3. QED
      BY <1>1, <3>1, <3>2 DEF TellInv
  <2>2. ASSUME NEW h \in Goroutines, NEW i \in DOMAIN calls'[h], Tells(h, i)', ~(h = g /\ i = 1)
        PROVE  /\ calls'[h][i].number \in 1 .. Changes
               /\ Fresh(calls[h][i])' /\ Once(calls[h][i])'
               /\ \A h2 \in Goroutines : \A k \in DOMAIN calls'[h2] :
                      Tells(h2, k)' /\ calls'[h2][k].number = calls'[h][i].number => h2 = h /\ k = i
    <3> DEFINE x == calls[h][i + shift(h)]
    <3>1. /\ i + shift(h) \in DOMAIN calls[h] /\ Tells(h, i + shift(h)) /\ calls'[h][i] = x
          /\ x.number \in 1 .. Changes /\ Fresh(x) /\ Once(x)
          /\ \A h2 \in Goroutines : \A k2 \in DOMAIN calls[h2] :
                 Tells(h2, k2) /\ calls[h2][k2].number = x.number => h2 = h /\ k2 = i + shift(h)
      BY <2>1, <2>2
    <3> HIDE DEF x
    <3>2. Fresh(calls[h][i])' /\ Once(calls[h][i])'
      <4>1. calls'[h][i].todo = x.todo /\ calls'[h][i].number = x.number
        BY <3>1
      <4>2. audience'[x.number] = audience[x.number] /\ index' = index
        BY <1>4, <1>10, <3>1
      <4>3. Fresh(calls[h][i])'
        BY <1>17, <3>1, <4>1, <4>2 DEF Fresh
      <4>4. Once(calls[h][i])'
        BY <3>1, <4>1 DEF Once
      <4>5. QED
        BY <4>3, <4>4
    <3>3. ASSUME NEW h2 \in Goroutines, NEW k \in DOMAIN calls'[h2], Tells(h2, k)',
                 calls'[h2][k].number = calls'[h][i].number
          PROVE  h2 = h /\ k = i
      <4>1. ~(h2 = g /\ k = 1)
        BY <1>5, <1>6, <1>9, <3>1, <3>3
      <4>2. /\ k + shift(h2) \in DOMAIN calls[h2] /\ Tells(h2, k + shift(h2))
            /\ calls'[h2][k] = calls[h2][k + shift(h2)]
        BY <2>1, <3>3, <4>1
      <4>3. h2 = h /\ k + shift(h2) = i + shift(h)
        BY <3>1, <3>3, <4>2
      <4>4. k \in Int /\ i \in Int
        BY <1>13, <2>2, <3>3, <4>1
      <4>5. QED
        BY <1>15, <4>3, <4>4
    <3>4. QED
      BY <3>1, <3>2, <3>3
  <2>3. /\ calls'[g][1].number = Changes + 1
        /\ Fresh(calls[g][1])' /\ Once(calls[g][1])'
    <3>1. \A j \in DOMAIN observers : observers[j] # Nil =>
              observers[j] \in Observers /\ index[observers[j]] = j /\ j # 0
      BY <1>1, TypeFacts DEF PlaceInv, Places
    <3>2. Once(calls[g][1])'
      <4>1. calls'[g][1].todo = observers
        BY <1>5, <1>6
      <4>2. QED
        BY <3>1, <4>1 DEF Once
    <3>3. \A j \in DOMAIN observers : observers[j] # Nil =>
              observers[j] \in audience'[Changes + 1] /\ Changes + 1 \notin Numbers(observers[j])
      BY <1>9, <1>10, <1>18, <3>1 DEF ToSet
    <3>4. Fresh(calls[g][1])'
      <4>1. calls'[g][1].todo = observers /\ calls'[g][1].number = Changes + 1 /\ index' = index
        BY <1>4, <1>5, <1>6
      <4>2. QED
        BY <1>17, <3>1, <3>3, <4>1 DEF Fresh
    <3>5. QED
      BY <1>5, <1>6, <3>2, <3>4
  <2>4. ASSUME NEW h2 \in Goroutines, NEW k \in DOMAIN calls'[h2], Tells(h2, k)',
               calls'[h2][k].number = Changes + 1
        PROVE  h2 = g /\ k = 1
    BY <1>9, <2>2, <2>4
  <2>5. Changes + 1 \in 1 .. Changes' /\ \A n \in 1 .. Changes : n \in 1 .. Changes'
    BY <1>9, <1>10
  <2>6. SUFFICES ASSUME NEW h \in Goroutines, NEW i \in DOMAIN calls'[h], Tells(h, i)'
                 PROVE  /\ calls'[h][i].number \in 1 .. Changes'
                        /\ Fresh(calls[h][i])' /\ Once(calls[h][i])'
                        /\ \A h2 \in Goroutines : \A k \in DOMAIN calls'[h2] :
                               Tells(h2, k)' /\ calls'[h2][k].number = calls'[h][i].number
                               => h2 = h /\ k = i
    BY DEF TellInv
  <2>7. CASE h = g /\ i = 1
    BY <2>3, <2>4, <2>5, <2>7
  <2>8. CASE ~(h = g /\ i = 1)
    BY <2>2, <2>5, <2>6, <2>8
  <2>9. QED
    BY <2>7, <2>8
<1>20. ToldInv'
  BY <1>1, <1>4, <1>10 DEF ToldInv
<1>21. ASSUME NEW o \in Observers, o \in ToSet(observers)
       PROVE  1 \in DOMAIN calls'[g] /\ Pending(g, 1, o)' /\ calls'[g][1].number = Changes + 1
  BY <1>5, <1>6, <1>21 DEF Pending, Tells
<1>22. DoneInv'
  <2>1. SUFFICES ASSUME ~panicked', NEW o \in Observers, NEW n \in 1 .. Changes', o \in audience'[n]
                 PROVE  n \in Numbers(o)' \/ Owed(o, n)'
    BY DEF DoneInv
  <2>2. CASE n = Changes + 1
    <3>1. o \in ToSet(observers)
      BY <1>10, <2>1, <2>2
    <3>2. QED
      BY <1>21, <2>2, <3>1 DEF Owed
  <2>3. CASE n \in 1 .. Changes
    <3>1. n \in Numbers(o) \/ Owed(o, n)
      BY <1>1, <1>4, <1>10, <2>1, <2>3 DEF DoneInv
    <3>2. ASSUME Owed(o, n) PROVE Owed(o, n)'
      <4>1. PICK h \in Goroutines : \E k \in DOMAIN calls[h] : Pending(h, k, o) /\ calls[h][k].number = n
        BY <3>2 DEF Owed
      <4>2. PICK k \in DOMAIN calls[h] : Pending(h, k, o) /\ calls[h][k].number = n
        BY <4>1
      <4>3. ~(e = 1 /\ h = g /\ k = 1)
        BY <4>2 DEF Pending, Tells, Top
      <4>4. PICK j : j = k - shift(h)
        OBVIOUS
      <4>5. j \in DOMAIN calls'[h] /\ calls'[h][j] = calls[h][k]
        BY <1>14, <4>3, <4>4
      <4>6. Pending(h, j, o)' /\ calls'[h][j].number = n
        BY <4>2, <4>5 DEF Pending, Tells
      <4>7. QED
        BY <4>5, <4>6 DEF Owed
    <3>3. QED
      BY <1>17, <3>1, <3>2
  <2>4. QED
    BY <1>10, <2>2, <2>3
<1>23. LastInv'
  <2>1. SUFFICES ASSUME ~panicked', ~overlap'
                 PROVE  /\ \A h \in Goroutines : \A i \in DOMAIN calls'[h] :
                               calls'[h][i].at = "notify" => calls'[h][i].value = value'
                        /\ \A o \in Observers \ left' : told'[o] # <<>> =>
                               \E h \in Goroutines : \E i \in DOMAIN calls'[h] : Pending(h, i, o)'
    BY DEF LastInv
  <2>2. outer = <<>> /\ \A h \in Goroutines : h # g => calls[h] = <<>>
    BY <1>4, <2>1 DEF Busy
  <2>3. m = 0 /\ DOMAIN calls'[g] = 1 .. 1
    BY <1>6, <2>2 DEF m
  <2>4. \A h \in Goroutines : \A i \in DOMAIN calls'[h] : h = g /\ i = 1
    <3>1. \A h \in Goroutines : h # g => DOMAIN calls'[h] = {}
      BY <1>6, <2>2
    <3>2. QED
      BY <2>3, <3>1
  <2>5. ASSUME NEW o \in Observers \ left', told'[o] # <<>>
        PROVE  o \in ToSet(observers)
    <3>1. o \notin left /\ index[o] \in DOMAIN observers /\ observers[index[o]] = o
      BY <1>1, <1>4, <2>5 DEF PlaceInv
    <3>2. QED
      BY <3>1 DEF ToSet
  <2>6. QED
    BY <1>4, <1>5, <1>6, <1>21, <2>4, <2>5
<1>24. QED
  BY <1>11, <1>12, <1>16, <1>19, <1>20, <1>22, <1>23 DEF SignalInv

(***************************************************************************)
(* The next place of a call's list is taken.                               *)
(***************************************************************************)

LEMMA NotifyStep ==
  ASSUME SignalInv, NEW g \in Goroutines, Notify(g)
  PROVE  SignalInv'
<1>1. Types /\ PlaceInv /\ FnInv /\ TellInv /\ ToldInv /\ DoneInv /\ LastInv
  BY DEF SignalInv
<1>2. PICK top : top = calls[g][1]
  OBVIOUS
<1>3. PICK o : o = Head(top.todo)
  OBVIOUS
<1>4. PICK c : c = [top EXCEPT !.todo = Tail(@), !.in = o]
  OBVIOUS
<1>5. PICK t : t = [number |-> top.number, value |-> top.value]
  OBVIOUS
<1>6. /\ Busy(g) /\ top.at = "notify" /\ top.in = Nil /\ top.todo # <<>>
      /\ ReplaceTop(g, c)
      /\ told' = IF o = Nil THEN told ELSE [told EXCEPT ![o] = Append(@, t)]
      /\ UNCHANGED <<kind, value, observers, index, lock, audience, left, overlap, panicked>>
  BY <1>2, <1>3, <1>4, <1>5 DEF Notify, Top
<1>7. top \in Frames /\ 1 \in DOMAIN calls[g]
  <2>1. calls[g] \in Seq(Frames) /\ calls[g] # <<>>
    BY <1>1, <1>6, TypeFacts DEF Busy
  <2> HIDE DEF Frames
  <2>2. QED
    BY <1>2, <2>1, Behead
<1> DEFINE n == Len(top.todo)
<1>8. /\ top.number \in Nat /\ top.value \in Values /\ top.todo \in Seq(Places) /\ o \in Places
      /\ n \in Nat \ {0} /\ DOMAIN top.todo = 1 .. n /\ top.todo[1] = o
      /\ Tail(top.todo) \in Seq(Places) /\ DOMAIN Tail(top.todo) = 1 .. n - 1
      /\ \A j \in 1 .. n - 1 : Tail(top.todo)[j] = top.todo[j + 1]
  <2>1. top.number \in Nat /\ top.value \in Values /\ top.todo \in Seq(Places)
    BY <1>1, <1>7, FrameFacts
  <2> HIDE DEF Places
  <2>2. QED
    BY <1>3, <1>6, <2>1, Behead
<1>9. /\ c \in Frames /\ c.at = "notify" /\ c.number = top.number /\ c.value = top.value
      /\ c.in = o /\ c.todo = Tail(top.todo)
  <2>1. c \in Frames
    BY <1>4, <1>7, <1>8 DEF Frames
  <2>2. /\ "at" \in DOMAIN top /\ "number" \in DOMAIN top /\ "value" \in DOMAIN top
        /\ "todo" \in DOMAIN top /\ "in" \in DOMAIN top
    BY <1>7 DEF Frames
  <2>3. c.at = top.at /\ c.number = top.number /\ c.value = top.value
    BY <1>4
  <2>4. c.in = o /\ c.todo = Tail(top.todo)
    BY <1>4, <2>2
  <2>5. QED
    BY <1>6, <2>1, <2>3, <2>4
<1> HIDE DEF n
<1>10. /\ calls' \in [Goroutines -> Seq(Frames)]
       /\ \A h \in Goroutines : h # g => calls'[h] = calls[h]
       /\ DOMAIN calls'[g] = DOMAIN calls[g] /\ calls'[g][1] = c
       /\ \A k \in DOMAIN calls[g] : k # 1 => calls'[g][k] = calls[g][k]
  BY <1>1, <1>6, <1>9, ReplaceFacts
<1>11. Nil \notin Observers /\ (o # Nil => o \in Observers) /\ Changes' = Changes /\ Changes \in Nat
  BY <1>1, <1>6, <1>8, TypeFacts DEF Places, Changes
\* What o is told, and the others are not.
<1>12. \A x \in Observers : x # o => told'[x] = told[x] /\ Numbers(x)' = Numbers(x)
  BY <1>1, <1>6, <1>11 DEF Types, Numbers
<1>13. ASSUME o # Nil
       PROVE  LET m == Len(told[o])
              IN  /\ m \in Nat /\ DOMAIN told[o] = 1 .. m
                  /\ told'[o] \in Seq(Tellings) /\ Len(told'[o]) = m + 1
                  /\ DOMAIN told'[o] = 1 .. m + 1 /\ told'[o][m + 1] = t
                  /\ \A a \in 1 .. m : told'[o][a] = told[o][a]
  <2>1. told[o] \in Seq(Tellings) /\ t \in Tellings /\ told'[o] = Append(told[o], t)
    BY <1>1, <1>5, <1>6, <1>8, <1>11, <1>13 DEF Types, Tellings
  <2> HIDE DEF Tellings
  <2>2. QED
    BY <2>1
<1>14. o # Nil => Numbers(o)' = Numbers(o) \cup {top.number}
  <2>1. SUFFICES ASSUME o # Nil PROVE Numbers(o)' = Numbers(o) \cup {top.number}
    OBVIOUS
  <2>2. PICK m : m = Len(told[o])
    OBVIOUS
  <2>3. /\ m \in Nat /\ DOMAIN told[o] = 1 .. m
        /\ DOMAIN told'[o] = 1 .. m + 1 /\ told'[o][m + 1].number = top.number
        /\ \A a \in 1 .. m : told'[o][a] = told[o][a]
    BY <1>5, <1>13, <2>1, <2>2
  <2>4. 1 .. m + 1 = 1 .. m \cup {m + 1}
    BY <2>3
  <2>5. Numbers(o)' = {told'[o][a].number : a \in 1 .. m + 1}
    BY <2>3 DEF Numbers
  <2>6. Numbers(o) = {told[o][a].number : a \in 1 .. m}
    BY <2>3 DEF Numbers
  <2>7. QED
    BY <2>3, <2>4, <2>5, <2>6
<1>15. Types'
  <2>1. told' \in [Observers -> Seq(Tellings)]
    <3>1. CASE o = Nil
      BY <1>1, <1>6, <3>1 DEF Types
    <3>2. CASE o # Nil
      <4>1. told'[o] \in Seq(Tellings) /\ o \in Observers
        BY <1>11, <1>13, <3>2
      <4>2. told' = [told EXCEPT ![o] = told'[o]]
        BY <1>1, <1>6, <3>2, <4>1 DEF Types
      <4> HIDE DEF Tellings
      <4>3. told \in [Observers -> Seq(Tellings)]
        BY <1>1 DEF Types
      <4>4. QED
        BY <4>1, <4>2, <4>3
    <3>3. QED
      BY <3>1, <3>2
  <2>2. QED
    BY <1>1, <1>6, <1>10, <2>1 DEF Types
<1>16. TellInv /\ Tells(g, 1) /\ top.number \in 1 .. Changes /\ Fresh(top) /\ Once(top)
  <2>1. Tells(g, 1)
    BY <1>2, <1>6, <1>7 DEF Tells
  <2>2. QED
    BY <1>1, <1>2, <1>7, <2>1 DEF TellInv
<1>17. o # Nil => o \in audience[top.number] /\ top.number \notin Numbers(o) /\ index[o] # 0
  BY <1>8, <1>16 DEF Fresh
<1>18. PlaceInv'
  BY <1>1, <1>6, <1>12, <1>17 DEF PlaceInv
<1>19. FnInv'
  <2>1. ASSUME NEW h \in Goroutines, NEW i \in DOMAIN calls'[h], calls'[h][i].at \in {"fn", "waiting"}
        PROVE  lock' = h /\ i = 1 /\ calls'[h][i].in = Nil /\ Changes' < MaxChanges
    <3>1. i \in DOMAIN calls[h] /\ calls'[h][i] = calls[h][i]
      BY <1>9, <1>10, <2>1
    <3>2. QED
      BY <1>1, <1>6, <1>11, <2>1, <3>1 DEF FnInv
  <2>2. QED
    BY <1>1, <1>11, <2>1 DEF FnInv
\* The calls that tell are those that did, and of the same changes.
<1>20. ASSUME NEW h \in Goroutines, NEW i \in DOMAIN calls'[h]
       PROVE  /\ i \in DOMAIN calls[h] /\ (Tells(h, i)' <=> Tells(h, i))
              /\ calls'[h][i].number = calls[h][i].number
              /\ calls'[h][i].value = calls[h][i].value
              /\ calls'[h][i].at = calls[h][i].at
              /\ ~(h = g /\ i = 1) => calls'[h][i] = calls[h][i]
  <2>1. CASE h = g /\ i = 1
    BY <1>2, <1>6, <1>7, <1>9, <1>10, <2>1 DEF Tells
  <2>2. CASE ~(h = g /\ i = 1)
    BY <1>10, <2>2 DEF Tells
  <2>3. QED
    BY <2>1, <2>2
<1>21. TellInv'
  <2>1. SUFFICES ASSUME NEW h \in Goroutines, NEW i \in DOMAIN calls'[h], Tells(h, i)'
                 PROVE  /\ calls'[h][i].number \in 1 .. Changes'
                        /\ Fresh(calls[h][i])' /\ Once(calls[h][i])'
                        /\ \A h2 \in Goroutines : \A k \in DOMAIN calls'[h2] :
                               Tells(h2, k)' /\ calls'[h2][k].number = calls'[h][i].number
                               => h2 = h /\ k = i
    BY DEF TellInv
  <2>2. PICK x : x = calls[h][i]
    OBVIOUS
  <2>3. i \in DOMAIN calls[h] /\ Tells(h, i) /\ calls'[h][i].number = x.number
    BY <1>20, <2>1, <2>2
  <2>4. /\ x.number \in 1 .. Changes /\ Fresh(x) /\ Once(x)
        /\ \A h2 \in Goroutines : \A k \in DOMAIN calls[h2] :
               Tells(h2, k) /\ calls[h2][k].number = x.number => h2 = h /\ k = i
    BY <1>1, <2>2, <2>3 DEF TellInv
  <2>5. ASSUME NEW h2 \in Goroutines, NEW k \in DOMAIN calls'[h2], Tells(h2, k)',
               calls'[h2][k].number = calls'[h][i].number
        PROVE  h2 = h /\ k = i
    BY <1>20, <2>3, <2>4, <2>5
  <2>6. Fresh(calls[h][i])' /\ Once(calls[h][i])'
    <3>1. CASE h = g /\ i = 1
      <4>1. /\ calls'[h][i].todo = Tail(top.todo) /\ calls'[h][i].number = top.number /\ x = top
        BY <1>2, <1>9, <1>10, <2>2, <3>1
      <4>2. Once(calls[h][i])'
        <5>1. ASSUME NEW j \in 1 .. n - 1, NEW k \in 1 .. n - 1, Tail(top.todo)[j] # Nil,
                     Tail(top.todo)[j] = Tail(top.todo)[k]
              PROVE  j = k
          <6>1. /\ top.todo[j + 1] # Nil /\ top.todo[j + 1] = top.todo[k + 1]
                /\ j + 1 \in 1 .. n /\ k + 1 \in 1 .. n
            BY <1>8, <5>1
          <6>2. j + 1 = k + 1
            BY <1>8, <1>16, <6>1 DEF Once
          <6>3. QED
            BY <1>8, <6>2
        <5>2. QED
          BY <1>8, <4>1, <5>1 DEF Once
      <4>3. ASSUME NEW j \in 1 .. n - 1, Tail(top.todo)[j] # Nil
            PROVE  /\ Tail(top.todo)[j] \in audience'[top.number]
                   /\ top.number \notin Numbers(Tail(top.todo)[j])'
                   /\ index'[Tail(top.todo)[j]] # 0
        <5>1. PICK y : y = top.todo[j + 1]
          OBVIOUS
        <5>2. y = Tail(top.todo)[j] /\ j + 1 \in 1 .. n /\ 1 \in 1 .. n /\ j + 1 # 1 /\ y \in Places
          BY <1>8, <5>1
        <5>3. y # o
          BY <1>8, <1>16, <4>3, <5>1, <5>2 DEF Once
        <5>4. y \in audience[top.number] /\ top.number \notin Numbers(y) /\ index[y] # 0
          BY <1>8, <1>16, <4>3, <5>1, <5>2 DEF Fresh
        <5>5. Numbers(y)' = Numbers(y)
          BY <1>12, <4>3, <5>2, <5>3 DEF Places
        <5>6. Tail(top.todo)[j] = y /\ top.number \notin Numbers(y)'
          BY <5>2, <5>4, <5>5
        <5>7. QED
          BY <1>6, <5>4, <5>6
      <4>4. Fresh(calls[h][i])'
        BY <1>8, <4>1, <4>3 DEF Fresh
      <4>5. QED
        BY <4>2, <4>4
    <3>2. CASE ~(h = g /\ i = 1)
      <4>1. calls'[h][i] = x
        BY <1>20, <2>2, <3>2
      <4>2. x.number # top.number
        BY <1>2, <1>7, <1>16, <2>4, <3>2
      <4>3. Once(calls[h][i])'
        BY <2>4, <4>1 DEF Once
      <4>4. ASSUME NEW j \in DOMAIN x.todo, x.todo[j] # Nil
            PROVE  /\ x.todo[j] \in audience'[x.number]
                   /\ x.number \notin Numbers(x.todo[j])'
                   /\ index'[x.todo[j]] # 0
        <5>1. PICK y : y = x.todo[j]
          OBVIOUS
        <5>2. y \in audience[x.number] /\ x.number \notin Numbers(y) /\ index[y] # 0
          BY <2>4, <4>4, <5>1 DEF Fresh
        <5>3. y \in Observers
          BY <1>1, <2>4, <5>2, TypeFacts DEF Types
        <5>4. x.number \notin Numbers(y)'
          BY <1>12, <1>14, <4>2, <4>4, <5>1, <5>2, <5>3
        <5>5. QED
          BY <1>6, <5>1, <5>2, <5>4
      <4>5. Fresh(calls[h][i])'
        BY <4>1, <4>4 DEF Fresh
      <4>6. QED
        BY <4>3, <4>5
    <3>3. QED
      BY <3>1, <3>2
  <2>7. QED
    BY <1>11, <2>3, <2>4, <2>5, <2>6
<1>22. ToldInv'
  <2>1. SUFFICES ASSUME NEW x \in Observers
                 PROVE  /\ \A a, b \in DOMAIN told'[x] : told'[x][a].number = told'[x][b].number => a = b
                        /\ \A a \in DOMAIN told'[x] : /\ told'[x][a].number \in 1 .. Changes
                                                      /\ x \in audience[told'[x][a].number]
    BY <1>6, <1>11 DEF ToldInv
  <2>2. CASE x # o
    BY <1>1, <1>12, <2>2 DEF ToldInv
  <2>3. CASE x = o
    <3>1. o # Nil
      BY <1>11, <2>3
    <3>2. PICK m : m = Len(told[o])
      OBVIOUS
    <3>3. /\ m \in Nat /\ DOMAIN told[o] = 1 .. m
          /\ DOMAIN told'[o] = 1 .. m + 1 /\ told'[o][m + 1].number = top.number
          /\ \A a \in 1 .. m : told'[o][a] = told[o][a]
      BY <1>5, <1>13, <3>1, <3>2
    <3>4. \A a \in 1 .. m : told[o][a].number # top.number
      BY <1>17, <3>1, <3>3 DEF Numbers
    <3>5. /\ \A a, b \in 1 .. m : told[o][a].number = told[o][b].number => a = b
          /\ \A a \in 1 .. m : told[o][a].number \in 1 .. Changes /\ o \in audience[told[o][a].number]
      BY <1>1, <2>3, <3>3 DEF ToldInv
    <3>6. \A a \in 1 .. m + 1 : a \in 1 .. m \/ a = m + 1
      BY <3>3
    <3>7. QED
      BY <1>16, <1>17, <2>3, <3>1, <3>3, <3>4, <3>5, <3>6
  <2>4. QED
    BY <2>2, <2>3
\* Of those that were to be told only o is struck off.
<1>23. ASSUME NEW h \in Goroutines, NEW i \in DOMAIN calls[h], NEW x \in Observers,
              Pending(h, i, x), ~(x = o /\ h = g /\ i = 1)
       PROVE  i \in DOMAIN calls'[h] /\ Pending(h, i, x)'
  <2>1. i \in DOMAIN calls'[h] /\ Tells(h, i) /\ x \in ToSet(calls[h][i].todo)
    BY <1>10, <1>23 DEF Pending
  <2>2. Tells(h, i)'
    BY <1>20, <2>1
  <2>3. CASE h = g /\ i = 1
    <3>1. PICK j \in 1 .. n : top.todo[j] = x
      BY <1>2, <1>8, <2>1, <2>3 DEF ToSet
    <3>2. j # 1
      BY <1>8, <1>23, <2>3, <3>1
    <3>3. j - 1 \in 1 .. n - 1 /\ (j - 1) + 1 = j
      BY <1>8, <3>2
    <3>4. Tail(top.todo)[j - 1] = x
      BY <1>8, <3>1, <3>3
    <3>5. x \in ToSet(Tail(top.todo))
      BY <1>8, <3>3, <3>4 DEF ToSet
    <3>6. calls'[h][i].todo = Tail(top.todo)
      BY <1>9, <1>10, <2>3
    <3>7. QED
      BY <2>1, <2>2, <3>5, <3>6 DEF Pending
  <2>4. CASE ~(h = g /\ i = 1)
    BY <1>20, <2>1, <2>2, <2>4 DEF Pending
  <2>5. QED
    BY <2>3, <2>4
<1>24. DoneInv'
  <2>1. SUFFICES ASSUME ~panicked', NEW x \in Observers, NEW k \in 1 .. Changes', x \in audience'[k]
                 PROVE  k \in Numbers(x)' \/ Owed(x, k)'
    BY DEF DoneInv
  <2>2. k \in Numbers(x) \/ Owed(x, k)
    BY <1>1, <1>6, <1>11, <2>1 DEF DoneInv
  <2>3. CASE k \in Numbers(x)
    BY <1>11, <1>12, <1>14, <2>3
  <2>4. CASE Owed(x, k)
    <3>1. PICK h \in Goroutines : \E i \in DOMAIN calls[h] : Pending(h, i, x) /\ calls[h][i].number = k
      BY <2>4 DEF Owed
    <3>2. PICK i \in DOMAIN calls[h] : Pending(h, i, x) /\ calls[h][i].number = k
      BY <3>1
    <3>3. CASE x = o /\ h = g /\ i = 1
      BY <1>2, <1>11, <1>14, <3>2, <3>3
    <3>4. CASE ~(x = o /\ h = g /\ i = 1)
      <4>1. i \in DOMAIN calls'[h] /\ Pending(h, i, x)'
        BY <1>23, <3>2, <3>4
      <4>2. calls'[h][i].number = k
        BY <1>20, <3>2, <4>1
      <4>3. QED
        BY <4>1, <4>2 DEF Owed
    <3>5. QED
      BY <3>3, <3>4
  <2>5. QED
    BY <2>2, <2>3, <2>4
<1>25. LastInv'
  <2>1. SUFFICES ASSUME ~panicked', ~overlap'
                 PROVE  /\ \A h \in Goroutines : \A i \in DOMAIN calls'[h] :
                               calls'[h][i].at = "notify" => calls'[h][i].value = value'
                        /\ \A x \in Observers \ left' : told'[x] # <<>> =>
                               \/ Last(told[x])'.value = value'
                               \/ \E h \in Goroutines : \E i \in DOMAIN calls'[h] : Pending(h, i, x)'
    BY DEF LastInv
  <2>2. /\ \A h \in Goroutines : \A i \in DOMAIN calls[h] :
               calls[h][i].at = "notify" => calls[h][i].value = value
        /\ \A x \in Observers \ left : told[x] # <<>> =>
               \/ Last(told[x]).value = value
               \/ \E h \in Goroutines : \E i \in DOMAIN calls[h] : Pending(h, i, x)
    BY <1>1, <1>6, <2>1 DEF LastInv
  <2>3. \A h \in Goroutines : \A i \in DOMAIN calls'[h] :
            calls'[h][i].at = "notify" => calls'[h][i].value = value'
    BY <1>6, <1>20, <2>2
  <2>4. ASSUME NEW x \in Observers \ left', told'[x] # <<>>
        PROVE  \/ Last(told[x])'.value = value'
               \/ \E h \in Goroutines : \E i \in DOMAIN calls'[h] : Pending(h, i, x)'
    <3>1. CASE x = o
      <4>1. o # Nil
        BY <1>11, <3>1
      <4>2. Last(told[x])' = t
        BY <1>13, <3>1, <4>1 DEF Last
      <4>3. t.value = value
        BY <1>2, <1>5, <1>6, <1>7, <2>2
      <4>4. QED
        BY <1>6, <4>2, <4>3
    <3>2. CASE x # o
      <4>1. told'[x] = told[x] /\ Last(told[x])' = Last(told[x])
        BY <1>12, <3>2 DEF Last
      <4>2. CASE Last(told[x]).value = value
        BY <1>6, <4>1, <4>2
      <4>3. CASE \E h \in Goroutines : \E i \in DOMAIN calls[h] : Pending(h, i, x)
        BY <1>23, <3>2, <4>3
      <4>4. QED
        BY <1>6, <2>2, <2>4, <4>1, <4>2, <4>3
    <3>3. QED
      BY <3>1, <3>2
  <2>5. QED
    BY <2>3, <2>4
<1>26. QED
  BY <1>15, <1>18, <1>19, <1>21, <1>22, <1>24, <1>25 DEF SignalInv

(***************************************************************************)
(* Observe and unsubscribe.                                                *)
(***************************************************************************)

\* The calls and what was told stay; an observer gains a place or loses it.
LEMMA RegisterStep ==
  ASSUME SignalInv, Types', PlaceInv',
         \A o \in Observers : index[o] # 0 => index'[o] # 0,
         left \subseteq left',
         UNCHANGED <<kind, value, calls, lock, told, audience, overlap, panicked>>
  PROVE  SignalInv'
<1>1. Types /\ FnInv /\ TellInv /\ ToldInv /\ DoneInv /\ LastInv
  BY DEF SignalInv
<1>2. /\ Changes' = Changes /\ \A x : Numbers(x)' = Numbers(x)
      /\ \A g, i : Tells(g, i)' <=> Tells(g, i)
      /\ \A g, i, x : Pending(g, i, x)' <=> Pending(g, i, x)
  BY DEF Changes, Numbers, Tells, Pending
<1>3. FnInv'
  BY <1>1, <1>2 DEF FnInv
<1>4. TellInv'
  <2>1. SUFFICES ASSUME NEW g \in Goroutines, NEW i \in DOMAIN calls[g], Tells(g, i)
                 PROVE  /\ calls[g][i].number \in 1 .. Changes
                        /\ Fresh(calls[g][i])' /\ Once(calls[g][i])'
                        /\ \A h \in Goroutines : \A k \in DOMAIN calls[h] :
                               Tells(h, k) /\ calls[h][k].number = calls[g][i].number => h = g /\ k = i
    BY <1>2 DEF TellInv
  <2>2. /\ calls[g][i].number \in 1 .. Changes /\ Fresh(calls[g][i]) /\ Once(calls[g][i])
        /\ \A h \in Goroutines : \A k \in DOMAIN calls[h] :
               Tells(h, k) /\ calls[h][k].number = calls[g][i].number => h = g /\ k = i
    BY <1>1, <2>1 DEF TellInv
  <2>3. Once(calls[g][i])'
    BY <2>2 DEF Once
  <2>4. audience[calls[g][i].number] \subseteq Observers
    BY <1>1, <2>2, TypeFacts DEF Types
  <2>5. Fresh(calls[g][i])'
    BY <1>2, <2>2, <2>4 DEF Fresh
  <2>6. QED
    BY <2>2, <2>3, <2>5
<1>5. ToldInv'
  BY <1>1, <1>2 DEF ToldInv
<1>6. DoneInv'
  <2>1. \A x, n : Owed(x, n)' <=> Owed(x, n)
    BY <1>2 DEF Owed
  <2>2. QED
    BY <1>1, <1>2, <2>1 DEF DoneInv
<1>7. LastInv'
  <2>1. \A x : Last(told[x])' = Last(told[x])
    BY DEF Last
  <2>2. QED
    BY <1>1, <1>2, <2>1 DEF LastInv
<1>8. QED
  BY <1>3, <1>4, <1>5, <1>6, <1>7 DEF SignalInv

LEMMA ObserveStep ==
  ASSUME SignalInv, NEW o \in Observers, Observe(o)
  PROVE  SignalInv'
<1>1. Types /\ PlaceInv
  BY DEF SignalInv
<1>2. PICK m : m = Len(observers)
  OBVIOUS
<1>3. /\ index[o] = 0 /\ observers' = Append(observers, o)
      /\ index' = [index EXCEPT ![o] = Len(observers')]
      /\ UNCHANGED <<kind, value, calls, lock, told, audience, left, overlap, panicked>>
  BY DEF Observe
<1>4. /\ m \in Nat /\ DOMAIN observers = 1 .. m /\ observers' \in Seq(Places)
      /\ DOMAIN observers' = 1 .. m + 1 /\ Len(observers') = m + 1 /\ observers'[m + 1] = o
      /\ \A i \in 1 .. m : observers'[i] = observers[i] /\ observers[i] \in Places
  <2>1. observers \in Seq(Places) /\ o \in Places
    BY <1>1 DEF Types, Places
  <2> HIDE DEF Places
  <2>2. QED
    BY <1>2, <1>3, <2>1
<1>5. /\ index' \in [Observers -> Nat] /\ index'[o] = m + 1 /\ m + 1 # 0
      /\ \A x \in Observers : x # o => index'[x] = index[x]
  <2>1. index' = [index EXCEPT ![o] = m + 1] /\ m + 1 \in Nat
    BY <1>3, <1>4
  <2>2. QED
    BY <1>1, <1>4, <2>1 DEF Types
<1>6. Types'
  BY <1>1, <1>3, <1>4, <1>5 DEF Types
<1>7. told[o] = <<>> /\ o \notin left
  BY <1>1, <1>3 DEF PlaceInv
<1>8. ASSUME NEW x \in Observers
      PROVE  IF index'[x] = 0 THEN told[x] = <<>> /\ x \notin left
             ELSE index'[x] \in DOMAIN observers' /\ observers'[index'[x]] = IF x \in left THEN Nil ELSE x
  <2>1. CASE x = o
    BY <1>4, <1>5, <1>7, <2>1
  <2>2. CASE x # o
    <3>1. index'[x] = index[x]
      BY <1>5, <2>2
    <3>2. CASE index[x] = 0
      BY <1>1, <3>1, <3>2 DEF PlaceInv
    <3>3. CASE index[x] # 0
      <4>1. index[x] \in 1 .. m /\ observers[index[x]] = IF x \in left THEN Nil ELSE x
        BY <1>1, <1>4, <3>3 DEF PlaceInv
      <4>2. index[x] \in 1 .. m + 1
        BY <1>4, <4>1
      <4>3. QED
        BY <1>4, <3>1, <3>3, <4>1, <4>2
    <3>4. QED
      BY <3>2, <3>3
  <2>3. QED
    BY <2>1, <2>2
<1>9. ASSUME NEW i \in DOMAIN observers', observers'[i] # Nil
      PROVE  index'[observers'[i]] = i
  <2>1. CASE i = m + 1
    BY <1>4, <1>5, <2>1
  <2>2. CASE i # m + 1
    <3>1. i \in 1 .. m /\ i # 0
      BY <1>4, <2>2
    <3>2. observers'[i] = observers[i] /\ observers[i] \in Observers /\ index[observers[i]] = i
      BY <1>1, <1>4, <1>9, <3>1 DEF PlaceInv, Places
    <3>3. QED
      BY <1>3, <1>5, <3>1, <3>2
  <2>3. QED
    BY <2>1, <2>2
<1>10. PlaceInv'
  BY <1>3, <1>8, <1>9 DEF PlaceInv
<1>11. \A x \in Observers : index[x] # 0 => index'[x] # 0
  BY <1>3, <1>5
<1>12. QED
  BY <1>3, <1>6, <1>10, <1>11, RegisterStep

LEMMA UnsubscribeStep ==
  ASSUME SignalInv, NEW o \in Observers, Unsubscribe(o)
  PROVE  SignalInv'
<1>1. Types /\ PlaceInv
  BY DEF SignalInv
<1>2. PICK p : p = index[o]
  OBVIOUS
<1>3. p # 0 /\ o \notin left /\ p \in DOMAIN observers /\ observers[p] = o
  BY <1>1, <1>2 DEF Unsubscribe, PlaceInv
<1>4. /\ observers' = [observers EXCEPT ![p] = Nil] /\ left' = left \cup {o}
      /\ UNCHANGED <<kind, value, index, calls, lock, told, audience, overlap, panicked>>
  <2>1. p <= Len(observers)
    BY <1>1, <1>3, TypeFacts
  <2>2. QED
    BY <1>2, <2>1 DEF Unsubscribe
<1>5. /\ observers' \in Seq(Places) /\ DOMAIN observers' = DOMAIN observers /\ observers'[p] = Nil
      /\ \A i \in DOMAIN observers : i # p => observers'[i] = observers[i]
  <2>1. observers \in Seq(Places) /\ Nil \in Places
    BY <1>1 DEF Types, Places
  <2> HIDE DEF Places
  <2>2. QED
    BY <1>3, <1>4, <2>1
<1>6. Types'
  BY <1>1, <1>4, <1>5 DEF Types
<1>7. ASSUME NEW x \in Observers
      PROVE  IF index[x] = 0 THEN told[x] = <<>> /\ x \notin left'
             ELSE index[x] \in DOMAIN observers' /\ observers'[index[x]] = IF x \in left' THEN Nil ELSE x
  <2>1. CASE x = o
    BY <1>2, <1>3, <1>4, <1>5, <2>1
  <2>2. CASE x # o
    <3>1. x \in left' <=> x \in left
      BY <1>4, <2>2
    <3>2. CASE index[x] = 0
      BY <1>1, <3>1, <3>2 DEF PlaceInv
    <3>3. CASE index[x] # 0 /\ index[x] # p
      BY <1>1, <1>5, <3>1, <3>3 DEF PlaceInv
    <3>4. CASE index[x] # 0 /\ index[x] = p
      BY <1>1, <1>3, <1>5, <2>2, <3>1, <3>4 DEF PlaceInv
    <3>5. QED
      BY <3>2, <3>3, <3>4
  <2>3. QED
    BY <2>1, <2>2
<1>8. ASSUME NEW i \in DOMAIN observers', observers'[i] # Nil
      PROVE  index[observers'[i]] = i
  BY <1>1, <1>5, <1>8 DEF PlaceInv
<1>9. PlaceInv'
  BY <1>4, <1>7, <1>8 DEF PlaceInv
<1>10. (\A x \in Observers : index[x] # 0 => index'[x] # 0) /\ left \subseteq left'
  BY <1>4
<1>11. QED
  BY <1>4, <1>6, <1>9, <1>10, RegisterStep

(***************************************************************************)
(* The theorems.                                                           *)
(***************************************************************************)

LEMMA InitSignal == Init => SignalInv
<1>1. SUFFICES ASSUME Init PROVE SignalInv
  OBVIOUS
<1>2. Types
  <2>1. overlap \in BOOLEAN /\ panicked \in BOOLEAN
    BY <1>1 DEF Init
  <2>2. observers \in Seq(Places) /\ audience \in Seq(SUBSET Observers)
    BY <1>1 DEF Init
  <2> HIDE DEF Frames, Tellings
  <2>3. calls \in [Goroutines -> Seq(Frames)] /\ told \in [Observers -> Seq(Tellings)]
    BY <1>1 DEF Init
  <2>4. QED
    BY <1>1, <2>1, <2>2, <2>3 DEF Init, Types
<1>3. DOMAIN observers = {} /\ \A g \in Goroutines : DOMAIN calls[g] = {}
  BY <1>1 DEF Init
<1>4. Changes = 0 /\ 1 .. Changes = {} /\ \A o \in Observers : told[o] = <<>> /\ DOMAIN told[o] = {}
  BY <1>1 DEF Init, Changes
<1>5. PlaceInv
  BY <1>1, <1>3, <1>4 DEF Init, PlaceInv
<1>6. FnInv
  BY <1>3, <1>4, SignalsAssumption DEF FnInv
<1>7. TellInv /\ ToldInv /\ DoneInv /\ LastInv
  BY <1>3, <1>4 DEF TellInv, ToldInv, DoneInv, LastInv
<1>8. QED
  BY <1>2, <1>5, <1>6, <1>7 DEF SignalInv

LEMMA SetStep ==
  ASSUME SignalInv, NEW g \in Goroutines, NEW v \in Values, Set(g, v)
  PROVE  SignalInv'
<1>1. Types
  BY DEF SignalInv
<1>2. PICK outer : outer = calls[g]
  OBVIOUS
<1>3. outer \in Seq(Frames) /\ Len(calls[g]) \in Nat
  BY <1>1, <1>2, TypeFacts
<1>4. Len(outer) = Len(calls[g]) - 0 /\ \A k \in 1 .. Len(outer) : outer[k] = calls[g][k + 0]
  BY <1>2, <1>3
<1>5. lock = Nil /\ Changes < MaxChanges /\ Store(g, v, Call(v), outer)
  BY <1>2 DEF Set, MayBegin
<1>6. 0 \in {0, 1} /\ 0 # 1
  OBVIOUS
<1>7. QED
  BY <1>3, <1>4, <1>5, <1>6, StoreStep

LEMMA FnReturnsStep ==
  ASSUME SignalInv, NEW g \in Goroutines, NEW v \in Values, FnReturns(g, v)
  PROVE  SignalInv'
<1>1. Types /\ Busy(g) /\ Top(g).at = "fn"
  BY DEF SignalInv, FnReturns, InFn
<1>2. CASE kind = "signal" /\ v = value
  <2>1. /\ calls' = [calls EXCEPT ![g] = Tail(@)]
        /\ lock' = Nil /\ audience' = Append(audience, {})
        /\ UNCHANGED <<kind, value, observers, index, told, left, overlap, panicked>>
    BY <1>2 DEF FnReturns
  <2>2. QED
    BY <1>1, <2>1, PopStep
<1>3. CASE ~(kind = "signal" /\ v = value)
  <2>1. PICK outer : outer = Tail(calls[g])
    OBVIOUS
  <2>2. /\ outer \in Seq(Frames) /\ Len(outer) = Len(calls[g]) - 1
        /\ \A k \in 1 .. Len(outer) : outer[k] = calls[g][k + 1]
    <3>1. calls[g] \in Seq(Frames) /\ calls[g] # <<>>
      BY <1>1, TypeFacts DEF Busy
    <3> HIDE DEF Frames
    <3>2. QED
      BY <2>1, <3>1, Behead
  <2>3. Store(g, v, Call(v), outer)
    BY <1>3, <2>1 DEF FnReturns
  <2>4. 1 \in {0, 1} /\ 1 # 0
    OBVIOUS
  <2>5. QED
    BY <1>1, <2>2, <2>3, <2>4, StoreStep
<1>4. QED
  BY <1>2, <1>3

\* FnWaits, Snapshot and ObserverReturns: the innermost call is at another place.
LEMMA FnWaitsStep ==
  ASSUME SignalInv, NEW g \in Goroutines, FnWaits(g)
  PROVE  SignalInv'
<1>1. PICK c : c = [Top(g) EXCEPT !.at = "waiting"]
  OBVIOUS
<1>2. /\ Types /\ FnInv /\ Busy(g) /\ Top(g).at = "fn" /\ ReplaceTop(g, c)
      /\ UNCHANGED <<kind, value, observers, index, lock, told, audience, left, overlap, panicked>>
  BY <1>1 DEF SignalInv, FnWaits, InFn
<1>3. Top(g) \in Frames /\ Top(g).in = Nil
  <2>1. calls[g] \in Seq(Frames) /\ calls[g] # <<>>
    BY <1>2, TypeFacts DEF Busy
  <2> HIDE DEF Frames
  <2>2. 1 \in DOMAIN calls[g] /\ calls[g][1] \in Frames
    BY <2>1, Behead
  <2>3. QED
    BY <1>2, <2>2 DEF Top, FnInv
<1>4. c \in Frames
  BY <1>1, <1>3 DEF Frames
<1>5. /\ c.at = "waiting" /\ c.number = Top(g).number /\ c.todo = Top(g).todo
      /\ c.in = Top(g).in
  BY <1>1, <1>3 DEF Frames
<1>6. QED
  BY <1>2, <1>3, <1>4, <1>5, TopStep

LEMMA SnapshotStep ==
  ASSUME SignalInv, NEW g \in Goroutines, Snapshot(g)
  PROVE  SignalInv'
<1>1. PICK c : c = [Top(g) EXCEPT !.at = "notify", !.value = value]
  OBVIOUS
<1>2. /\ Types /\ Busy(g) /\ Top(g).at = "snapshot" /\ ReplaceTop(g, c)
      /\ UNCHANGED <<kind, value, observers, index, lock, told, audience, left, overlap, panicked>>
  BY <1>1 DEF SignalInv, Snapshot
<1>3. Top(g) \in Frames /\ value \in Values
  <2>1. calls[g] \in Seq(Frames) /\ calls[g] # <<>>
    BY <1>2, TypeFacts DEF Busy
  <2> HIDE DEF Frames
  <2>2. 1 \in DOMAIN calls[g] /\ calls[g][1] \in Frames
    BY <2>1, Behead
  <2>3. QED
    BY <1>2, <2>2 DEF Top, Types
<1>4. c \in Frames
  BY <1>1, <1>3 DEF Frames
<1>5. "at" \in DOMAIN Top(g) /\ "value" \in DOMAIN Top(g)
  BY <1>3 DEF Frames
<1>6. c.at = "notify" /\ c.value = value
  BY <1>1, <1>5
<1>7. c.number = Top(g).number /\ c.todo = Top(g).todo
  BY <1>1
<1>8. QED
  BY <1>2, <1>4, <1>6, <1>7, TopStep

LEMMA ObserverReturnsStep ==
  ASSUME SignalInv, NEW g \in Goroutines, ObserverReturns(g)
  PROVE  SignalInv'
<1>1. PICK c : c = [Top(g) EXCEPT !.in = Nil]
  OBVIOUS
<1>2. /\ Types /\ FnInv /\ Busy(g) /\ ReplaceTop(g, c)
      /\ UNCHANGED <<kind, value, observers, index, lock, told, audience, left, overlap, panicked>>
  BY <1>1 DEF SignalInv, ObserverReturns
<1>3. Top(g) \in Frames
  <2>1. calls[g] \in Seq(Frames) /\ calls[g] # <<>>
    BY <1>2, TypeFacts DEF Busy
  <2> HIDE DEF Frames
  <2>2. QED
    BY <2>1, Behead DEF Top
<1>4. c \in Frames
  BY <1>1, <1>3 DEF Frames, Places
<1>5. "in" \in DOMAIN Top(g)
  BY <1>3 DEF Frames
<1>6. c.in = Nil
  BY <1>1, <1>5
<1>7. c.at = Top(g).at /\ c.number = Top(g).number /\ c.todo = Top(g).todo /\ c.value = Top(g).value
  BY <1>1
<1>8. QED
  BY <1>2, <1>4, <1>6, <1>7, TopStep

LEMMA SetReturnsStep ==
  ASSUME SignalInv, NEW g \in Goroutines, SetReturns(g)
  PROVE  SignalInv'
<1>1. /\ Busy(g) /\ Top(g).todo = <<>> /\ calls' = [calls EXCEPT ![g] = Tail(@)]
      /\ UNCHANGED <<kind, value, observers, index, lock, told, audience, left, overlap, panicked>>
  BY DEF SetReturns
<1>2. QED
  BY <1>1, PopStep

LEMMA StutterStep ==
  ASSUME SignalInv, UNCHANGED vars
  PROVE  SignalInv'
<1>1. Types /\ PlaceInv
  BY DEF SignalInv
<1>2. UNCHANGED <<kind, value, calls, lock, told, audience, overlap, panicked, index, left, observers>>
  BY DEF vars
<1>3. Types' /\ PlaceInv'
  BY <1>1, <1>2 DEF Types, PlaceInv
<1>4. QED
  BY <1>2, <1>3, RegisterStep

LEMMA NextSignal == SignalInv /\ [Next]_vars => SignalInv'
<1>1. SUFFICES ASSUME SignalInv, [Next]_vars PROVE SignalInv'
  OBVIOUS
<1>2. CASE UNCHANGED vars
  BY <1>1, <1>2, StutterStep
<1>3. CASE Next
  <2>1. PICK g \in Goroutines :
            \/ RunsCode(g) /\ \E o \in Observers : Observe(o) \/ Unsubscribe(o)
            \/ \E v \in Values : Set(g, v)
            \/ Update(g) \/ FnWaits(g) \/ Panic(g) \/ Goes(g)
    BY <1>3 DEF Next
  <2>2. ASSUME NEW o \in Observers, Observe(o) PROVE SignalInv'
    BY <1>1, <2>2, ObserveStep
  <2>3. ASSUME NEW o \in Observers, Unsubscribe(o) PROVE SignalInv'
    BY <1>1, <2>3, UnsubscribeStep
  <2>4. ASSUME NEW v \in Values, Set(g, v) PROVE SignalInv'
    BY <1>1, <2>4, SetStep
  <2>5. CASE Update(g)
    BY <1>1, <2>5, UpdateStep
  <2>6. CASE FnWaits(g)
    BY <1>1, <2>6, FnWaitsStep
  <2>7. CASE Panic(g)
    BY <1>1, <2>7, PanicStep
  <2>8. ASSUME NEW v \in Values, FnReturns(g, v) PROVE SignalInv'
    BY <1>1, <2>8, FnReturnsStep
  <2>9. CASE Snapshot(g)
    BY <1>1, <2>9, SnapshotStep
  <2>10. CASE Notify(g)
    BY <1>1, <2>10, NotifyStep
  <2>11. CASE ObserverReturns(g)
    BY <1>1, <2>11, ObserverReturnsStep
  <2>12. CASE SetReturns(g)
    BY <1>1, <2>12, SetReturnsStep
  <2>13. QED
    BY <2>1, <2>2, <2>3, <2>4, <2>5, <2>6, <2>7, <2>8, <2>9, <2>10, <2>11, <2>12 DEF Goes
<1>4. QED
  BY <1>1, <1>2, <1>3

\* The invariant holds of every state of a signal: each call of Set or Update has
\* a change of its own and a list of those it still has to tell of it.
THEOREM SignalInvariant == Spec => []SignalInv
<1>1. Init => SignalInv
  BY InitSignal
<1>2. SignalInv /\ [Next]_vars => SignalInv'
  BY NextSignal
<1>3. QED
  BY <1>1, <1>2, PTL DEF Spec

\* No observer is told of a change twice, or of one at which it was not registered,
\* and in the end none is forgotten, however calls of Set and Update nest and overlap.
THEOREM ToldOnce == Spec => []EveryChangeToldOnce
<1>1. ASSUME SignalInv PROVE EveryChangeToldOnce
  <2>1. Types /\ PlaceInv /\ FnInv /\ TellInv /\ ToldInv /\ DoneInv
    BY <1>1 DEF SignalInv
  <2>2. TypeOK
    <3>1. ToSet(observers) \subseteq Observers \cup {Nil}
      BY <2>1, TypeFacts DEF ToSet, Places
    <3>2. ASSUME NEW o \in Observers, index[o] # 0
          PROVE  index[o] \in DOMAIN observers /\ observers[index[o]] = IF o \in left THEN Nil ELSE o
      BY <2>1, <3>2 DEF PlaceInv
    <3>3. ASSUME NEW o \in Observers, NEW t \in ToSet(told[o])
          PROVE  t.number \in 1 .. Changes /\ t.value \in Values
      <4>1. PICK a \in DOMAIN told[o] : told[o][a] = t
        BY <3>3 DEF ToSet
      <4>2. told[o][a].number \in 1 .. Changes /\ told[o][a] \in Tellings
        BY <2>1, TypeFacts DEF ToldInv
      <4>3. QED
        BY <4>1, <4>2 DEF Tellings
    <3>4. value \in Values /\ left \subseteq Observers /\ lock \in Goroutines \cup {Nil}
          /\ Changes <= MaxChanges
      BY <2>1 DEF Types, FnInv
    <3>5. QED
      BY <3>1, <3>2, <3>3, <3>4 DEF TypeOK
  <2>3. ASSUME NEW o \in Observers
        PROVE  IsInjective([i \in DOMAIN told[o] |-> told[o][i].number])
    BY <2>1 DEF ToldInv, IsInjective
  <2>4. ASSUME NEW o \in Observers, NEW n \in Numbers(o) PROVE o \in audience[n]
    BY <2>1, <2>4 DEF ToldInv, Numbers
  <2>5. ASSUME Idle, ~panicked, NEW o \in Observers, NEW n \in 1 .. Changes, o \in audience[n]
        PROVE  n \in Numbers(o)
    <3>1. \A g \in Goroutines : DOMAIN calls[g] = {}
      BY <2>5 DEF Idle, Busy
    <3>2. ~Owed(o, n)
      BY <3>1 DEF Owed
    <3>3. QED
      BY <2>1, <2>5, <3>2 DEF DoneInv
  <2>6. QED
    BY <2>2, <2>3, <2>4, <2>5 DEF EveryChangeToldOnce
<1>2. QED
  BY <1>1, SignalInvariant, PTL

\* Once all calls have ended, without a panic and without overlapping changes, what
\* an observer was last told is the value of the signal.
THEOREM LastTold == Spec => []LastToldIsCurrent
<1>1. ASSUME SignalInv PROVE LastToldIsCurrent
  <2>1. LastInv
    BY <1>1 DEF SignalInv
  <2>2. SUFFICES ASSUME Idle, ~overlap, ~panicked, NEW o \in Observers \ left, told[o] # <<>>
                 PROVE  Last(told[o]).value = value
    BY DEF LastToldIsCurrent
  <2>3. \A g \in Goroutines : DOMAIN calls[g] = {}
    BY <2>2 DEF Idle, Busy
  <2>4. QED
    BY <2>1, <2>2, <2>3 DEF LastInv
<1>2. QED
  BY <1>1, SignalInvariant, PTL
=============================================================================
