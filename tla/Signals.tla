------------------------------ MODULE Signals ------------------------------
(***************************************************************************)
(* A signal and its observers: Signal, BoxSignal and ListSignal of         *)
(* pkg/dom/signals.go.                                                     *)
(*                                                                         *)
(* A change is stored under the lock, together with the copying of the list*)
(* of observers; the observers are called after the lock is released, one  *)
(* by one, by the goroutine that made the change.  An observer may itself  *)
(* change the signal, observe it or unsubscribe: the calls nest.  Update   *)
(* calls its function with the lock held.  A function or an observer may   *)
(* panic; the event handler it runs in is recovered by the session, and    *)
(* unwinds all calls of the goroutine.                                     *)
(***************************************************************************)
EXTENDS Integers, SequencesExt

Nil == "nil"

CONSTANTS Goroutines,  \* the goroutines that change the signal
          Observers,   \* the callbacks given to Observe
          Setters,     \* those that may change the signal when called
          Values,      \* the values of the signal
          MaxChanges   \* bound: the changes, and the Updates that make none

ASSUME SignalsAssumption ==
    /\ Setters \subseteq Observers
    /\ Nil \notin Observers \cup Goroutines
    /\ Values # {}
    /\ MaxChanges \in Nat

VARIABLES kind,       \* "signal", "box" or "list"
          value,      \* s.value or s.items
          observers,  \* s.observers
          index,      \* idx of each observer's unsubscribe function; 0: none
          calls,      \* of each goroutine: its nested calls of Set or Update
          lock,       \* the goroutine that holds s.mu in a call of fn, or Nil
          told,       \* history: what each observer was called with
          audience,   \* history: the observers that each change is told to
          left,       \* history: the observers that have unsubscribed
          overlap,    \* history: a change was made while an earlier one was
                      \* being told
          panicked    \* history: an observer or the function of an Update did

vars == <<kind, value, observers, index, calls, lock, told, audience, left,
          overlap, panicked>>

Init == /\ kind \in {"signal", "box", "list"}
        /\ value \in Values
        /\ observers = <<>>
        /\ index = [o \in Observers |-> 0]
        /\ calls = [g \in Goroutines |-> <<>>]
        /\ lock = Nil
        /\ told = [o \in Observers |-> <<>>]
        /\ audience = <<>>
        /\ left = {}
        /\ overlap = FALSE
        /\ panicked = FALSE

Changes == Len(audience)

\* The innermost call of a goroutine.
Top(g)  == calls[g][1]
Busy(g) == calls[g] # <<>>
ReplaceTop(g, c) == calls' = [calls EXCEPT ![g][1] = c]

\* The goroutine runs its own code, or that of an observer.
RunsCode(g)  == IF Busy(g) THEN Top(g).in # Nil ELSE TRUE
MayChange(g) == IF Busy(g) THEN Top(g).in \in Setters ELSE TRUE

(***************************************************************************)
(* Observe and the function that it returns.                               *)
(***************************************************************************)

Observe(o) ==
    /\ lock = Nil
    /\ index[o] = 0
    /\ observers' = Append(observers, o)
    /\ index' = [index EXCEPT ![o] = Len(observers')]
    /\ UNCHANGED <<kind, value, calls, lock, told, audience, left, overlap,
                   panicked>>

\* The place of the observer is set to nil, so that no index moves.
Unsubscribe(o) ==
    /\ lock = Nil
    /\ index[o] # 0 /\ o \notin left
    /\ observers' = IF index[o] <= Len(observers)
                    THEN [observers EXCEPT ![index[o]] = Nil] ELSE observers
    /\ left' = left \cup {o}
    /\ UNCHANGED <<kind, value, index, calls, lock, told, audience, overlap,
                   panicked>>

(***************************************************************************)
(* Set, Append and Update.                                                 *)
(***************************************************************************)

Call(v) == [at |-> IF kind = "list" THEN "snapshot" ELSE "notify",
            value |-> v, number |-> Changes + 1, todo |-> observers, in |-> Nil]

\* What a change does under the lock; outer are the calls it is nested in.
Store(g, v, call, outer) ==
    /\ value' = v
    /\ audience' = Append(audience, ToSet(observers) \ {Nil})
    /\ calls' = [calls EXCEPT ![g] = <<call>> \o outer]
    /\ overlap' = \/ overlap
                  \/ outer # <<>>
                  \/ \E h \in Goroutines \ {g} : Busy(h)
    /\ lock' = Nil
    /\ UNCHANGED <<observers, index, told, left, panicked, kind>>

\* A change can begin.
MayBegin(g) == MayChange(g) /\ lock = Nil /\ Changes < MaxChanges

\* Mutant: the snapshot for the observers is taken before the change.
SetTellsOld(g, v) ==
    /\ MayBegin(g)
    /\ kind = "signal" => v # value
    /\ Store(g, v, [Call(value) EXCEPT !.at = "notify"], calls[g])

\* Mutant: an observer that is being called is not told of a nested change.
SetSkipsRunning(g, v) ==
    /\ MayBegin(g)
    /\ kind = "signal" => v # value
    /\ LET Waits(o) == \A c \in ToSet(calls[g]) : o # c.in
       IN  Store(g, v, [Call(v) EXCEPT !.todo = SelectSeq(@, Waits)], calls[g])

\* A Signal that has the value already is left alone.
Set(g, v) ==
    /\ MayBegin(g)
    /\ kind = "signal" => v # value
    /\ Store(g, v, Call(v), calls[g])

\* Update up to the call of fn: the lock is held from here.
Update(g) ==
    /\ MayBegin(g)
    /\ lock' = g
    /\ calls' = [calls EXCEPT ![g] = <<[Call(value) EXCEPT !.at = "fn"]>> \o @]
    /\ UNCHANGED <<kind, value, observers, index, told, audience, left, overlap,
                   panicked>>

InFn(g) == Busy(g) /\ Top(g).at = "fn"

\* Mutant: the lock is released after the snapshot has been taken.
FnReturnsLocked(g, v) ==
    /\ InFn(g)
    /\ ReplaceTop(g, Call(v))
    /\ value' = v
    /\ audience' = Append(audience, ToSet(observers) \ {Nil})
    /\ UNCHANGED <<observers, index, lock, told, left, overlap, panicked, kind>>

\* fn returns v: as in Set; a Signal that has the value already is unlocked.
FnReturns(g, v) ==
    /\ InFn(g)
    /\ IF kind = "signal" /\ v = value
       THEN /\ lock' = Nil
            /\ calls' = [calls EXCEPT ![g] = Tail(@)]
            /\ audience' = Append(audience, {})
            /\ UNCHANGED <<value, observers, index, told, left, overlap,
                           panicked, kind>>
       ELSE Store(g, v, Call(v), Tail(calls[g]))

\* fn uses the signal itself, and waits for the lock its caller holds.
FnWaits(g) ==
    /\ InFn(g)
    /\ ReplaceTop(g, [Top(g) EXCEPT !.at = "waiting"])
    /\ UNCHANGED <<kind, value, observers, index, lock, told, audience, left,
                   overlap, panicked>>

\* fn or an observer panics.  Update does not defer the unlocking.
Panic(g) ==
    /\ InFn(g) \/ (Busy(g) /\ Top(g).in # Nil)
    /\ calls' = [calls EXCEPT ![g] = <<>>]
    /\ panicked' = TRUE
    /\ UNCHANGED <<kind, value, observers, index, lock, told, audience, left,
                   overlap>>

\* ListSignal: snapshot := s.Get(), under the lock again.
Snapshot(g) ==
    /\ Busy(g) /\ Top(g).at = "snapshot" /\ lock = Nil
    /\ ReplaceTop(g, [Top(g) EXCEPT !.at = "notify", !.value = value])
    /\ UNCHANGED <<kind, value, observers, index, lock, told, audience, left,
                   overlap, panicked>>

\* The next element of the copied list: nil is skipped, an observer called.
Notify(g) ==
    LET top == Top(g)
        o   == Head(top.todo)
    IN  /\ Busy(g) /\ top.at = "notify" /\ top.in = Nil /\ top.todo # <<>>
        /\ ReplaceTop(g, [top EXCEPT !.todo = Tail(@), !.in = o])
        /\ told' = IF o = Nil THEN told
                   ELSE [told EXCEPT ![o] = Append(@, [number |-> top.number,
                                                       value |-> top.value])]
        /\ UNCHANGED <<kind, value, observers, index, lock, audience, left, overlap,
                       panicked>>

ObserverReturns(g) ==
    /\ Busy(g) /\ Top(g).in # Nil
    /\ ReplaceTop(g, [Top(g) EXCEPT !.in = Nil])
    /\ UNCHANGED <<kind, value, observers, index, lock, told, audience, left,
                   overlap, panicked>>

SetReturns(g) ==
    /\ Busy(g) /\ Top(g).at = "notify" /\ Top(g).in = Nil /\ Top(g).todo = <<>>
    /\ calls' = [calls EXCEPT ![g] = Tail(@)]
    /\ UNCHANGED <<kind, value, observers, index, lock, told, audience, left,
                   overlap, panicked>>

-----------------------------------------------------------------------------
\* The steps of calls that have begun.
Goes(g) == \/ \E v \in Values : FnReturns(g, v)
           \/ Snapshot(g) \/ Notify(g) \/ ObserverReturns(g) \/ SetReturns(g)

Next == \E g \in Goroutines :
            \/ RunsCode(g) /\ \E o \in Observers : Observe(o) \/ Unsubscribe(o)
            \/ \E v \in Values : Set(g, v)
            \/ Update(g) \/ FnWaits(g) \/ Panic(g) \/ Goes(g)

\* Goroutines that can run are scheduled, and observers and functions return.
Fairness == \A g \in Goroutines : WF_vars(Goes(g))

Spec     == Init /\ [][Next]_vars
FairSpec == Spec /\ Fairness

-----------------------------------------------------------------------------
Numbers(o) == {told[o][i].number : i \in DOMAIN told[o]}

Idle == \A g \in Goroutines : ~Busy(g)

\* The types; an unsubscribe function has its own observer's place, or nil.
TypeOK ==
    /\ value \in Values
    /\ ToSet(observers) \subseteq Observers \cup {Nil}
    /\ \A o \in Observers : index[o] # 0 =>
           /\ index[o] \in DOMAIN observers
           /\ observers[index[o]] = IF o \in left THEN Nil ELSE o
    /\ left \subseteq Observers
    /\ Changes <= MaxChanges
    /\ lock \in Goroutines \cup {Nil}
    /\ \A o \in Observers : \A t \in ToSet(told[o]) :
           t.number \in 1 .. Changes /\ t.value \in Values

\* Whatever nests or overlaps: no observer is told of a change twice, none is
\* told of a change at which it was not registered, and in the end each that
\* was has been told, even if it has unsubscribed since (the list was copied),
\* unless a panic cut calls short.
EveryChangeToldOnce ==
    /\ TypeOK
    /\ \A o \in Observers :
           /\ IsInjective([i \in DOMAIN told[o] |-> told[o][i].number])
           /\ \A n \in Numbers(o) : o \in audience[n]
           /\ Idle /\ ~panicked =>
                  \A n \in 1 .. Changes : o \in audience[n] => n \in Numbers(o)

\* Once all calls have ended an observer was last told of the present value
\* ("Observe registers a callback invoked whenever the value changes"), unless
\* a call panicked or changes overlapped: two goroutines, or an observer that
\* changes the signal, can make an older value the last one that is told.
LastToldIsCurrent ==
    Idle /\ ~overlap /\ ~panicked =>
        \A o \in Observers \ left :
            told[o] # <<>> => Last(told[o]).value = value

\* The lock is held by a call that has been cut short or waits for itself.
Stuck == lock # Nil /\ (Busy(lock) => Top(lock).at = "waiting")

\* Every Set and Update returns, whatever nests, unless the function of an
\* Update panicked or used the signal: then the lock is never released.  In
\* particular nothing waits for a lock that it holds otherwise.
CallsReturn == \A g \in Goroutines : Busy(g) ~> ~Busy(g) \/ Stuck
=============================================================================
