-------------------------- MODULE ClientConnection --------------------------
(***************************************************************************)
(* The connection of the browser client: connect, reconnect and its        *)
(* backoff (pkg/wasm/main.go), the offline queue (offline.go, drain.go),   *)
(* and what it does with IndexedDB (indexeddb.go).                         *)
(*                                                                         *)
(* The client is single threaded: a Go function runs until it blocks, and  *)
(* while it runs no event is dispatched.  An action is what runs between   *)
(* two points at which the client waits.  reconnect blocks, and is called  *)
(* from the callback of the close event; what a blocked callback does to   *)
(* the event loop is a property of the JavaScript host of Go, given by     *)
(* BlockedCallbackStopsEvents: TRUE is what syscall/js documents of FuncOf *)
(* ("if one wrapped function blocks, JavaScript's event loop is blocked    *)
(* until that function returns"), FALSE what the code of reconnect expects.*)
(*                                                                         *)
(* Every use of IndexedDB opens the database.  Opening fails, or one of the*)
(* callbacks panics, which ends the Go program: the handler of             *)
(* onupgradeneeded, which would create the object store, calls the         *)
(* property objectStoreNames as a method, and a transaction on the store   *)
(* that is missing throws.  So nothing is ever stored.  Times are in       *)
(* seconds, and an intent is its number.                                   *)
(***************************************************************************)
EXTENDS Integers, SequencesExt

CONSTANTS QueueSize,    \* GlobalQueue.maxSize: 256 in the code
          BlockedCallbackStopsEvents,
          MaxIntents,   \* bound: what the user does
          MaxLosses,    \* bound: how often a connection is lost
          MaxLives      \* bound: how often the page is loaded

ASSUME ConnectionAssumption ==
    /\ QueueSize \in Nat \ {0}
    /\ BlockedCallbackStopsEvents \in BOOLEAN
    /\ MaxIntents \in Nat /\ MaxLosses \in Nat
    /\ MaxLives \in Nat \ {0}

VARIABLES phase,     \* where the client is
          link,      \* the transport behind conn: "up" or "down"
          isOnline,  \* IsOnline
          page,      \* the session whose nodes are shown; 0 for none
          queue,     \* GlobalQueue.queue
          writes,    \* puts and deletions whose opening is not answered yet
          delay,     \* reconnect: delay
          elapsed,   \* reconnect: elapsedMs
          session,   \* the number of connections the server has seen
          received,  \* the intents the server received
          made,      \* the intents the user has made
          forgone,   \* history: intents that were lost on a known occasion
          losses,    \* connections lost
          life       \* the loading of the page that is running

clientVars == <<phase, link, isOnline, page, queue, writes, delay, elapsed>>
serverVars == <<session, received>>
countVars  == <<made, forgone, losses, life>>
vars == <<clientVars, serverVars, countVars>>

Reconnecting == {"loading", "sleeping", "dialing"}
Phases == {"starting", "failed", "connected", "fatal", "crashed"} \cup Reconnecting

maxDelay == 10
maxTotal == 30

Init == /\ phase = "starting"
        /\ link = "down"
        /\ isOnline = FALSE
        /\ page = 0
        /\ queue = <<>>
        /\ writes = 0
        /\ delay = 1
        /\ elapsed = 0
        /\ session = 0
        /\ received = <<>>
        /\ made = 0
        /\ forgone = {}
        /\ losses = 0
        /\ life = 1

\* Events are dispatched unless a callback blocks.
EventLoopRuns == BlockedCallbackStopsEvents => phase \notin Reconnecting

(***************************************************************************)
(* The queue and IndexedDB.                                                *)
(***************************************************************************)

\* Enqueue: a full queue drops the new message.
Enqueue(q, x) == IF Len(q) >= QueueSize THEN q ELSE Append(q, x)

\* Mutant: the messages are not enqueued again.
EnqueueAndPersistFlushes(x) ==
    /\ queue' = <<>>
    /\ writes' = writes + 1
    /\ forgone' = forgone \cup ({x} \ ToSet(Enqueue(queue, x)))

\* Enqueue, then persistQueue: flush, enqueue again, and write.
EnqueueAndPersist(x) ==
    /\ queue' = Enqueue(queue, x)
    /\ writes' = writes + 1
    /\ forgone' = forgone \cup ({x} \ ToSet(queue'))

\* A callback panics: the Go program ends, and its memory is gone.
Crash ==
    /\ phase' = "crashed"
    /\ queue' = <<>>
    /\ writes' = 0
    /\ forgone' = forgone \cup ToSet(queue)
    /\ page' = 0
    /\ UNCHANGED <<link, isOnline, delay, elapsed, serverVars, made, losses, life>>

\* The database is not opened for a write or a deletion, which has no handler
\* for that, or it is, and a callback panics.
ServeWrite ==
    /\ EventLoopRuns
    /\ writes > 0
    /\ \/ /\ writes' = writes - 1
          /\ UNCHANGED <<phase, link, isOnline, page, queue, delay, elapsed,
                         serverVars, countVars>>
       \/ Crash

(***************************************************************************)
(* Connecting.                                                             *)
(***************************************************************************)

\* Start and connect: WebTransport, or else the WebSocket.
Connect ==
    /\ phase = "starting"
    /\ phase' = "connected"
    /\ link' = "up"
    /\ isOnline' = TRUE
    /\ session' = session + 1
    /\ UNCHANGED <<page, queue, writes, delay, elapsed, received, countVars>>

\* Neither connects: an error is shown and Start returns.
ConnectFails ==
    /\ phase = "starting"
    /\ phase' = "failed"
    /\ UNCHANGED <<link, isOnline, page, queue, writes, delay, elapsed,
                   serverVars, countVars>>

\* The tree of the session arrives and is applied.
TreeArrives ==
    /\ phase = "connected" /\ link = "up" /\ page # session
    /\ page' = session
    /\ UNCHANGED <<phase, link, isOnline, queue, writes, delay, elapsed,
                   serverVars, countVars>>

LinkDrops ==
    /\ link = "up" /\ losses < MaxLosses
    /\ link' = "down"
    /\ losses' = losses + 1
    /\ UNCHANGED <<phase, isOnline, page, queue, writes, delay, elapsed,
                   serverVars, made, forgone, life>>

\* The callback of onClose and reconnect up to the read in loadPersistedQueue.
CloseEvent ==
    /\ phase = "connected" /\ link = "down"
    /\ isOnline' = FALSE
    /\ phase' = "loading"
    /\ page' = 0
    /\ UNCHANGED <<link, queue, writes, delay, elapsed, serverVars, countVars>>

\* The database is not opened: loadPersistedQueue has nothing to enqueue, and
\* reconnect enters its loop.  Or it is, and a callback panics.
LoadPersistedQueue ==
    /\ EventLoopRuns
    /\ phase = "loading"
    /\ \/ /\ phase' = "sleeping"
          /\ delay' = 1
          /\ elapsed' = 0
          /\ UNCHANGED <<link, isOnline, page, queue, writes, serverVars, countVars>>
       \/ Crash

\* The sleep is over.
Wake ==
    /\ EventLoopRuns
    /\ phase = "sleeping"
    /\ phase' = "dialing"
    /\ elapsed' = elapsed + delay
    /\ UNCHANGED <<link, isOnline, page, queue, writes, delay, serverVars, countVars>>

\* Mutant: the newest message is sent first.
DrainBackwards(n) ==
    /\ received' = received \o SubSeq(Reverse(queue), 1, n)
    /\ forgone' = forgone \cup ToSet(SubSeq(Reverse(queue), n + 1, Len(queue)))

\* drainOfflineQueue: the first n of the flushed messages reach the server.
Drain(n) ==
    /\ received' = received \o SubSeq(queue, 1, n)
    /\ forgone' = forgone \cup ToSet(SubSeq(queue, n + 1, Len(queue)))

\* An attempt succeeds: drainOfflineQueue, clearPersistedQueue, callbacks.  The
\* queue is flushed before it is sent: if the new connection drops meanwhile,
\* the rest of it is lost.
Dial ==
    /\ EventLoopRuns
    /\ phase = "dialing"
    /\ phase' = "connected"
    /\ session' = session + 1
    /\ \E n \in 0 .. Len(queue) :
           /\ Drain(n)
           /\ IF n = Len(queue) THEN link' = "up" /\ UNCHANGED losses
              ELSE link' = "down" /\ losses < MaxLosses /\ losses' = losses + 1
    /\ queue' = <<>>
    /\ writes' = writes + 1
    /\ UNCHANGED <<isOnline, page, delay, elapsed, made, life>>

\* An attempt fails: the delay doubles; after maxTotal reconnect gives up.
DialFails ==
    /\ EventLoopRuns
    /\ phase = "dialing"
    /\ delay' = Min({delay * 2, maxDelay})
    /\ phase' = IF elapsed < maxTotal THEN "sleeping" ELSE "fatal"
    /\ UNCHANGED <<link, isOnline, page, queue, writes, elapsed, serverVars, countVars>>

(***************************************************************************)
(* The user.                                                               *)
(***************************************************************************)

\* sendIntent for a click on a node that is shown, sendClientNav for a link
\* or for popstate, which needs no page.  A frame sent to a transport that is
\* down is lost: send logs the error, or the WebSocket discards it.
UserActs(kind) ==
    /\ EventLoopRuns
    /\ phase \notin {"starting", "failed", "crashed"}
    /\ kind = "click" => page # 0
    /\ made < MaxIntents
    /\ made' = made + 1
    /\ \/ /\ isOnline /\ link = "up"
          /\ received' = Append(received, made')
          /\ UNCHANGED <<queue, writes, forgone>>
       \/ /\ isOnline /\ link = "down"
          /\ forgone' = forgone \cup {made'}
          /\ UNCHANGED <<queue, writes, received>>
       \/ /\ ~isOnline
          /\ EnqueueAndPersist(made')
          /\ UNCHANGED received
    /\ UNCHANGED <<phase, link, isOnline, page, delay, elapsed, session, losses, life>>

\* The page is loaded anew: the memory of the client is gone.
Reload ==
    /\ phase # "starting" /\ life < MaxLives
    /\ life' = life + 1
    /\ phase' = "starting"
    /\ link' = "down"
    /\ isOnline' = FALSE
    /\ page' = 0
    /\ queue' = <<>>
    /\ forgone' = forgone \cup ToSet(queue)
    /\ writes' = 0
    /\ delay' = 1
    /\ elapsed' = 0
    /\ UNCHANGED <<serverVars, made, losses>>

-----------------------------------------------------------------------------
Reconnect == LoadPersistedQueue \/ Wake \/ Dial \/ DialFails

Next == \/ Connect \/ ConnectFails \/ TreeArrives \/ LinkDrops \/ CloseEvent
        \/ Reconnect \/ ServeWrite \/ Reload
        \/ \E kind \in {"click", "nav"} : UserActs(kind)

\* The browser tells of a closed connection, serves IndexedDB and timers,
\* and an attempt to connect ends one way or the other.
Fairness == WF_vars(CloseEvent) /\ WF_vars(ServeWrite) /\ WF_vars(Reconnect)

Spec     == Init /\ [][Next]_vars
FairSpec == Spec /\ Fairness

-----------------------------------------------------------------------------
\* The types; the queue never exceeds its limit.
TypeOK == /\ phase \in Phases
          /\ link \in {"up", "down"}
          /\ isOnline \in BOOLEAN
          /\ page \in 0 .. session
          /\ queue \in Seq(1 .. made) /\ Len(queue) <= QueueSize
          /\ writes \in Nat
          /\ delay \in 1 .. maxDelay
          /\ elapsed \in Nat
          /\ session \in Nat
          /\ received \in Seq(1 .. made)
          /\ made \in 0 .. MaxIntents
          /\ forgone \subseteq 1 .. made
          /\ losses \in 0 .. MaxLosses
          /\ life \in 1 .. MaxLives

\* Up to the second loss of a connection the server receives what one life of
\* the page made in the order in which it was made, and nothing twice.
FirstOutageInOrder ==
    losses <= 1 /\ life = 1 =>
        \A i, j \in DOMAIN received : i < j => received[i] < received[j]

\* No intent vanishes and none is doubled, over any number of losses, drains,
\* crashes and reloads: each one was received, or waits in the queue, or was
\* forgone on one of five occasions, and only one of the three.  The occasions
\* are a frame sent to a transport that is down, a full queue, a connection
\* that drops while the queue is drained, the end of the program, and a reload.
IntentsAccounted ==
    /\ TypeOK
    /\ 1 .. made = ToSet(received) \cup ToSet(queue) \cup forgone
    /\ ToSet(received) \cap ToSet(queue) = {}
    /\ forgone \cap (ToSet(received) \cup ToSet(queue)) = {}

\* A lost connection does not hang: the client reconnects, or tells the user
\* to reload the page.
ReconnectDecides == phase \in Reconnecting ~> phase \notin Reconnecting
=============================================================================
