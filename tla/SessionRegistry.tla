-------------------------- MODULE SessionRegistry --------------------------
(***************************************************************************)
(* The connection handlers of pkg/engine/server.go: handleConnection (for  *)
(* WebTransport) and handleWebSocket, the registry Server.sessions they    *)
(* share under Server.mu, the metrics SessionsTotal and SessionsActive,    *)
(* the plugin hooks of a session's life, and the shutdown of               *)
(* ListenAndServe.                                                         *)
(*                                                                         *)
(* One connection is one handler goroutine and owns at most one session,   *)
(* so a connection also stands for the ID of its session.  A step of a     *)
(* handler ends where another goroutine can observe or change what it      *)
(* shares with it: at a lock, an atomic counter, a user hook or a write to *)
(* the transport.                                                          *)
(***************************************************************************)
EXTENDS Integers, FiniteSets, Sequences

CONSTANTS Conns,        \* the connections that clients may open
          WebTransport, \* those served by handleConnection; the others are
                        \* WebSockets, served by handleWebSocket
          PoolSize      \* WithConnectionPool's size; 0 means no limit

ASSUME RegistryAssumption ==
    /\ IsFiniteSet(Conns)
    /\ WebTransport \subseteq Conns
    /\ PoolSize \in Nat

VARIABLES pc,        \* where each connection's handler is
          link,      \* "up" until the peer, the handler or Shutdown closes it
          sessions,  \* Server.sessions
          closed,    \* sessions whose Close has run (context cancelled)
          total,     \* metrics.SessionsTotal
          active,    \* metrics.SessionsActive
          hooks,     \* the plugin hooks run so far for each session
          phase,     \* how far the shutdown of ListenAndServe has come
          raced      \* history: two connections were between the pool check
                     \* and the registration at the same time

vars == <<pc, link, sessions, closed, total, active, hooks, phase, raced>>

PCs == {"idle", "new", "rejected", "admitted", "registered", "counted",
        "refusing", "refusedUnregistered", "refusedClosed", "refused",
        "accepted", "helloFailed", "greeted", "mountClosed", "mountFailed",
        "rendered", "reading", "leaving", "leftHook", "leftRegistry",
        "leftClosed", "done"}

Phases == {"running", "httpClosed", "sessionsClosed", "stopped"}

HookNames == {"connect", "mount", "disconnect"}

Init == /\ pc = [c \in Conns |-> "idle"]
        /\ link = [c \in Conns |-> "up"]
        /\ sessions = {}
        /\ closed = {}
        /\ total = 0
        /\ active = 0
        /\ hooks = [c \in Conns |-> <<>>]
        /\ phase = "running"
        /\ raced = FALSE

Goto(c, from, to) == /\ pc[c] = from
                     /\ pc' = [pc EXCEPT ![c] = to]

RunHook(c, h) == hooks' = [hooks EXCEPT ![c] = Append(@, h)]

(***************************************************************************)
(* Admission and registration.                                             *)
(***************************************************************************)

\* A client connects.  httpSrv.Close ends the accepting of WebSockets,
\* wt.Close that of WebTransport sessions.
Arrive(c) ==
    /\ phase = "running" \/ (c \in WebTransport /\ phase # "stopped")
    /\ Goto(c, "idle", "new")
    /\ UNCHANGED <<link, sessions, closed, total, active, hooks, phase, raced>>

PoolFull == PoolSize > 0 /\ Cardinality(sessions) >= PoolSize

\* The pool check: len(s.sessions) is read under RLock, which is released
\* before the decision is acted on.
CheckPool(c) ==
    /\ IF PoolFull
       THEN /\ Goto(c, "new", "rejected")
            /\ link' = [link EXCEPT ![c] = "down"]
            /\ UNCHANGED raced
       ELSE /\ Goto(c, "new", "admitted")
            /\ raced' = (raced \/ \E d \in Conns : pc[d] = "admitted")
            /\ UNCHANGED link
    /\ UNCHANGED <<sessions, closed, total, active, hooks, phase>>

\* NewSession, then s.sessions[sess.ID] = sess under Lock.
Register(c) ==
    /\ Goto(c, "admitted", "registered")
    /\ sessions' = sessions \cup {c}
    /\ UNCHANGED <<link, closed, total, active, hooks, phase, raced>>

\* SessionsTotal.Inc and SessionsActive.Inc.
CountIn(c) ==
    /\ Goto(c, "registered", "counted")
    /\ total' = total + 1
    /\ active' = active + 1
    /\ UNCHANGED <<link, sessions, closed, hooks, phase, raced>>

(***************************************************************************)
(* What the handlers share: removal from the registry, Session.Close and   *)
(* the decrement of the gauge, in this order on both ways out.             *)
(***************************************************************************)

\* Mutant: the session stays in the map.
KeepRegistered(c, from, to) ==
    /\ Goto(c, from, to)
    /\ UNCHANGED <<link, sessions, closed, total, active, hooks, phase, raced>>

Unregister(c, from, to) ==
    /\ Goto(c, from, to)
    /\ sessions' = sessions \ {c}
    /\ UNCHANGED <<link, closed, total, active, hooks, phase, raced>>

\* Mutant: the context is cancelled, the writer is not closed.
CancelOnly(c, from, to) ==
    /\ Goto(c, from, to)
    /\ closed' = closed \cup {c}
    /\ UNCHANGED <<link, sessions, total, active, hooks, phase, raced>>

CloseSession(c, from, to) ==
    /\ Goto(c, from, to)
    /\ closed' = closed \cup {c}
    /\ link' = [link EXCEPT ![c] = "down"]
    /\ UNCHANGED <<sessions, total, active, hooks, phase, raced>>

CountOut(c, from, to) ==
    /\ Goto(c, from, to)
    /\ active' = active - 1
    /\ UNCHANGED <<link, sessions, closed, total, hooks, phase, raced>>

(***************************************************************************)
(* The connect hook, the handshake and the first rendering.                *)
(***************************************************************************)

ConnectHook(c) ==
    /\ \/ Goto(c, "counted", "accepted")
       \/ Goto(c, "counted", "refusing")
    /\ RunHook(c, "connect")
    /\ UNCHANGED <<link, sessions, closed, total, active, phase, raced>>

\* The way out after the connect hook returned an error.
Refuse(c) ==
    \/ Unregister(c, "refusing", "refusedUnregistered")
    \/ CloseSession(c, "refusedUnregistered", "refusedClosed")
    \/ CountOut(c, "refusedClosed", "refused")

\* A write to a transport this side has closed fails; one to a transport the
\* peer has left may fail, or be buffered and succeed.
WriteMayFail(c)    == link[c] = "down"
WriteMaySucceed(c) == c \notin closed

\* EncodeHello and WriteMessage.  When the write fails the handler returns:
\* the WebSocket handler closes its connection first, neither removes the
\* session, closes it, or decrements the gauge.
SendHello(c) ==
    /\ \/ /\ WriteMaySucceed(c)
          /\ Goto(c, "accepted", "greeted")
       \/ /\ WriteMayFail(c)
          /\ Goto(c, "accepted", "helloFailed")
    /\ UNCHANGED <<link, sessions, closed, total, active, hooks, phase, raced>>

\* Session.Mount: the component renders and its tree is written.  When that
\* fails the session is closed; it is not removed from the registry.
Mount(c) ==
    \/ /\ WriteMaySucceed(c)
       /\ Goto(c, "greeted", "rendered")
       /\ UNCHANGED <<link, sessions, closed, total, active, hooks, phase, raced>>
    \/ /\ WriteMayFail(c)
       /\ CloseSession(c, "greeted", "mountClosed")

MountFailed(c) == CountOut(c, "mountClosed", "mountFailed")

\* RunMount: an error it returns is logged and changes nothing.
MountHook(c) ==
    /\ Goto(c, "rendered", "reading")
    /\ RunHook(c, "mount")
    /\ UNCHANGED <<link, sessions, closed, total, active, phase, raced>>

(***************************************************************************)
(* The reading of intents and the deferred clean-up.                       *)
(***************************************************************************)

\* Mutant: only the server's own Close wakes the reader.
ReaderEndsOnClose(c) ==
    /\ c \in closed
    /\ Goto(c, "reading", "leaving")
    /\ UNCHANGED <<link, sessions, closed, total, active, hooks, phase, raced>>

\* AcceptStream or ReadFull fails, or a WebSocket frame has a length out of
\* range.  (handleStream ends only its own stream on such a frame.)
ReaderEnds(c) ==
    /\ link[c] = "down" \/ c \notin WebTransport
    /\ Goto(c, "reading", "leaving")
    /\ UNCHANGED <<link, sessions, closed, total, active, hooks, phase, raced>>

\* Mutant: the session is removed from the registry before its hook runs.
DisconnectHookUnregistered(c) ==
    /\ Goto(c, "leaving", "leftHook")
    /\ RunHook(c, "disconnect")
    /\ sessions' = sessions \ {c}
    /\ UNCHANGED <<link, closed, total, active, phase, raced>>

DisconnectHook(c) ==
    /\ Goto(c, "leaving", "leftHook")
    /\ RunHook(c, "disconnect")
    /\ UNCHANGED <<link, sessions, closed, total, active, phase, raced>>

\* Mutant: the deferred function leaves the gauge as it is.
CleanUpUncounted(c) ==
    \/ Unregister(c, "leftHook", "leftRegistry")
    \/ CloseSession(c, "leftRegistry", "leftClosed")
    \/ KeepRegistered(c, "leftClosed", "done")

\* The rest of the deferred function.
CleanUp(c) ==
    \/ Unregister(c, "leftHook", "leftRegistry")
    \/ CloseSession(c, "leftRegistry", "leftClosed")
    \/ CountOut(c, "leftClosed", "done")

(***************************************************************************)
(* The peer and the shutdown.                                              *)
(***************************************************************************)

\* The client goes away, or the network does.
PeerLeaves(c) ==
    /\ pc[c] # "idle" /\ link[c] = "up"
    /\ link' = [link EXCEPT ![c] = "down"]
    /\ UNCHANGED <<pc, sessions, closed, total, active, hooks, phase, raced>>

\* ctx is cancelled and httpSrv.Close runs; it leaves hijacked connections,
\* the WebSockets, alone.
StopHTTP ==
    /\ phase = "running"
    /\ phase' = "httpClosed"
    /\ UNCHANGED <<pc, link, sessions, closed, total, active, hooks, raced>>

\* Shutdown closes, under Lock, the sessions it finds in the registry.
CloseSessions ==
    /\ phase = "httpClosed"
    /\ phase' = "sessionsClosed"
    /\ closed' = closed \cup sessions
    /\ link' = [c \in Conns |-> IF c \in sessions THEN "down" ELSE link[c]]
    /\ UNCHANGED <<pc, sessions, total, active, hooks, raced>>

\* Mutant: Shutdown relies on having closed the sessions.
LeaveWebTransport ==
    /\ phase = "sessionsClosed"
    /\ phase' = "stopped"
    /\ UNCHANGED <<pc, link, sessions, closed, total, active, hooks, raced>>

\* s.wt.Close: every WebTransport session ends.
CloseWebTransport ==
    /\ phase = "sessionsClosed"
    /\ phase' = "stopped"
    /\ link' = [c \in Conns |-> IF c \in WebTransport THEN "down" ELSE link[c]]
    /\ UNCHANGED <<pc, sessions, closed, total, active, hooks, raced>>

-----------------------------------------------------------------------------
Handler(c) == \/ CheckPool(c) \/ Register(c) \/ CountIn(c) \/ ConnectHook(c)
              \/ Refuse(c) \/ SendHello(c) \/ Mount(c) \/ MountFailed(c)
              \/ MountHook(c) \/ DisconnectHook(c) \/ CleanUp(c)

Shutdown == CloseSessions \/ CloseWebTransport

Next == \/ \E c \in Conns : \/ Arrive(c) \/ PeerLeaves(c)
                            \/ Handler(c) \/ ReaderEnds(c)
        \/ StopHTTP \/ Shutdown

\* A goroutine that can run is scheduled, a reader whose link is down learns
\* of it, and a shutdown that began goes on.  Nothing makes clients connect
\* or leave, or the program shut down.
Fairness == /\ \A c \in Conns :
                   WF_vars(Handler(c) \/ (link[c] = "down" /\ ReaderEnds(c)))
            /\ WF_vars(Shutdown)

Spec     == Init /\ [][Next]_vars
FairSpec == Spec /\ Fairness

-----------------------------------------------------------------------------
(***************************************************************************)
(* Invariants.                                                             *)
(***************************************************************************)

\* The type of the state of Server and of its metrics; the gauge, a signed
\* integer that CountOut decrements without a check, is never negative.
TypeOK == /\ pc \in [Conns -> PCs]
          /\ link \in [Conns -> {"up", "down"}]
          /\ sessions \subseteq Conns
          /\ closed \subseteq Conns
          /\ total \in Nat
          /\ active \in Nat
          /\ hooks \in [Conns -> Seq(HookNames)]
          /\ phase \in Phases
          /\ raced \in BOOLEAN

\* Where a handler is while its session is in Server.sessions.
InRegistry == {"registered", "counted", "refusing", "accepted", "helloFailed",
               "greeted", "mountClosed", "mountFailed", "rendered", "reading",
               "leaving", "leftHook"}

\* Where a handler is while SessionsActive counts its session.
InGauge == {"counted", "refusing", "refusedUnregistered", "refusedClosed",
            "accepted", "helloFailed", "greeted", "mountClosed", "rendered",
            "reading", "leaving", "leftHook", "leftRegistry", "leftClosed"}

\* Where a handler is that has not counted its session yet.
NotCounted == {"idle", "new", "rejected", "admitted", "registered"}

At(S) == {c \in Conns : pc[c] \in S}

Registered == At(InRegistry)
Gauged     == At(InGauge)
Entered    == At(PCs \ NotCounted)
Admitted   == At({"admitted"})
Reading    == At({"reading"})

\* The registry and the two metrics are exactly what the places of the
\* handlers say: no session is lost, registered twice or counted twice,
\* whatever the interleaving of handlers, peers and shutdown.
RegistryExact == sessions = Registered
GaugeExact    == active = Cardinality(Gauged)
TotalExact    == total = Cardinality(Entered)

\* Where a handler can be when it has nothing left to do, or waits for input.
Resting == {"idle", "rejected", "refused", "helloFailed", "mountFailed",
            "reading", "done"}

\* When every handler rests, no session that is read is missing in the registry
\* that SessionCount counts or in the gauge SessionsActive; and unless a hello
\* or a first rendering could not be written, the two count exactly the
\* sessions that are read: no refused or ended one stays in either.
GaugeAgreesAtRest ==
    At(Resting) = Conns =>
        /\ Reading \subseteq sessions
        /\ Cardinality(Reading) <= active
        /\ At({"helloFailed", "mountFailed"}) = {} =>
               sessions = Reading /\ active = Cardinality(Reading)

\* A connection that ended on a regular way out, refused by the connect hook
\* or after reading, leaves nothing behind: it is not registered, its session
\* is closed and its transport is down; and once every connection has ended
\* like that the gauge is back to zero.
NothingLeftBehind ==
    /\ \A c \in At({"refused", "done"}) :
           c \notin sessions /\ c \in closed /\ link[c] = "down"
    /\ At({"idle", "rejected", "refused", "done"}) = Conns =>
           active = 0 /\ sessions = {}

\* The pool limit can be exceeded in one way only: a connection passed the
\* check of the pool before an earlier one that passed it was registered.
PoolLimitUnlessRaced ==
    PoolSize > 0 /\ ~raced =>
        Cardinality(sessions \cup Admitted) <= PoolSize

FullLife == <<"connect", "mount", "disconnect">>

\* A plugin sees the hooks of a session in the order connect, mount,
\* disconnect, each at most once; the session is in the registry from its
\* connect hook to the end of its disconnect hook; and a session that ended
\* after it was mounted has had all three.
HookProtocol ==
    \A c \in Conns :
        /\ hooks[c] \in {<<>>, <<"connect">>, <<"connect", "mount">>, FullLife}
        /\ hooks[c] = <<"connect", "mount">> => c \in sessions
        /\ pc[c] = "done" => hooks[c] = FullLife

ClosedPlaces == {"refusedClosed", "refused", "mountClosed", "mountFailed",
                 "leftClosed", "done"}

HooksAt(p) ==
    IF p \in NotCounted \cup {"counted"} THEN <<>>
    ELSE IF p \in {"reading", "leaving"} THEN <<"connect", "mount">>
    ELSE IF p \in {"leftHook", "leftRegistry", "leftClosed", "done"} THEN FullLife
    ELSE <<"connect">>

\* A handler that is past Close has a closed session, a closed session has no
\* transport, and the hooks run are those the handler has passed.
LifeExact ==
    \A c \in Conns : /\ pc[c] \in ClosedPlaces => c \in closed
                     /\ c \in closed => link[c] = "down"
                     /\ hooks[c] = HooksAt(pc[c])

\* The inductive invariant, from which the invariants above follow.
RegistryInv ==
    /\ TypeOK
    /\ RegistryExact
    /\ GaugeExact
    /\ TotalExact
    /\ LifeExact
    /\ PoolLimitUnlessRaced

-----------------------------------------------------------------------------
(***************************************************************************)
(* Liveness, and the abstract specification.                               *)
(***************************************************************************)

Final == {"idle", "rejected", "refused", "helloFailed", "mountFailed", "done"}

\* After Shutdown every WebTransport handler ends, also one that registered
\* its session after Shutdown had gone through the registry, because wt.Close
\* ends its transport.
ShutdownEndsWebTransport ==
    (phase = "stopped") ~> \A c \in WebTransport : pc[c] \in Final

RefusedPlaces == {"refusing", "refusedUnregistered", "refusedClosed", "refused"}
LostPlaces    == {"helloFailed", "mountClosed", "mountFailed"}

\* A session is refused when its handler is on the way out after the connect
\* hook, lost when the hello or the first rendering could not be written.
Life == INSTANCE SessionLife WITH
            Sessions <- Conns,
            live     <- sessions,
            seen     <- hooks,
            refused  <- At(RefusedPlaces),
            lost     <- At(LostPlaces),
            cut      <- {c \in Conns : link[c] = "down"}

\* Whatever the interleaving of handlers, peers and the shutdown, every step
\* of the server is a step in the life of one session or none at all: a
\* session enters the registry once and before its connect hook, leaves it
\* after its disconnect hook or its refusal, and is not mounted after it was
\* lost.
LifeSteps == Life!Steps

\* And with the goroutines scheduled each session goes on in its life; one
\* whose transport goes down while it is read has its disconnect hook and
\* leaves the registry.  Together the two are Life!Spec.
LifeProgress == Life!Progress
=============================================================================
