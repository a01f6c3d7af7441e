----------------------------- MODULE SessionLife -----------------------------
(***************************************************************************)
(* What the connection handlers of pkg/engine/server.go promise, without   *)
(* saying how: the life of a session as SessionCount and a plugin see it.  *)
(* SessionRegistry, with its locks, counters, transports and shutdown, is  *)
(* shown to implement this specification.                                  *)
(***************************************************************************)
EXTENDS Sequences

CONSTANT Sessions

VARIABLES live,     \* the sessions that SessionCount counts
          seen,     \* the plugin hooks run for each session
          refused,  \* those whose connect hook returned an error
          lost,     \* those whose client went away before they were mounted
          cut       \* those whose connection is down

vars == <<live, seen, refused, lost, cut>>

Connected == <<"connect">>
Mounted   == <<"connect", "mount">>
Ended     == <<"connect", "mount", "disconnect">>

Init == /\ live = {}
        /\ seen = [s \in Sessions |-> <<>>]
        /\ refused = {}
        /\ lost = {}
        /\ cut = {}

Open(s) ==
    /\ s \notin live /\ seen[s] = <<>>
    /\ live' = live \cup {s}
    /\ UNCHANGED <<seen, refused, lost>>

Connect(s) ==
    /\ s \in live /\ seen[s] = <<>>
    /\ seen' = [seen EXCEPT ![s] = Connected]
    /\ refused' \in {refused, refused \cup {s}}
    /\ UNCHANGED <<live, lost>>

\* A session waits for its first rendering.
Pending(s) == s \in live /\ seen[s] = Connected /\ s \notin refused \cup lost

Mount(s) ==
    /\ Pending(s)
    /\ seen' = [seen EXCEPT ![s] = Mounted]
    /\ UNCHANGED <<live, refused, lost>>

\* The client cannot be told: the session stays, and stays unmounted.
Lose(s) ==
    /\ Pending(s)
    /\ lost' = lost \cup {s}
    /\ UNCHANGED <<live, seen, refused>>

Disconnect(s) ==
    /\ s \in live /\ seen[s] = Mounted
    /\ seen' = [seen EXCEPT ![s] = Ended]
    /\ UNCHANGED <<live, refused, lost>>

\* A session has nothing more to wait for.
Over(s) == s \in live /\ (s \in refused \/ seen[s] = Ended)

Leave(s) ==
    /\ Over(s)
    /\ live' = live \ {s}
    /\ UNCHANGED <<seen, refused, lost>>

\* Connections may break at any time, and are not mended.
Next == /\ cut \subseteq cut'
        /\ \/ \E s \in Sessions : \/ Open(s) \/ Connect(s) \/ Mount(s) \/ Lose(s)
                                 \/ Disconnect(s) \/ Leave(s)
           \/ UNCHANGED <<live, seen, refused, lost>>

\* A live session rests when it was lost, or when it is mounted and its
\* connection is up; only then.
Moving(s) == s \in live \ lost /\ (seen[s] = Mounted => s \in cut)

\* So a session that was opened is announced and then mounted, lost or
\* refused; one whose connection breaks is told to the plugin; and one that
\* was refused or has ended leaves.
Progress == \A s \in Sessions : Moving(s) ~> ~Moving(s)

Steps == Init /\ [][Next]_vars
Spec  == Steps /\ Progress
=============================================================================
