------------------------------ MODULE Intents ------------------------------
(***************************************************************************)
(* What a session does with the messages of its client, apart from DOM     *)
(* events: Session.HandleIntent and the handlers behind it                 *)
(* (pkg/engine/session.go), with the rate limiter in front of them and the *)
(* client's side of passkeys, hovering, DevTools and the handshake         *)
(* (pkg/wasm/auth.go, main.go, devtools.go, handshake.go).                 *)
(*                                                                         *)
(* The client's messages come in order, on one stream, and are read one by *)
(* one.  Each message of the server has a stream of its own and may arrive *)
(* at any time.  The application calls BeginAuth, in an event handler or in*)
(* a goroutine.  Whether a credential is found and whether a signature is  *)
(* valid are choices of the environment.                                   *)
(***************************************************************************)
EXTENDS RateLimiter, Sequences, FiniteSets

CONSTANTS Links,          \* links that the mouse can hover
          CacheLimit,     \* paths in prefetchCache: 3 in the code
          MaxChallenges,  \* bound: calls of BeginAuth
          MaxMessages     \* bound: messages of the client

ASSUME IntentsAssumption ==
    /\ CacheLimit \in Nat \ {0}
    /\ MaxChallenges \in Nat
    /\ MaxMessages \in Nat

VARIABLES toServer,    \* the client's stream: numbers of messages
          toClient,    \* the server's messages on their way
          lastHover,   \* lastHoverID
          prompts,     \* challenges the browser is asking the user about
          reader,      \* where the reading goroutine is
          pending,     \* s.pendingChallenge, by number; 0: nil
          begun,       \* calls of BeginAuth so far
          cache,       \* s.prefetchCache
          total,       \* IntentsTotal
          dropped,     \* IntentsDropped
          messages,    \* history: the client's messages and what became of them
          verdicts,    \* history: what was verified
          overlapped   \* history: BeginAuth was called while an earlier
                       \* challenge or its assertion was on the way

clientVars == <<toServer, lastHover, prompts>>
sessionVars == <<reader, pending, begun, cache, total, dropped>>
intentVars == <<vars, clientVars, sessionVars, toClient, messages, verdicts,
                overlapped>>

Idle == [at |-> "idle", message |-> 0, judged |-> 0, ok |-> FALSE]

IntentInit ==
    /\ Init
    /\ toServer = <<>>
    /\ toClient = {[op |-> "hello", number |-> 0]}
    /\ lastHover = "none"
    /\ prompts = {}
    /\ reader = Idle
    /\ pending = 0
    /\ begun = 0
    /\ cache = {}
    /\ total = 0 /\ dropped = 0
    /\ messages = <<>>
    /\ verdicts = {}
    /\ overlapped = FALSE

(***************************************************************************)
(* The client.                                                             *)
(***************************************************************************)

Message(op, arg) == [op |-> op, arg |-> arg, fate |-> "waiting"]

Send(msg) == /\ Len(messages) < MaxMessages
             /\ messages' = Append(messages, msg)
             /\ toServer' = Append(toServer, Len(messages'))

\* The mouse comes over a link: only another one than the last is sent.
Hover(link) ==
    /\ link # lastHover
    /\ lastHover' = link
    /\ Send(Message("hover", link))
    /\ UNCHANGED <<vars, prompts, sessionVars, toClient, verdicts, overlapped>>

\* A click whose handler calls BeginAuth, requestState of DevTools, and an input
\* that is too long.
SendIntent(op) ==
    /\ Send(Message(op, 0))
    /\ UNCHANGED <<vars, lastHover, prompts, sessionVars, toClient, verdicts,
                   overlapped>>

\* The browser gives an assertion for a challenge, or an error.
GiveAssertion(n) ==
    /\ n \in prompts
    /\ prompts' = prompts \ {n}
    /\ Send(Message("auth", n))
    /\ UNCHANGED <<vars, lastHover, sessionVars, toClient, verdicts, overlapped>>

AssertionFails(n) ==
    /\ n \in prompts
    /\ prompts' = prompts \ {n}
    /\ UNCHANGED <<vars, toServer, lastHover, sessionVars, toClient, messages,
                   verdicts, overlapped>>

\* CompletePasskey: a goroutine for each challenge.
ReceiveChallenge(frame) ==
    /\ prompts' = prompts \cup {frame.number}
    /\ UNCHANGED <<toServer, messages>>

\* handleHello, for a server of the same major version.
ReceiveHello ==
    /\ Send(Message("hello", 0))
    /\ UNCHANGED prompts

\* handleAuthResult and handleDevToolsState: the answer to a message is here.
ReceiveAnswer(frame) ==
    /\ messages' = [messages EXCEPT ![frame.number].fate = "delivered"]
    /\ UNCHANGED <<prompts, toServer>>

ReceiveFrame(frame) ==
    /\ toClient' = toClient \ {frame}
    /\ CASE frame.op = "hello"     -> ReceiveHello
         [] frame.op = "challenge" -> ReceiveChallenge(frame)
         [] frame.op = "answer"    -> ReceiveAnswer(frame)
    /\ UNCHANGED <<vars, lastHover, sessionVars, verdicts, overlapped>>

(***************************************************************************)
(* The session.                                                            *)
(***************************************************************************)

Fate(m, f) == messages' = [messages EXCEPT ![m].fate = f]

\* WriteMessage opens a stream for the frame, or fails: the caller returns the
\* error, handleStream logs it, and the session goes on without the frame.
WriteMessage(frame) == toClient' = toClient \cup {frame}
WriteFails          == UNCHANGED toClient

AnswerTo(m) == [op |-> "answer", number |-> m]
Answer(m)   == \/ Fate(m, "answered") /\ WriteMessage(AnswerTo(m))
               \/ Fate(m, "unsent") /\ WriteFails

\* An earlier challenge, or its assertion, is on the way.
InFlight ==
    \/ prompts # {}
    \/ reader.at \in {"lookup", "verified"}
    \/ \E f \in toClient : f.op = "challenge"
    \/ \E i \in DOMAIN toServer : messages[toServer[i]].op = "auth"

Challenge(n) == [op |-> "challenge", number |-> n]

\* Mutant: a challenge that is pending is kept.
BeginAuthKeeps ==
    /\ begun < MaxChallenges
    /\ begun' = begun + 1
    /\ pending' = IF pending = 0 THEN begun' ELSE pending
    /\ WriteMessage(Challenge(begun')) \/ WriteFails
    /\ overlapped' = (overlapped \/ InFlight)

\* BeginAuth: a new challenge replaces the pending one, also when its frame
\* cannot be written.
BeginAuth ==
    /\ begun < MaxChallenges
    /\ begun' = begun + 1
    /\ pending' = begun'
    /\ WriteMessage(Challenge(begun')) \/ WriteFails
    /\ overlapped' = (overlapped \/ InFlight)

\* In a goroutine of the application.
BeginAuthAside ==
    /\ BeginAuth
    /\ UNCHANGED <<vars, clientVars, reader, cache, total, dropped, messages,
                   verdicts>>

\* PrefetchRoute: a new path in a full cache evicts all others.
PrefetchRoute(path) ==
    IF path \in cache THEN cache
    ELSE IF Cardinality(cache) >= CacheLimit THEN {path}
    ELSE cache \cup {path}

\* handleClientIntent, the default case, and the first lines of
\* handleClientAuth: an assertion without a pending challenge is ignored.
Handle(m) ==
    CASE messages[m].op = "hello" ->
             /\ Fate(m, "done")
             /\ UNCHANGED <<toClient, reader, pending, begun, cache, overlapped>>
      [] messages[m].op = "devtools" ->
             /\ Answer(m)
             /\ UNCHANGED <<reader, pending, begun, cache, overlapped>>
      [] messages[m].op = "hover" ->
             /\ Fate(m, "done")
             /\ cache' = PrefetchRoute(messages[m].arg)
             /\ UNCHANGED <<toClient, reader, pending, begun, overlapped>>
      [] messages[m].op = "click" ->
             /\ Fate(m, "done")
             /\ IF begun < MaxChallenges THEN BeginAuth
                ELSE UNCHANGED <<toClient, pending, begun, overlapped>>
             /\ UNCHANGED <<reader, cache>>
      [] messages[m].op = "auth" /\ pending = 0 ->
             /\ Fate(m, "ignored")
             /\ UNCHANGED <<toClient, reader, pending, begun, cache, overlapped>>
      [] messages[m].op = "auth" /\ pending # 0 ->
             /\ reader' = [Idle EXCEPT !.at = "lookup", !.message = m]
             /\ UNCHANGED <<toClient, messages, pending, begun, cache, overlapped>>

\* The longest frame that is read has 65536 bytes: a longer one, such as the
\* text of a large input, ends handleStream.  The connection stays up, and the
\* client has no other stream.
TooLong(m) == messages[m].op = "long"
Readable == /\ reader.at = "idle" /\ toServer # <<>>
            /\ ~TooLong(Head(toServer))

StopReading ==
    /\ reader.at = "idle" /\ toServer # <<>>
    /\ TooLong(Head(toServer))
    /\ reader' = [Idle EXCEPT !.at = "stopped"]
    /\ UNCHANGED <<vars, clientVars, pending, begun, cache, total, dropped,
                   toClient, messages, verdicts, overlapped>>

\* HandleIntent up to the limiter, which drops the message.
DropIntent ==
    /\ Readable
    /\ AllowRefuses
    /\ dropped' = dropped + 1
    /\ Fate(Head(toServer), "dropped")
    /\ toServer' = Tail(toServer)
    /\ UNCHANGED <<lastHover, prompts, reader, pending, begun, cache, total,
                   toClient, verdicts, overlapped>>

\* HandleIntent, when an intent hook returns an error.
HookVetoes ==
    /\ Readable
    /\ AllowGrants
    /\ total' = total + 1
    /\ Fate(Head(toServer), "vetoed")
    /\ toServer' = Tail(toServer)
    /\ UNCHANGED <<lastHover, prompts, reader, pending, begun, cache, dropped,
                   toClient, verdicts, overlapped>>

\* HandleIntent, when the message reaches its handler.
HandleIntent ==
    /\ Readable
    /\ AllowGrants
    /\ total' = total + 1
    /\ Handle(Head(toServer))
    /\ toServer' = Tail(toServer)
    /\ UNCHANGED <<lastHover, prompts, dropped, verdicts>>

\* Mutant: no answer.
LookupFailsSilently ==
    /\ reader.at = "lookup"
    /\ reader' = Idle
    /\ UNCHANGED <<vars, clientVars, pending, begun, cache, total, dropped,
                   toClient, messages, verdicts, overlapped>>

\* LookupCredential finds none: the answer is no, the challenge stays.
LookupFails ==
    /\ reader.at = "lookup"
    /\ Answer(reader.message)
    /\ reader' = Idle
    /\ UNCHANGED <<vars, clientVars, pending, begun, cache, total, dropped,
                   verdicts, overlapped>>

\* VerifyAssertion, with the challenge that is pending now.
Verify(ok) ==
    /\ reader.at = "lookup"
    /\ reader' = [reader EXCEPT !.at = "verified", !.judged = pending, !.ok = ok]
    /\ UNCHANGED <<vars, clientVars, pending, begun, cache, total, dropped,
                   toClient, messages, verdicts, overlapped>>

Verdict == [assertion |-> messages[reader.message].arg,
            judged |-> reader.judged, ok |-> reader.ok, message |-> reader.message]

\* Mutant: the challenge stays pending.
AnswerAuthKeeps ==
    /\ reader.at = "verified"
    /\ Answer(reader.message)
    /\ verdicts' = verdicts \cup {Verdict}
    /\ reader' = Idle
    /\ UNCHANGED <<vars, clientVars, pending, begun, cache, total, dropped,
                   overlapped>>

\* The pending challenge is dropped, whichever it is now; the result is sent.
AnswerAuth ==
    /\ reader.at = "verified"
    /\ pending' = 0
    /\ Answer(reader.message)
    /\ verdicts' = verdicts \cup {Verdict}
    /\ reader' = Idle
    /\ UNCHANGED <<vars, clientVars, begun, cache, total, dropped, overlapped>>

-----------------------------------------------------------------------------
Clock == Tick /\ UNCHANGED <<clientVars, sessionVars, toClient, messages,
                             verdicts, overlapped>>

Session == \/ StopReading \/ DropIntent \/ HookVetoes \/ HandleIntent
           \/ LookupFails \/ AnswerAuth \/ \E ok \in BOOLEAN : Verify(ok)

IntentNext ==
    \/ Clock \/ Session \/ BeginAuthAside
    \/ \E link \in Links : Hover(link)
    \/ \E op \in {"click", "devtools", "long"} : SendIntent(op)
    \/ \E n \in prompts : GiveAssertion(n) \/ AssertionFails(n)
    \/ \E frame \in toClient : ReceiveFrame(frame)

\* The reader runs, and what is sent arrives.
IntentSpec == /\ IntentInit /\ [][IntentNext]_intentVars
              /\ WF_intentVars(Session)
              /\ WF_intentVars(\E frame \in toClient : ReceiveFrame(frame))

-----------------------------------------------------------------------------
Read == {m \in DOMAIN messages : \A i \in DOMAIN toServer : toServer[i] # m}

\* The types; the prefetch cache stays within its limit; the counters add up,
\* and what was let through has cost one token, also what a hook vetoed.
IntentTypeOK ==
    /\ TypeOK
    /\ pending \in 0 .. begun /\ begun \in 0 .. MaxChallenges
    /\ prompts \subseteq 1 .. begun
    /\ cache \subseteq Links /\ Cardinality(cache) <= CacheLimit
    /\ reader.at \in {"idle", "lookup", "verified", "stopped"}
    /\ reader.at \in {"lookup", "verified"} => reader.message \in Read
    /\ \A m \in DOMAIN messages : m \notin Read => messages[m].fate = "waiting"
    /\ total + dropped = Cardinality(Read)
    /\ spent = Unit * total

\* A challenge is good for one verdict, whatever the goroutines of BeginAuth
\* and of the reader do between the check of the challenge and its clearing.
OneVerdictPerChallenge ==
    /\ IntentTypeOK
    /\ \A v, w \in verdicts : v.judged = w.judged => v = w

\* Unless BeginAuth is called while an earlier challenge or its assertion is on
\* the way, every assertion that is let through is judged by its own challenge
\* or finds no credential: none is ignored, which the client would never learn.
\* A later challenge is used up by the assertion of an earlier one, or erased
\* when that is answered.
AssertionsJudged ==
    ~overlapped =>
        /\ \A v \in verdicts : v.assertion = v.judged
        /\ \A m \in DOMAIN messages : messages[m].fate # "ignored"

\* What asks for an answer gets it in the end, or is dropped by the limiter or
\* a hook, without a word, or ignored as above, or its answer could not be
\* written: again and again no message waits for its turn or its answer,
\* unless the client sent a message that is too long.  Nobody reads what it
\* sends after that.
RequestsAnswered ==
    []<>(\/ \E m \in DOMAIN messages : TooLong(m)
         \/ \A m \in DOMAIN messages :
                messages[m].fate \notin {"waiting", "answered"})
=============================================================================
