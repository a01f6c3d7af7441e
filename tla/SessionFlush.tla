---------------------------- MODULE SessionFlush ----------------------------
(***************************************************************************)
(* How a change of a signal reaches the browser: Session.HandleIntent and  *)
(* flushDirtyNodes of pkg/engine/session.go, Signal.Update and the         *)
(* observers that TextF, AttrF, StyleF and AttrJSON install (pkg/dom), the *)
(* transport, and the client's application of a frame (pkg/wasm/patch.go). *)
(*                                                                         *)
(* A session has one reader goroutine.  Components may start others that   *)
(* change signals (the live charts of the examples do); they are the       *)
(* Background goroutines.  The fields of a node have no lock: a data race  *)
(* on them is modelled as any interleaving of the single reads and writes, *)
(* and one on a map of a node may end the process as well (Throw).         *)
(* A text, or the value of an attribute, is the version of the signal it   *)
(* was formatted from; versions do not repeat, so that the test of AttrF   *)
(* for an unchanged value never holds here (DomTree has values that do).   *)
(***************************************************************************)
EXTENDS Integers, Sequences, FiniteSets

CONSTANTS Nodes,          \* the bound nodes, each with a signal of its own
          Background,     \* goroutines that components started
          Reader,         \* the goroutine that reads the intents
          Sets,           \* Sets[g]: the signals that goroutine g changes
          MaxVersion,     \* bound: the changes of one signal
          MaxIntents      \* bound: the intents of a session

Goroutines == Background \cup {Reader}

ASSUME SessionAssumption ==
    /\ Nodes # {}
    /\ Reader \notin Background
    /\ Sets \in [Goroutines -> SUBSET Nodes]
    /\ MaxVersion \in Nat
    /\ MaxIntents \in Nat

VARIABLES attributed, \* the elements with a bound attribute; the others are texts
          signal,     \* Signal.value of each node's signal
          text,       \* Node.Text, or the bound entry of the map Node.Attrs
          dirty,      \* Node.Dirty
          dirtyText,  \* Node.DirtyText
          dirtyAttrs, \* the bound entry of the map Node.DirtyAttrs; 0 if absent
          pc,         \* where each goroutine is
          work,       \* the change each goroutine is telling the observer of
          todo,       \* flushDirtyNodes: the dirty nodes still to drain
          updates,    \* flushDirtyNodes: textUpdates
          channel,    \* frames on the way to the client
          client,     \* the texts in the browser; 0 before the tree arrives
          intents,    \* intents received
          panicked,   \* history: a handler has panicked since the last flush
          raced,      \* history: nodes whose observer ran while they were flushed
          dropped,    \* history: nodes whose last update a failed write lost
          overtaken,  \* history: nodes of which a later frame arrived first
          crashed     \* history: the node whose maps ended the process, if any

nodeVars   == <<attributed, text, dirty, dirtyText, dirtyAttrs>>
flushVars  == <<todo, updates>>
clientVars == <<channel, client>>
lossVars   == <<raced, dropped, overtaken, crashed>>
vars == <<signal, nodeVars, pc, work, flushVars, clientVars, intents, panicked,
          lossVars>>

Idle == "idle"
NoWork == [node |-> CHOOSE n \in Nodes : TRUE, version |-> 0]

ObserverPCs == {"text", "dirtyAttrs", "dirty", "dirtyText"}
ReaderPCs   == {"handler", "collect", "drain", "clear", "clearDirty", "write"}

Versions == 0 .. MaxVersion + 1
TextUpdates == UNION {[S -> Versions] : S \in SUBSET Nodes}
Frames == [tree : BOOLEAN, texts : TextUpdates]

\* The component has rendered, with the first version of every signal, and
\* Mount is about to write the tree; the goroutines it started are running.
Init == /\ attributed \in SUBSET Nodes
        /\ signal = [n \in Nodes |-> 1]
        /\ text = [n \in Nodes |-> 1]
        /\ dirty = [n \in Nodes |-> FALSE]
        /\ dirtyText = [n \in Nodes |-> FALSE]
        /\ dirtyAttrs = [n \in Nodes |-> 0]
        /\ pc = [g \in Goroutines |-> IF g = Reader THEN "mount" ELSE Idle]
        /\ work = [g \in Goroutines |-> NoWork]
        /\ todo = {}
        /\ updates = <<>>
        /\ channel = <<>>
        /\ client = [n \in Nodes |-> 0]
        /\ intents = 0
        /\ panicked = FALSE
        /\ raced = {}
        /\ dropped = {}
        /\ overtaken = {}
        /\ crashed = {}

Goto(g, from, to) == /\ pc[g] = from
                     /\ pc' = [pc EXCEPT ![g] = to]

(***************************************************************************)
(* Signal.Update and the observer of TextF.                                *)
(***************************************************************************)

\* Under the lock of the signal: the new value is stored.  The observers are
\* called after the lock is released, each with this value.
Update(g, n, back) ==
    /\ n \in Sets[g]
    /\ signal[n] <= MaxVersion
    /\ Goto(g, back, "text")
    /\ signal' = [signal EXCEPT ![n] = @ + 1]
    /\ work' = [work EXCEPT ![g] = [node |-> n, version |-> signal'[n]]]
    /\ UNCHANGED <<nodeVars, flushVars, clientVars, intents, panicked, lossVars>>

\* Where the observer goes on: AttrF puts the value into the two maps and then
\* marks the node, TextF marks the node and then its text.
AfterText(g) == IF work[g].node \in attributed THEN "dirtyAttrs" ELSE "dirty"
Caller(g) == IF g = Reader THEN "handler" ELSE Idle

\* n.Text = format(v), or n.Attrs[key] = val
ObserverText(g) ==
    /\ Goto(g, "text", AfterText(g))
    /\ text' = [text EXCEPT ![work[g].node] = work[g].version]
    /\ UNCHANGED <<attributed, signal, dirty, dirtyText, dirtyAttrs, work>>

\* n.DirtyAttrs[key] = val
ObserverDirtyAttrs(g) ==
    /\ Goto(g, "dirtyAttrs", "dirty")
    /\ dirtyAttrs' = [dirtyAttrs EXCEPT ![work[g].node] = work[g].version]
    /\ UNCHANGED <<attributed, signal, text, dirty, dirtyText, work>>

\* n.Dirty = true; for an attribute Update then returns to its caller.
ObserverDirty(g) ==
    /\ Goto(g, "dirty", IF work[g].node \in attributed THEN Caller(g) ELSE "dirtyText")
    /\ dirty' = [dirty EXCEPT ![work[g].node] = TRUE]
    /\ work' = IF work[g].node \in attributed THEN [work EXCEPT ![g] = NoWork] ELSE work
    /\ UNCHANGED <<attributed, signal, text, dirtyText, dirtyAttrs>>

\* n.DirtyText = true, and Update returns to its caller.
ObserverDirtyText(g) ==
    /\ Goto(g, "dirtyText", Caller(g))
    /\ dirtyText' = [dirtyText EXCEPT ![work[g].node] = TRUE]
    /\ work' = [work EXCEPT ![g] = NoWork]
    /\ UNCHANGED <<attributed, signal, text, dirty, dirtyAttrs>>

\* The nodes that an observer of one of the goroutines is writing to.
ObservedBy(G) == {work[g].node : g \in {h \in G : pc[h] \in ObserverPCs}}

\* Two observers of one text may cross without harm: its flags do not say which
\* value they stand for.  An attribute is in two maps, which may then differ.
Notify(g) ==
    /\ ObserverText(g) \/ ObserverDirtyAttrs(g) \/ ObserverDirty(g) \/ ObserverDirtyText(g)
    /\ raced' = raced \cup ({work[g].node} \cap
                   (todo \cup (attributed \cap ObservedBy(Goroutines \ {g}))))
    /\ UNCHANGED <<flushVars, clientVars, intents, panicked, dropped, overtaken, crashed>>

(***************************************************************************)
(* The reader: Mount, HandleIntent, flushDirtyNodes.                       *)
(***************************************************************************)

Send(texts) == channel' = Append(channel, [tree |-> FALSE, texts |-> texts])

\* Mount: emitFullTree writes every node with its text.
Mount ==
    /\ Goto(Reader, "mount", Idle)
    /\ channel' = Append(channel, [tree |-> TRUE, texts |-> text])
    /\ UNCHANGED <<signal, nodeVars, work, flushVars, client, intents, panicked, lossVars>>

\* HandleIntent returns without touching the tree: rate limited, undecodable,
\* refused by a hook, or for a node or an event without a handler.
IntentIgnored ==
    /\ pc[Reader] = Idle
    /\ intents < MaxIntents
    /\ intents' = intents + 1
    /\ UNCHANGED <<signal, nodeVars, pc, work, flushVars, clientVars, panicked, lossVars>>

\* handleClientIntent or handleClientNav calls the handler.  A navigation may
\* come before the tree has arrived: Start sends one.
IntentHandled ==
    /\ Goto(Reader, Idle, "handler")
    /\ intents < MaxIntents
    /\ intents' = intents + 1
    /\ UNCHANGED <<signal, nodeVars, work, flushVars, clientVars, panicked, lossVars>>

\* The handler, or the goroutine's own code, changes a signal.
Change(g) ==
    \E n \in Nodes : Update(g, n, IF g = Reader THEN "handler" ELSE Idle)

HandlerReturns ==
    /\ Goto(Reader, "handler", "collect")
    /\ UNCHANGED <<signal, nodeVars, work, flushVars, clientVars, intents, panicked, lossVars>>

\* The handler panics: the deferred function recovers and sends an error
\* frame, which carries no text; nothing is flushed.
HandlerPanics ==
    /\ Goto(Reader, "handler", Idle)
    /\ Send(<<>>)
    /\ panicked' = TRUE
    /\ UNCHANGED <<signal, nodeVars, work, flushVars, client, intents, lossVars>>

\* collectDirty; without a dirty node the flush is over.
CollectDirty ==
    LET found == {n \in Nodes : dirty[n]}
    IN  /\ Goto(Reader, "collect", IF found = {} THEN Idle ELSE "drain")
        /\ todo' = found
        /\ updates' = <<>>
        /\ panicked' = FALSE
        /\ UNCHANGED <<signal, nodeVars, work, clientVars, intents, lossVars>>

\* The loop over the dirty nodes.  The order in which they are drained is
\* that of the tree; it is fixed but of no consequence here.
Current == CHOOSE n \in todo : TRUE

\* What the loop finds in a node: n.Text if n.DirtyText, and n.DirtyAttrs.
Found(n) == IF n \in attributed THEN dirtyAttrs[n]
            ELSE IF dirtyText[n] THEN text[n] ELSE 0

\* The value is appended to the updates, or encoded at once for an attribute.
Collect ==
    /\ Goto(Reader, "drain", "clear")
    /\ updates' = IF Found(Current) = 0 THEN updates
                  ELSE [n \in DOMAIN updates \cup {Current} |->
                            IF n = Current THEN Found(n) ELSE updates[n]]
    /\ UNCHANGED <<signal, nodeVars, todo>>

\* n.DirtyText = false, if it was set; clear(n.DirtyAttrs).  An observer that
\* sets the flag after the test of Collect leaves it set.
Clear ==
    /\ Goto(Reader, "clear", "clearDirty")
    /\ dirtyText' = [dirtyText EXCEPT ![Current] = @ /\ Current \notin DOMAIN updates]
    /\ dirtyAttrs' = [dirtyAttrs EXCEPT ![Current] = 0]
    /\ UNCHANGED <<attributed, signal, text, dirty, flushVars>>

\* Mutant: the flag of the node is never cleared.
KeepDirty ==
    /\ Goto(Reader, "clearDirty", IF todo = {Current} THEN "write" ELSE "drain")
    /\ todo' = todo \ {Current}
    /\ UNCHANGED <<signal, nodeVars, updates>>

\* n.Dirty = false, and on to the next node.
ClearDirty ==
    /\ Goto(Reader, "clearDirty", IF todo = {Current} THEN "write" ELSE "drain")
    /\ dirty' = [dirty EXCEPT ![Current] = FALSE]
    /\ todo' = todo \ {Current}
    /\ UNCHANGED <<attributed, signal, text, dirtyText, dirtyAttrs, updates>>

\* The loop over the dirty nodes.
Drain ==
    /\ Collect \/ Clear \/ ClearDirty
    /\ raced' = raced \cup ({Current} \cap ObservedBy(Goroutines))
    /\ UNCHANGED <<work, clientVars, intents, panicked, dropped, overtaken, crashed>>

\* Mutant: the frame for a single update is forgotten.
WriteBatchOnly ==
    /\ Goto(Reader, "write", Idle)
    /\ Send(IF Cardinality(DOMAIN updates) >= 2 THEN updates ELSE <<>>)
    /\ dropped' = dropped \ DOMAIN updates
    /\ UNCHANGED <<signal, nodeVars, work, flushVars, client, intents, panicked,
                   raced, overtaken, crashed>>

\* UpdateText or BatchText is encoded and written.
Write ==
    /\ Goto(Reader, "write", Idle)
    /\ Send(updates)
    /\ dropped' = dropped \ DOMAIN updates
    /\ UNCHANGED <<signal, nodeVars, work, flushVars, client, intents, panicked,
                   raced, overtaken, crashed>>

\* WriteMessage fails (OpenUniStream at the limit of streams): HandleIntent
\* returns the error, the reader logs it and goes on.
WriteFails ==
    /\ Goto(Reader, "write", Idle)
    /\ dropped' = dropped \cup DOMAIN updates
    /\ UNCHANGED <<signal, nodeVars, work, flushVars, clientVars, intents, panicked,
                   raced, overtaken, crashed>>

Flush == CollectDirty \/ Drain \/ Write \/ WriteFails

(***************************************************************************)
(* The maps of a node.  The Go runtime ends the process when it notices    *)
(* that a map is written while another goroutine writes, reads or iterates *)
(* over it ("fatal error: concurrent map ...", which recover cannot stop); *)
(* it does not notice always.                                              *)
(***************************************************************************)

\* The maps that the next step of a goroutine writes: the two assignments of the
\* observer, and clear.
Writes(g) ==
    IF work[g].node \in attributed /\ pc[g] = "text" THEN {<<work[g].node, "Attrs">>}
    ELSE IF pc[g] = "dirtyAttrs" THEN {<<work[g].node, "DirtyAttrs">>}
    ELSE IF pc[g] = "clear" THEN {<<Current, "DirtyAttrs">>}
    ELSE {}

\* The maps it iterates over: emitFullTree the attributes of every element, the
\* flush the dirty ones of a node.
Iterates(g) ==
    IF pc[g] = "mount" THEN {<<n, "Attrs">> : n \in attributed}
    ELSE IF pc[g] = "drain" THEN {<<Current, "DirtyAttrs">>}
    ELSE {}

\* Two goroutines are at one map, one of them to write.
Throw ==
    \E g \in Goroutines, h \in Goroutines :
        /\ g # h
        /\ \E m \in Writes(g) \cap (Writes(h) \cup Iterates(h)) : crashed' = {m[1]}
        /\ pc' = [i \in Goroutines |-> "dead"]
        /\ todo' = {}
        /\ UNCHANGED <<signal, nodeVars, work, updates, clientVars, intents, panicked,
                       raced, dropped, overtaken>>

(***************************************************************************)
(* The client.                                                             *)
(***************************************************************************)

\* Mutant: a frame with several updates is not applied.
PatchedSingle(frame) ==
    [n \in Nodes |-> IF /\ n \in DOMAIN frame.texts
                        /\ \/ frame.tree
                           \/ client[n] # 0 /\ Cardinality(DOMAIN frame.texts) = 1
                     THEN frame.texts[n] ELSE client[n]]

\* The texts after a frame: the tree makes the nodes, an update of a node that
\* the client does not know is ignored.
Patched(frame) ==
    [n \in Nodes |-> IF n \in DOMAIN frame.texts /\ (frame.tree \/ client[n] # 0)
                     THEN frame.texts[n] ELSE client[n]]

\* applyFrame of a frame that has arrived.  On a WebSocket that is the oldest;
\* wtWriter opens a stream for each frame, and streams may overtake each other.
Apply ==
    \E i \in DOMAIN channel :
        /\ client' = Patched(channel[i])
        /\ channel' = SubSeq(channel, 1, i - 1) \o SubSeq(channel, i + 1, Len(channel))
        /\ overtaken' = overtaken \cup
               UNION {DOMAIN channel[i].texts \cap DOMAIN channel[j].texts : j \in 1 .. i - 1}
        /\ UNCHANGED <<signal, nodeVars, pc, work, flushVars, intents, panicked,
                       raced, dropped, crashed>>

-----------------------------------------------------------------------------
ReaderStep == Mount \/ HandlerReturns \/ HandlerPanics \/ Flush

Next == \/ ReaderStep \/ IntentIgnored \/ IntentHandled \/ Apply \/ Throw
        \/ \E g \in Goroutines : Change(g) \/ Notify(g)

\* Runnable goroutines run and frames arrive.  Nothing makes the user act.
Fairness == /\ WF_vars(ReaderStep)
            /\ WF_vars(Apply)
            /\ \A g \in Goroutines : WF_vars(Notify(g))

Spec     == Init /\ [][Next]_vars
FairSpec == Spec /\ Fairness

-----------------------------------------------------------------------------
\* The types; a node is being drained only by a flush, and every drained or
\* collected node is one of the tree.
TypeOK ==
    /\ attributed \subseteq Nodes
    /\ signal \in [Nodes -> Versions]
    /\ text \in [Nodes -> Versions]
    /\ dirty \in [Nodes -> BOOLEAN]
    /\ dirtyText \in [Nodes -> BOOLEAN]
    /\ dirtyAttrs \in [Nodes -> Versions]
    /\ pc \in [Goroutines -> {"mount", Idle, "dead"} \cup ObserverPCs \cup ReaderPCs]
    /\ work \in [Goroutines -> [node : Nodes, version : Versions]]
    /\ todo \subseteq Nodes
    /\ (todo = {}) = (pc[Reader] \notin {"drain", "clear", "clearDirty"})
    /\ updates \in TextUpdates
    /\ channel \in Seq(Frames)
    /\ client \in [Nodes -> Versions]
    /\ intents \in 0 .. MaxIntents
    /\ panicked \in BOOLEAN
    /\ raced \cup dropped \cup overtaken \cup crashed \subseteq Nodes

\* No goroutine is at work and every frame has been applied.
Quiet == /\ \A g \in Goroutines : pc[g] = Idle
         /\ channel = <<>>

\* The next flush sends the current text of n.
Marked(n) == /\ dirty[n]
             /\ IF n \in attributed THEN dirtyAttrs[n] = text[n] ELSE dirtyText[n]

\* No two goroutines change the signal of n.
OneSetter(n) == \A g, h \in Goroutines : n \in Sets[g] \cap Sets[h] => g = h

\* No change is lost silently: when nothing is at work, the browser shows the
\* text of every node, or the node is still marked so that the next flush sends
\* it.  The exceptions are the ways in which this code can lose a change: an
\* observer that writes to a node while it is flushed or, for an attribute,
\* while another observer does (raced), a write that fails (dropped), and a
\* frame that overtakes an older one of the same node.  The text is the value of
\* the signal if one goroutine changes it; otherwise it may be an older one.
NoLostUpdate ==
    /\ TypeOK
    /\ Quiet => \A n \in Nodes :
           /\ n \in raced \cup dropped \cup overtaken
              \/ client[n] = text[n] \/ Marked(n)
           /\ OneSetter(n) => text[n] = signal[n]

\* The nodes whose signals only the handlers change.
ReaderOnly == {n \in Nodes : \A g \in Background : n \notin Sets[g]}

\* Without a panic an intent leaves nothing to flush of what handlers change:
\* only a handler that panicked half-way can leave a marked node behind, for
\* the next flush.
UnflushedOnlyAfterPanic ==
    pc[Reader] = Idle /\ ~panicked =>
        \A n \in ReaderOnly : ~dirty[n] /\ ~dirtyText[n] /\ dirtyAttrs[n] = 0

\* What a handler that returns has changed reaches the browser, whatever other
\* goroutines do to other nodes, unless its write fails, it is overtaken, or a
\* goroutine that changes an attribute beside the handlers ends the process.
HandlerUpdateArrives ==
    \A n \in ReaderOnly, v \in Versions :
        (pc[Reader] = "collect" /\ text[n] = v)
            ~> \/ client[n] >= v
               \/ n \in dropped \cup overtaken
               \/ (attributed \ ReaderOnly) \cap crashed # {}
=============================================================================
