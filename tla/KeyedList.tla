----------------------------- MODULE KeyedList -----------------------------
(***************************************************************************)
(* A keyed list: the observer that For installs on a ListSignal            *)
(* (pkg/dom/reactive.go), the operations it queues on its container, the   *)
(* flush that encodes them (pkg/engine/session.go) and the client that     *)
(* applies the frame (pkg/wasm/patch.go).                                  *)
(*                                                                         *)
(* A node is the pair of its key and of how often that key was rendered:   *)
(* an item that was removed and comes back is a new node.  The list and its*)
(* flush belong to one goroutine.  Items are leaves.                       *)
(***************************************************************************)
EXTENDS Lis, SequencesExt

CONSTANTS Keys,           \* the keys that keyFn gives
          InitialItems,   \* the list when the page is mounted
          BulkThreshold,  \* bulkInsertThreshold: 20 in the code
          MaxRenders,     \* bound: how often one key is rendered
          MaxChanges      \* bound: changes of the list before a flush

ASSUME ListAssumption ==
    /\ IsFiniteSet(Keys)
    /\ InitialItems \in Seq(Keys) /\ IsInjective(InitialItems)
    /\ BulkThreshold \in Nat \ {0}
    /\ MaxRenders \in Nat \ {0}
    /\ MaxChanges \in Nat \ {0}

VARIABLES children,    \* container.Children
          nodeMap,     \* For's map from keys to nodes
          renders,     \* how often each key has been rendered
          orphans,     \* nodes whose Parent RemoveChild has set to nil
          pendingOps,  \* container.PendingOps
          changes,     \* changes since the last flush
          registry,    \* the client's map from IDs to DOM nodes
          dom,         \* the container's children in the browser
          crashed,     \* the client called a method of null
          tailEdits,   \* history: since the list was last empty, items were
                       \* only removed, or added at the end
          unchanged,   \* history: the children before the changes that wait
                       \* for a flush, empty when none waits
          hasty        \* history: what was queued behind an insert of an
                       \* earlier change, and takes effect before it

serverVars == <<children, nodeMap, renders, orphans, pendingOps, changes>>
clientVars == <<registry, dom, crashed>>
vars == <<serverVars, clientVars, tailEdits, unchanged, hasty>>

Node(k, n) == [key |-> k, nth |-> n]

\* The elements of the sequence s that are in S, in their order.
Only(s, S) ==
    LET kept[i \in 0 .. Len(s)] ==
            IF i = 0 THEN <<>>
            ELSE IF s[i] \in S THEN Append(kept[i - 1], s[i]) ELSE kept[i - 1]
    IN  kept[Len(s)]

\* The mounted page: For has rendered the items, the client shows them.
Init == LET first == [i \in 1 .. Len(InitialItems) |-> Node(InitialItems[i], 1)]
        IN  /\ children = first
            /\ nodeMap = [k \in ToSet(InitialItems) |-> Node(k, 1)]
            /\ renders = [k \in Keys |-> IF k \in ToSet(InitialItems) THEN 1 ELSE 0]
            /\ orphans = {}
            /\ pendingOps = <<>>
            /\ changes = 0
            /\ registry = ToSet(first)
            /\ dom = first
            /\ crashed = FALSE
            /\ tailEdits = TRUE
            /\ unchanged = <<>>
            /\ hasty = {}

(***************************************************************************)
(* The server: ListSignal.Set and the observer of For.                     *)
(***************************************************************************)

InsertOp(n)    == [op |-> "insert", nodes |-> <<n>>]
MoveOp(n)      == [op |-> "move",   nodes |-> <<n>>]
RemoveOp(n)    == [op |-> "remove", nodes |-> <<n>>]
SwapOp(a, b)   == [op |-> "swap",   nodes |-> <<a, b>>]
InsertHTML(ns) == [op |-> "html",   nodes |-> ns]
ClearOp        == [op |-> "clear",  nodes |-> <<>>]

Queues(ops, kind) == \E o \in ToSet(ops) : o.op = kind

\* flushBulkNew: one HTML insert for many nodes, single inserts for few.
flushBulkNew(ns) ==
    IF Len(ns) >= BulkThreshold THEN <<InsertHTML(ns)>>
    ELSE [i \in 1 .. Len(ns) |-> InsertOp(ns[i])]

\* The first part of the observer: what disappears.  Clearing the whole list
\* is one operation and leaves the Parent of the nodes alone.
\* The code goes through a map, in any order; removes commute.
Cleared(newItems) == newItems = <<>> /\ DOMAIN nodeMap # {}

Gone(newItems) ==
    Only(children, {n \in ToSet(children) : n.key \notin ToSet(newItems)})

Removal(newItems) ==
    IF Cleared(newItems) THEN <<ClearOp>>
    ELSE [i \in 1 .. Len(Gone(newItems)) |-> RemoveOp(Gone(newItems)[i])]

Orphaned(newItems) == IF Cleared(newItems) THEN {} ELSE ToSet(Gone(newItems))

\* The children and the keys of nodeMap that are left.
Survivors(newItems) ==
    Only(children, {n \in ToSet(children) : n.key \in ToSet(newItems)})

Kept(newItems) == DOMAIN nodeMap \cap ToSet(newItems)

\* oldPositions: where the items that stay were, in their new order.
OldNodes(newItems) ==
    LET oldKeys == Only(newItems, Kept(newItems))
    IN  [i \in 1 .. Len(oldKeys) |-> nodeMap[oldKeys[i]]]

Positions(new, old) ==
    [i \in 1 .. Len(new) |-> CHOOSE j \in 1 .. Len(old) : old[j] = new[i]]

\* The second part: the rebuilding of the children in the new order.  Moves
\* go out at once, after the new nodes met before them; all append.
RebuildStep(st, n, isNew, inLIS) ==
    IF n \in isNew THEN [st EXCEPT !.bulkNew = Append(@, n)]
    ELSE IF n \in inLIS THEN st
    ELSE [ops |-> (st.ops \o flushBulkNew(st.bulkNew)) \o <<MoveOp(n)>>,
          bulkNew |-> <<>>]

Rebuild(newNodes, isNew, inLIS) ==
    LET after[i \in 0 .. Len(newNodes)] ==
            IF i = 0 THEN [ops |-> <<>>, bulkNew |-> <<>>]
            ELSE RebuildStep(after[i - 1], newNodes[i], isNew, inLIS)
        last == after[Len(newNodes)]
    IN  last.ops \o flushBulkNew(last.bulkNew)

\* The nodes that follow the items: those in nodeMap, others are rendered.
NodeFor(newItems, k) ==
    IF k \in Kept(newItems) THEN nodeMap[k] ELSE Node(k, renders[k] + 1)

NewNodes(newItems) ==
    [i \in 1 .. Len(newItems) |-> NodeFor(newItems, newItems[i])]

Added(newItems) == {n \in ToSet(NewNodes(newItems)) : n.key \notin Kept(newItems)}

\* What is queued for the nodes that are left and those that are new.  If
\* exactly two of them are out of order, and none is new, they are swapped.
Placement(newItems) ==
    LET old    == OldNodes(newItems)
        marked == lisIndices(Positions(old, Survivors(newItems)))
        moving == Only([i \in 1 .. Len(old) |-> i], (1 .. Len(old)) \ marked)
    IN  IF Len(old) = Len(newItems) /\ Len(old) >= 2 /\ Len(moving) = 2
        THEN <<SwapOp(old[moving[1]], old[moving[2]])>>
        ELSE Rebuild(NewNodes(newItems), Added(newItems), {old[i] : i \in marked})

\* ListSignal.Set(newItems) and the whole observer.
SetItems(newItems) ==
    LET ops      == Removal(newItems) \o Placement(newItems)
        newNodes == NewNodes(newItems)
        left     == Survivors(newItems)
        appends  == newNodes = left \o SubSeq(newNodes, Len(left) + 1, Len(newNodes))
    IN  /\ changes < MaxChanges
        /\ \A n \in Added(newItems) : n.nth <= MaxRenders
        /\ children' = newNodes
        /\ nodeMap' = [k \in ToSet(newItems) |-> NodeFor(newItems, k)]
        /\ renders' = [k \in Keys |-> IF k \in ToSet(newItems) \ Kept(newItems)
                                      THEN renders[k] + 1 ELSE renders[k]]
        /\ orphans' = orphans \cup Orphaned(newItems)
        /\ pendingOps' = pendingOps \o ops
        /\ changes' = changes + 1
        /\ tailEdits' = (appends /\ (tailEdits \/ left = <<>>))
        /\ unchanged' = (IF changes = 0 THEN children ELSE unchanged)
        /\ hasty' = hasty \cup {k \in {"clear", "swap", "html"} :
                                   Queues(pendingOps, "insert") /\ Queues(ops, k)}
        /\ UNCHANGED clientVars

\* The lists without a key twice: keyFn "extracts a unique key".
Change == \E newItems \in SeqOf(Keys, Cardinality(Keys)) :
              IsInjective(newItems) /\ SetItems(newItems)

(***************************************************************************)
(* The client: applyOpcodes of one frame.  c is its state: the registry,   *)
(* the container's children, the deferred inserts, and whether it crashed. *)
(***************************************************************************)

Client == [registry |-> registry, dom |-> dom, deferred |-> <<>>, crashed |-> crashed]

Detach(s, n) == Only(s, ToSet(s) \ {n})

\* InsertNode.  A known node is moved: detached and appended at once.  A new
\* one is registered; its attachment to a container that was there before the
\* frame is deferred, and an orphan goes to the root of the page.
ApplyInsert(c, n, orphan) ==
    CASE n \in c.registry -> [c EXCEPT !.dom = Append(Detach(@, n), n)]
      [] n \notin c.registry /\ ~orphan ->
             [c EXCEPT !.registry = @ \cup {n}, !.deferred = Append(@, n)]
      [] OTHER -> [c EXCEPT !.registry = @ \cup {n}]

\* Mutant: the ID of a removed node stays in the registry.
ApplyRemoveKeepsID(c, n) == [c EXCEPT !.dom = Detach(@, n)]

ApplyRemove(c, n) == [c EXCEPT !.registry = @ \ {n}, !.dom = Detach(@, n)]

ApplyHTML(c, ns) == [c EXCEPT !.registry = @ \cup ToSet(ns), !.dom = @ \o ns]

\* ClearChildren forgets the IDs of the attached children only.
ApplyClear(c) == [c EXCEPT !.registry = @ \ ToSet(c.dom), !.dom = <<>>]

\* SwapNodes; a node that is not attached yet has no parentNode.
ApplySwap(c, a, b) ==
    IF {a, b} \cap c.registry # {a, b} THEN c
    ELSE IF {a, b} \cap ToSet(c.dom) # {a, b} THEN [c EXCEPT !.crashed = TRUE]
    ELSE [c EXCEPT !.dom = [i \in DOMAIN @ |-> CASE @[i] = a -> b
                                                 [] @[i] = b -> a
                                                 [] OTHER    -> @[i]]]

ApplyOp(c, o, orphaned) ==
    IF c.crashed THEN c ELSE
    CASE o.op = "insert" -> ApplyInsert(c, o.nodes[1], o.nodes[1] \in orphaned)
      [] o.op = "move"   -> ApplyInsert(c, o.nodes[1], FALSE)
      [] o.op = "remove" -> ApplyRemove(c, o.nodes[1])
      [] o.op = "html"   -> ApplyHTML(c, o.nodes)
      [] o.op = "clear"  -> ApplyClear(c)
      [] o.op = "swap"   -> ApplySwap(c, o.nodes[1], o.nodes[2])

\* The operations of a frame, one after the other.
Applied(c, ops, orphaned) ==
    LET after[i \in 0 .. Len(ops)] ==
            IF i = 0 THEN c ELSE ApplyOp(after[i - 1], ops[i], orphaned)
    IN  after[Len(ops)]

\* Mutant: the deferred nodes are put before the others.
AttachDeferredFirst(c) ==
    LET known == Only(c.deferred, c.registry)
    IN  IF c.crashed THEN c
        ELSE [c EXCEPT !.dom = known \o Only(@, ToSet(@) \ ToSet(known))]

\* flushDeferredInserts: the deferred nodes that are still known go, in their
\* order, to the end of the container.
AttachDeferred(c) ==
    LET known == Only(c.deferred, c.registry)
    IN  IF c.crashed THEN c
        ELSE [c EXCEPT !.dom = Only(@, ToSet(@) \ ToSet(known)) \o known]

\* flushDirtyNodes drains the queue into one frame and the client applies it.
\* The parent of an insert is read when the frame is encoded.
Flush ==
    LET end == AttachDeferred(Applied(Client, pendingOps, orphans))
    IN  /\ changes > 0
        /\ registry' = end.registry
        /\ dom' = end.dom
        /\ crashed' = end.crashed
        /\ pendingOps' = <<>>
        /\ changes' = 0
        /\ unchanged' = <<>>
        /\ UNCHANGED <<children, nodeMap, renders, orphans, tailEdits, hasty>>

Next == Change \/ Flush

Spec == Init /\ [][Next]_vars

-----------------------------------------------------------------------------
\* Everything queued has been applied.
Flushed == changes = 0

AllNodes == {Node(k, n) : k \in Keys, n \in 1 .. MaxRenders}

\* The types; For's map and the children it keeps are the same nodes, each once.
TypeOK == /\ children \in Seq(AllNodes) /\ IsInjective(children)
          /\ nodeMap \in [{n.key : n \in ToSet(children)} -> ToSet(children)]
          /\ \A k \in DOMAIN nodeMap : nodeMap[k].key = k
          /\ renders \in [Keys -> 0 .. MaxRenders]
          /\ orphans \subseteq AllNodes
          /\ changes \in 0 .. MaxChanges
          /\ registry \subseteq AllNodes
          /\ dom \in Seq(AllNodes)
          /\ crashed \in BOOLEAN

\* After a flush the browser shows the nodes of the list, no other node and
\* none twice, and knows exactly their IDs: nothing is left in the registry
\* of what was removed.  It has not called a method of a DOM node that is null.
\* This holds for several changes before a flush too, as long as the list is not
\* cleared, and no two items are swapped, while an insert waits.
SameChildren ==
    /\ TypeOK
    /\ hasty \subseteq {"html"} =>
          /\ ~crashed
          /\ Flushed => /\ ToSet(dom) = ToSet(children) /\ IsInjective(dom)
                        /\ registry = ToSet(children)

\* As long as items are only removed or added at the end, the browser shows
\* them in the order of the list, if no bulk insert was queued behind an insert
\* either.
TailEditsKeepOrder == Flushed /\ tailEdits /\ hasty = {} => dom = children

\* What one change moves, or swaps, is "the minimum set that need move
\* opcodes": the other surviving items are in the order they had before, and no
\* larger set of surviving items is.
MovesAreMinimal ==
    LET old    == Only(unchanged, ToSet(children))
        new    == Only(children, ToSet(unchanged))
        was    == Positions(new, old)
        moved  == UNION {ToSet(o.nodes) : o \in {p \in ToSet(pendingOps) :
                                                    p.op \in {"move", "swap"}}}
        stayed == {i \in 1 .. Len(new) : new[i] \notin moved}
    IN  changes = 1 => /\ stayed \in IncreasingSets(was)
                       /\ \A S \in IncreasingSets(was) :
                             Cardinality(S) <= Cardinality(stayed)
=============================================================================
