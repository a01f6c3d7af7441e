------------------------------ MODULE DomTree ------------------------------
(***************************************************************************)
(* The tree of a session and the browser's copy of it.                     *)
(*                                                                         *)
(* The server's tree is built by a component from elements, texts and the  *)
(* containers of If (pkg/dom/reactive.go), which replace their child when  *)
(* a condition flips; texts, attributes and styles are bound to signals    *)
(* (pkg/dom/elements.go).  Mount sends the whole tree, a flush what has    *)
(* changed (pkg/engine/session.go), and the client applies a message to    *)
(* the DOM, with a map from node IDs to DOM nodes (pkg/wasm/patch.go).  The*)
(* page may have been rendered on the server first (pkg/dom/ssr.go), by    *)
(* this process or by one that was restarted since.                        *)
(*                                                                         *)
(* The nodes of a session are numbered in the order they are made, and are *)
(* kept when a branch is discarded: their observers stay subscribed.  DOM  *)
(* nodes are numbered too, #bw-root is the first.  A message is applied    *)
(* when it is sent, which nothing else in the browser can observe; failed  *)
(* and reordered messages are in SessionFlush.                             *)
(***************************************************************************)
EXTENDS Integers, Browser

CONSTANTS Page,            \* the component: a record for each of its places
          Top,             \* the place of the root
          Signals,         \* the signals
          Values,          \* their values, as formatted; "" among them
          Start,           \* the value of each signal in a new session
          MaxChanges,      \* bound: changes of signals in a session
          MaxConnections   \* bound: connections of the page

Places == DOMAIN Page

ASSUME PageAssumption ==
    /\ Top \in Places /\ "" \in Values
    /\ Start \in [Signals -> Values]
    /\ \A p \in Places :
           /\ Page[p].kind \in {"element", "text", "if"}
           /\ Page[p].on \in Signals \cup {None}
           /\ Page[p].children \in Seq(Places)
           /\ {Page[p].then, Page[p].else} \subseteq Places \cup {None}
    /\ MaxChanges \in Nat /\ MaxConnections \in Nat \ {0}

VARIABLES values,       \* the values of the signals
          nodes,        \* all nodes the session has made
          base,         \* the node counter when the session began
          mounted,      \* how many nodes were sent by Mount; 0: not mounted
          changes,      \* changes of signals in this session
          connections,  \* connections so far
          client,       \* the DOM and the client's registry
          ssr,          \* the largest ID in the page that was loaded
          doubled       \* history: an If container was flushed together with
                        \* the insertion of a tree it is part of

vars == <<values, nodes, base, mounted, changes, connections, client, ssr,
          doubled>>

ID(i) == IF i = 0 THEN 0 ELSE base + i

(***************************************************************************)
(* Building the tree.                                                      *)
(***************************************************************************)

Active(p, vals) == vals[Page[p].on] # ""
Branch(p, active) == IF active THEN Page[p].then ELSE Page[p].else

NewNode(p, vals) ==
    [place |-> p, parent |-> 0, children |-> <<>>, ops |-> <<>>,
     active |-> Page[p].kind = "if" /\ Active(p, vals),
     value |-> IF Page[p].on = None THEN "static" ELSE vals[Page[p].on],
     stale |-> FALSE, touched |-> FALSE]

AppendChild(ns, i, child) ==
    [ns EXCEPT ![i].children = Append(@, child), ![child].parent = i]

RemoveChild(ns, i, child) ==
    [ns EXCEPT ![i].children = SelectSeq(@, LAMBDA c : c # child),
               ![child].parent = 0]

\* Runs the component at p: the nodes with the new ones, and the new root.  An
\* element is made after its children, a container of If before its branch.
RECURSIVE Render(_, _, _)
Render(ns, p, vals) ==
    LET own(ns1) == Append(ns1, NewNode(p, vals))
        AddChild(done, c) == LET r == Render(done.ns, c, vals)
                             IN  [ns |-> r.ns, ids |-> Append(done.ids, r.id)]
        inner == FoldLeft(AddChild, [ns |-> ns, ids |-> <<>>], Page[p].children)
        branch == Branch(p, Active(p, vals))
    IN  CASE Page[p].kind = "text" -> [ns |-> own(ns), id |-> Len(ns) + 1]
          [] Page[p].kind = "element" ->
                 LET id == Len(inner.ns) + 1
                 IN  [ns |-> FoldLeft(LAMBDA n, c : AppendChild(n, id, c),
                                      own(inner.ns), inner.ids),
                      id |-> id]
          [] Page[p].kind = "if" ->
                 LET id == Len(ns) + 1
                     r  == Render(own(ns), branch, vals)
                 IN  [ns |-> IF branch = None THEN own(ns)
                             ELSE AppendChild(r.ns, id, r.id),
                      id |-> id]

(***************************************************************************)
(* The observers.  An operation of PendingOps is the removal or the        *)
(* insertion of a node; what an insertion sends is read when it is encoded.*)
(***************************************************************************)

\* Of If: the old child is removed and the other branch is rendered.
Flip(ns, i, vals) ==
    LET active == Active(ns[i].place, vals)
        branch == Branch(ns[i].place, active)
        old    == ns[i].children
        ns1    == [ns EXCEPT ![i].active = active,
                             ![i].ops = @ \o [k \in DOMAIN old |->
                                  [op |-> "remove", node |-> old[k]]]]
        ns2    == IF old = <<>> THEN ns1 ELSE RemoveChild(ns1, i, old[1])
        r      == Render(ns2, branch, vals)
    IN  IF active = ns[i].active THEN ns
        ELSE IF branch = None THEN ns2
        ELSE [AppendChild(r.ns, i, r.id) EXCEPT
                 ![i].ops = Append(@, [op |-> "insert", node |-> r.id])]

\* Of TextF, AttrF and StyleF.
Bind(ns, i, vals) ==
    [ns EXCEPT ![i].value = vals[Page[ns[i].place].on], ![i].stale = TRUE,
               ![i].touched = TRUE]

\* Signal.Set: the observers there are, those of discarded nodes too.
Set(s, v) ==
    LET vals == [values EXCEPT ![s] = v]
        Observer(ns, i) ==
            IF Page[ns[i].place].on # s THEN ns
            ELSE IF Page[ns[i].place].kind = "if" THEN Flip(ns, i, vals)
            ELSE Bind(ns, i, vals)
    IN  /\ mounted > 0 /\ changes < MaxChanges
        /\ v # values[s]
        /\ values' = vals
        /\ nodes' = FoldLeft(Observer, nodes, [i \in 1 .. Len(nodes) |-> i])
        /\ changes' = changes + 1
        /\ UNCHANGED <<base, mounted, connections, client, ssr, doubled>>

(***************************************************************************)
(* Encoding.                                                               *)
(***************************************************************************)

IsText(ns, i) == Page[ns[i].place].kind = "text"
Bound(ns, i)  == Page[ns[i].place].kind = "element" /\ Page[ns[i].place].on # None

InsertNode(ns, i) ==
    Op("InsertNode", ID(i), ID(ns[i].parent), "div",
       IF Bound(ns, i) THEN ns[i].value ELSE None)
InsertText(ns, i) ==
    Op("InsertText", ID(i), ID(ns[i].parent), "text", ns[i].value)
Change(op, ns, i) == Op(op, ID(i), 0, None, ns[i].value)

\* Mutant: the node without what is below it.
emitInsertTreeShallow(ns, i) ==
    IF IsText(ns, i) THEN <<InsertText(ns, i)>> ELSE <<InsertNode(ns, i)>>

\* A subtree that appears later.
RECURSIVE emitInsertTree(_, _)
emitInsertTree(ns, i) ==
    IF IsText(ns, i) THEN <<InsertText(ns, i)>>
    ELSE <<InsertNode(ns, i)>> \o FlattenSeq(
             [k \in DOMAIN ns[i].children |-> emitInsertTree(ns, ns[i].children[k])])

\* The whole tree.  A text is an empty node first, and has its text next.
RECURSIVE emitFullTree(_, _)
emitFullTree(ns, i) ==
    IF IsText(ns, i)
    THEN <<Op("InsertNode", ID(i), ID(ns[i].parent), "text", ""),
           Change("UpdateText", ns, i)>>
    ELSE <<InsertNode(ns, i)>>
         \o (IF Bound(ns, i) THEN <<Change("SetStyle", ns, i)>> ELSE <<>>)
         \o FlattenSeq(
             [k \in DOMAIN ns[i].children |-> emitFullTree(ns, ns[i].children[k])])

\* The nodes of a tree, in the order of the walk.
RECURSIVE Walk(_, _)
Walk(ns, i) ==
    <<i>> \o FlattenSeq([k \in DOMAIN ns[i].children |-> Walk(ns, ns[i].children[k])])

Root(ns) == CHOOSE i \in 1 .. mounted : ns[i].place = Top

Dirty(n) == n.stale \/ n.ops # <<>>
collectDirty == SelectSeq(Walk(nodes, Root(nodes)), LAMBDA i : Dirty(nodes[i]))

EncodeOp(op) == IF op.op = "remove" THEN <<Change("RemoveNode", nodes, op.node)>>
                ELSE emitInsertTree(nodes, op.node)

\* Mutant: "" is a value like any other.
EncodeEmpty(i) ==
    FlattenSeq([k \in DOMAIN nodes[i].ops |-> EncodeOp(nodes[i].ops[k])])
    \o IF nodes[i].stale /\ Bound(nodes, i)
       THEN <<Change("SetAttr", nodes, i), Change("SetStyle", nodes, i)>>
       ELSE <<>>

\* Structure, attributes and styles of one node.
Encode(i) ==
    FlattenSeq([k \in DOMAIN nodes[i].ops |-> EncodeOp(nodes[i].ops[k])])
    \o IF nodes[i].stale /\ Bound(nodes, i)
       THEN <<Change(IF nodes[i].value = "" THEN "RemoveAttr" ELSE "SetAttr", nodes, i),
              Change("SetStyle", nodes, i)>>
       ELSE <<>>

\* The texts go last, in one batch.
FlushMessage(dirty) ==
    LET texts == SelectSeq(dirty, LAMBDA i : nodes[i].stale /\ IsText(nodes, i))
    IN  FlattenSeq([k \in DOMAIN dirty |-> Encode(dirty[k])])
        \o [k \in DOMAIN texts |-> Change("UpdateText", nodes, texts[k])]

(***************************************************************************)
(* The session.                                                            *)
(***************************************************************************)

\* What hydrateExistingDOM makes of the page that RenderHTML wrote: elements
\* are known by their IDs, texts are not, an empty text is no node at all.
\* Then connect has cleared #bw-root.
Hydrated(ns) ==
    LET Shown(i) == ~(IsText(ns, i) /\ ns[i].value = "")
        Parsed(i) ==
            [kind |-> IF IsText(ns, i) THEN "text" ELSE "div",
             id   |-> IF IsText(ns, i) THEN 0 ELSE i,
             parent |-> IF ns[i].parent = 0 THEN 0 ELSE ns[i].parent + 1,
             children |-> LET shown == SelectSeq(ns[i].children, Shown)
                          IN  [k \in DOMAIN shown |-> shown[k] + 1],
             text  |-> IF IsText(ns, i) THEN ns[i].value ELSE "",
             attr  |-> IF Bound(ns, i) THEN ns[i].value ELSE None,
             style |-> IF Bound(ns, i) /\ ns[i].value # ""
                       THEN ns[i].value ELSE None]
    IN  [EmptyClient EXCEPT
            !.dom = @ \o [i \in DOMAIN ns |-> Parsed(i)],
            !.reg = [i \in {j \in DOMAIN ns : ~IsText(ns, j)} |-> i + 1]]

\* The page is loaded and the client is connected.  The node counter is past
\* the IDs of the page, unless the server was restarted in between.
Init ==
    LET page == Render(<<>>, Top, Start).ns
    IN  /\ values = Start
        /\ nodes = <<>>
        /\ \/ ssr = 0 /\ base = 0 /\ client = EmptyClient
           \/ ssr = Len(page) /\ base \in 0 .. Len(page) /\ client = Hydrated(page)
        /\ mounted = 0
        /\ changes = 0
        /\ connections = 1
        /\ doubled = FALSE

Mount ==
    LET r == Render(<<>>, Top, values)
    IN  /\ mounted = 0
        /\ nodes' = r.ns
        /\ mounted' = Len(r.ns)
        /\ client' = applyOpcodes(client, emitFullTree(r.ns, r.id))
        /\ UNCHANGED <<values, base, changes, connections, ssr, doubled>>

\* A container that the client does not know inserts, besides the insertion of
\* the tree it is part of, a branch that holds a text.
InsertsTwice(i) ==
    /\ ~Known(client, ID(i))
    /\ \E k \in DOMAIN nodes[i].ops :
           /\ nodes[i].ops[k].op = "insert"
           /\ nodes[i].ops[k].node \in ToSet(nodes[i].children)
           /\ \E j \in ToSet(Walk(nodes, nodes[i].ops[k].node)) : IsText(nodes, j)

\* flushDirtyNodes, and the client.
Flush ==
    LET dirty == collectDirty
    IN  /\ mounted > 0 /\ dirty # <<>>
        /\ nodes' = [i \in DOMAIN nodes |->
                        IF i \in ToSet(dirty)
                        THEN [nodes[i] EXCEPT !.ops = <<>>, !.stale = FALSE]
                        ELSE nodes[i]]
        /\ client' = applyOpcodes(client, FlushMessage(dirty))
        /\ doubled' = (doubled \/ \E i \in ToSet(dirty) : InsertsTwice(i))
        /\ UNCHANGED <<values, base, mounted, changes, connections, ssr>>

\* The client lost its connection and has a new one: the registry and the page
\* are cleared, and the new session of this or of a restarted server mounts.
Reconnect ==
    /\ mounted > 0 /\ connections < MaxConnections
    /\ connections' = connections + 1
    /\ client' = EmptyClient
    /\ base' \in {0, base + Len(nodes)}
    /\ values' = Start
    /\ nodes' = <<>>
    /\ mounted' = 0
    /\ changes' = 0
    /\ ssr' = 0
    /\ doubled' = FALSE

Next == \/ Mount \/ Flush \/ Reconnect
        \/ \E s \in Signals, v \in Values : Set(s, v)

Spec == Init /\ [][Next]_vars

-----------------------------------------------------------------------------
Tree == IF mounted = 0 THEN {} ELSE ToSet(Walk(nodes, Root(nodes)))

\* Nothing waits for a flush.
Clean == mounted > 0 /\ collectDirty = <<>>

\* The session's IDs are those of nodes in the page the client was loaded with.
Collides == base < ssr

Dom(i) == client.dom[client.reg[ID(i)]]
Registered(h) == \E id \in DOMAIN client.reg : client.reg[id] = h

\* The types, and that the client survives.
TypeOK ==
    /\ values \in [Signals -> Values]
    /\ \A i \in DOMAIN nodes : \A k \in DOMAIN nodes[i].children :
           nodes[nodes[i].children[k]].parent = i
    /\ \A h \in DOMAIN client.dom : \A k \in DOMAIN client.dom[h].children :
           client.dom[client.dom[h].children[k]].parent = h
    /\ \A id \in DOMAIN client.reg : client.reg[id] \in DOMAIN client.dom
    /\ client.deferred = <<>>
    /\ ~client.crashed

\* After a flush every node of the session's tree is in the page, at its place
\* among the nodes the client knows and with its text, and the client knows it
\* by its ID; what else is in the page are copies of texts.
NothingMissing ==
    /\ TypeOK
    /\ Clean /\ ~Collides =>
           /\ \A i \in Tree :
                  /\ Known(client, ID(i))
                  /\ IsText(nodes, i) => Dom(i).text = nodes[i].value
                  /\ SelectSeq(Dom(i).children, Registered)
                      = [k \in DOMAIN nodes[i].children |->
                            client.reg[ID(nodes[i].children[k])]]
                  /\ \A h \in ToSet(Dom(i).children) :
                         Registered(h) \/ client.dom[h].kind = "text"
           /\ client.dom[BwRoot].children = <<client.reg[ID(Root(nodes))]>>

\* There are no such copies, unless a container changed its branch in the
\* flush that first sent the container: its text is then sent twice.
NoCopies ==
    Clean /\ ~Collides /\ ~doubled =>
        \A i \in Tree : \A h \in ToSet(Dom(i).children) : Registered(h)

\* The client forgets what has been removed, except texts that were removed
\* with an element around them, and the page it was loaded with.
OnlyTextsLeak ==
    Clean /\ ~Collides =>
        \A id \in DOMAIN client.reg :
            \/ id <= ssr
            \/ id - base \in Tree
            \/ IsText(nodes, id - base) /\ id - base \notin Tree

\* After a flush an attribute that has a value shows the value of its signal,
\* however the element came into the page, and one whose signal became "" is
\* gone ('Returning "" removes the attribute').  A style does the same if the
\* element was mounted or its signal has changed since it was made.  Nothing is
\* said of an attribute that has been "" from the start, nor of the first style
\* of an element that was inserted later.
BindingsFollow ==
    Clean /\ ~Collides =>
        \A i \in Tree : Bound(nodes, i) =>
            /\ nodes[i].value # "" => Dom(i).attr = nodes[i].value
            /\ nodes[i].value = "" /\ nodes[i].touched => Dom(i).attr = None
            /\ nodes[i].value # "" /\ (i <= mounted \/ nodes[i].touched) =>
                   Dom(i).style = nodes[i].value
            /\ nodes[i].value = "" => Dom(i).style = None
=============================================================================
