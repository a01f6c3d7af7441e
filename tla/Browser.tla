------------------------------ MODULE Browser ------------------------------
(***************************************************************************)
(* The client's patching of the DOM (pkg/wasm/patch.go): a message is a    *)
(* sequence of operations on nodes that have IDs, and the client keeps a   *)
(* map from IDs to DOM nodes.  DOM nodes are numbered, #bw-root is the     *)
(* first; an element has one attribute and one style.                      *)
(***************************************************************************)
EXTENDS Integers, SequencesExt, FiniteSetsExt

None == "none"   \* no attribute, no style

\* An operation of a message; kind is the tag of an element, or "text".
Op(op, id, parent, kind, value) ==
    [op |-> op, id |-> id, parent |-> parent, kind |-> kind, value |-> value]

BwRoot == 1

DomNode(kind, value, id) ==
    [kind |-> kind, parent |-> 0, children |-> <<>>, id |-> id,
     text  |-> IF kind = "text" THEN value ELSE "",
     attr  |-> IF kind = "text" THEN None ELSE value, style |-> None]

EmptyClient == [dom |-> <<DomNode("div", None, 0)>>, reg |-> <<>>,
                deferred |-> <<>>, crashed |-> FALSE]

Detach(dom, h) ==
    IF dom[h].parent = 0 THEN dom
    ELSE [dom EXCEPT ![h].parent = 0,
              ![dom[h].parent].children = SelectSeq(@, LAMBDA c : c # h)]

RECURSIVE Ancestors(_, _)
Ancestors(dom, h) == {h} \cup IF dom[h].parent = 0 THEN {}
                              ELSE Ancestors(dom, dom[h].parent)

\* appendChild: a node that is inserted below itself is an exception, which
\* ends the client.
Attach(c, p, h) ==
    IF h \in Ancestors(c.dom, p) THEN [c EXCEPT !.crashed = TRUE]
    ELSE [c EXCEPT !.dom = [Detach(@, h) EXCEPT ![p].children = Append(@, h),
                                                ![h].parent = p]]

Known(c, id) == id \in DOMAIN c.reg
Forget(reg, ids) == [id \in DOMAIN reg \ ids |-> reg[id]]

\* A new DOM node.  It is attached at the end of the message if its parent was
\* known before the message.
Create(c, before, o) ==
    LET h  == Len(c.dom) + 1
        c1 == [c EXCEPT !.dom = Append(@, DomNode(o.kind, o.value, o.id)),
                        !.reg = [id \in DOMAIN @ \cup {o.id} |->
                                     IF id = o.id THEN h ELSE @[id]]]
    IN  IF o.parent \in before
        THEN [c1 EXCEPT !.deferred = Append(@, [id |-> o.id, parent |-> o.parent])]
        ELSE IF Known(c, o.parent) THEN Attach(c1, c.reg[o.parent], h)
        ELSE IF o.parent = 0 THEN Attach(c1, BwRoot, h)
        ELSE c1

\* Mutant: a node that is known is made again.
ApplyInsertNodeNew(c, before, o) == Create(c, before, o)

\* OpInsertNode: a node that is known is moved, and its attributes are skipped.
ApplyInsertNode(c, before, o) ==
    IF Known(c, o.id)
    THEN Attach(c, IF Known(c, o.parent) THEN c.reg[o.parent] ELSE BwRoot,
                c.reg[o.id])
    ELSE Create(c, before, o)

\* The elements below a DOM node.
RECURSIVE Elements(_, _)
Elements(dom, h) ==
    LET below == {c \in ToSet(dom[h].children) : dom[c].kind # "text"}
    IN  below \cup UNION {Elements(dom, c) : c \in below}

\* Mutant: only the node itself is forgotten.
ApplyRemoveNodeOnly(c, o) ==
    [c EXCEPT !.reg = Forget(@, {o.id}), !.dom = Detach(@, c.reg[o.id])]

\* OpRemoveNode: the elements below are forgotten, the texts are not.
ApplyRemoveNode(c, o) ==
    LET h == c.reg[o.id]
    IN  [c EXCEPT !.reg = Forget(@, {c.dom[e].id : e \in Elements(c.dom, h)}
                                    \cup {o.id}),
                  !.dom = Detach(@, h)]

\* Setting textContent: an element loses its children for one text.
SetTextContent(c, h, text) ==
    IF c.dom[h].kind = "text" THEN [c EXCEPT !.dom[h].text = text]
    ELSE LET gone == FoldLeft(Detach, c.dom, c.dom[h].children)
         IN  Attach([c EXCEPT !.dom = Append(gone, DomNode("text", text, 0))],
                    h, Len(gone) + 1)

\* applyFrame.  What names an unknown node is ignored.
ApplyFrame(c, before, o) ==
    CASE c.crashed -> c
      [] o.op = "InsertNode" -> ApplyInsertNode(c, before, o)
      [] o.op = "InsertText" -> Create(c, before, o)
      [] o.op \notin {"InsertNode", "InsertText"} /\ ~Known(c, o.id) -> c
      [] o.op = "RemoveNode" /\ Known(c, o.id) -> ApplyRemoveNode(c, o)
      [] o.op = "UpdateText" /\ Known(c, o.id) ->
             SetTextContent(c, c.reg[o.id], o.value)
      [] o.op = "SetAttr" /\ Known(c, o.id) ->
             [c EXCEPT !.dom[c.reg[o.id]].attr = o.value]
      [] o.op = "RemoveAttr" /\ Known(c, o.id) ->
             [c EXCEPT !.dom[c.reg[o.id]].attr = None]
      [] o.op = "SetStyle" /\ Known(c, o.id) ->
             [c EXCEPT !.dom[c.reg[o.id]].style =
                  IF o.value = "" THEN None ELSE o.value]

\* flushDeferredInserts, for one of them.
AttachDeferred(c, d) ==
    IF c.crashed \/ ~Known(c, d.id) THEN c
    ELSE IF Known(c, d.parent) THEN Attach(c, c.reg[d.parent], c.reg[d.id])
    ELSE [c EXCEPT !.dom = Detach(@, c.reg[d.id])]

applyOpcodes(c, message) ==
    LET before == DOMAIN c.reg
        c1 == FoldLeft(LAMBDA d, o : ApplyFrame(d, before, o), c, message)
    IN  [FoldLeft(AttachDeferred, c1, c1.deferred) EXCEPT !.deferred = <<>>]
=============================================================================
