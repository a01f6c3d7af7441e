------------------------------ MODULE TreeDiff ------------------------------
(***************************************************************************)
(* Diff (pkg/dom/diff.go): the operations that turn the page of one tree   *)
(* into that of another.  A tree is a record with an ID, a kind (a tag or  *)
(* "text"), a text, one attribute, one style and a sequence of trees.      *)
(*                                                                         *)
(* No module runs Diff in a session, as no code does: the engine sends what*)
(* signals have marked.                                                    *)
(***************************************************************************)
EXTENDS Browser

NoTree == [id |-> 0, kind |-> None]

\* A map without the key reads as the empty string.
Get(value) == IF value = None THEN "" ELSE value

Child(tree, i) ==
    IF i \in DOMAIN tree.children THEN tree.children[i] ELSE NoTree

\* A new node and all below it; styles are not sent.
RECURSIVE emitInsert(_, _)
emitInsert(tree, parent) ==
    IF tree.kind = "text"
    THEN <<Op("InsertText", tree.id, parent, "text", tree.text)>>
    ELSE <<Op("InsertNode", tree.id, parent, tree.kind, tree.attr)>>
         \o FlattenSeq([i \in DOMAIN tree.children |->
                           emitInsert(tree.children[i], tree.id)])

Update(op, id, value) == Op(op, id, 0, None, value)

\* Mutant: an attribute that is gone is left.
DiffAttributesKeeps(old, next) ==
    IF next.attr # None /\ Get(old.attr) # next.attr
    THEN <<Update("SetAttr", old.id, next.attr)>> ELSE <<>>

\* Set where it differs, removed where it is gone.
DiffAttributes(old, next) ==
    CASE next.attr # None /\ Get(old.attr) # next.attr ->
             <<Update("SetAttr", old.id, next.attr)>>
      [] old.attr # None /\ next.attr = None -> <<Update("RemoveAttr", old.id, "")>>
      [] OTHER -> <<>>

\* Set where it differs; never removed.
DiffStyles(old, next) ==
    IF next.style # None /\ Get(old.style) # next.style
    THEN <<Update("SetStyle", old.id, next.style)>> ELSE <<>>

\* parent is the ID of next's parent.  Neither two elements with other tags nor
\* a text and an element are told apart from two that match.
RECURSIVE Diff(_, _, _)
Diff(old, next, parent) ==
    CASE old = NoTree /\ next = NoTree -> <<>>
      [] old = NoTree /\ next # NoTree -> emitInsert(next, parent)
      [] old # NoTree /\ next = NoTree -> <<Update("RemoveNode", old.id, "")>>
      [] OTHER ->
           IF old.kind = "text" /\ next.kind = "text"
           THEN IF old.text = next.text THEN <<>>
                ELSE <<Update("UpdateText", old.id, next.text)>>
           ELSE DiffAttributes(old, next) \o DiffStyles(old, next)
                \o FlattenSeq([i \in 1 .. Max({Len(old.children), Len(next.children)}) |->
                                  Diff(Child(old, i), Child(next, i), next.id)])

-----------------------------------------------------------------------------
\* The page of a tree that was mounted, as DOM nodes.
RECURSIVE MountTree(_, _)
MountTree(tree, parent) ==
    IF tree.kind = "text"
    THEN <<Op("InsertText", tree.id, parent, "text", tree.text)>>
    ELSE <<Op("InsertNode", tree.id, parent, tree.kind, tree.attr)>>
         \o (IF tree.style = None THEN <<>>
             ELSE <<Update("SetStyle", tree.id, tree.style)>>)
         \o FlattenSeq([i \in DOMAIN tree.children |->
                           MountTree(tree.children[i], tree.id)])

Shown(tree) == applyOpcodes(EmptyClient, MountTree(tree, 0))

\* What is to be seen below a DOM node.
RECURSIVE Picture(_, _)
Picture(dom, h) ==
    [kind |-> dom[h].kind, text |-> dom[h].text, attr |-> dom[h].attr,
     style |-> dom[h].style,
     children |-> [i \in DOMAIN dom[h].children |-> Picture(dom, dom[h].children[i])]]

\* Where Diff is able to follow: kinds that match, no style that goes, no
\* attribute that appears empty, and new nodes only below a node that both
\* trees give the same ID, and without styles.
RECURSIVE Unstyled(_)
Unstyled(tree) ==
    tree.kind # "text" =>
        /\ tree.style = None
        /\ \A i \in DOMAIN tree.children : Unstyled(tree.children[i])

RECURSIVE Comparable(_, _)
Comparable(old, next) ==
    /\ old.kind = next.kind
    /\ old.kind # "text" =>
           /\ old.style # None => next.style # None
           /\ ~(old.attr = None /\ next.attr = "")
           /\ \A i \in DOMAIN old.children \cap DOMAIN next.children :
                  Comparable(old.children[i], next.children[i])
           /\ \A i \in DOMAIN next.children \ DOMAIN old.children :
                  old.id = next.id /\ Unstyled(next.children[i])
=============================================================================
