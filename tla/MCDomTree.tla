----------------------------- MODULE MCDomTree -----------------------------
(***************************************************************************)
(* A page with a conditional inside a conditional: the outer one shows a   *)
(* panel or nothing, the inner one a note or a hint.                       *)
(***************************************************************************)
EXTENDS DomTree

Place(kind, on, children, then, else) ==
    [kind |-> kind, on |-> on, children |-> children, then |-> then,
     else |-> else]

MCPage == [page  |-> Place("element", "detail", <<"outer">>, None, None),
           outer |-> Place("if", "show", <<>>, "panel", None),
           panel |-> Place("element", "detail", <<"label", "inner">>, None, None),
           label |-> Place("text", "show", <<>>, None, None),
           inner |-> Place("if", "detail", <<>>, "note", "hint"),
           note  |-> Place("text", "detail", <<>>, None, None),
           hint  |-> Place("element", "show", <<>>, None, None)]

MCStart == [show |-> "a", detail |-> ""]
=============================================================================
