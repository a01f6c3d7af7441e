---------------------------- MODULE MCAlgorithms ----------------------------
(***************************************************************************)
(* Model checking of the pure algorithms: the wire format, by writing      *)
(* messages into a buffer (MCWireFormat), the tree diff and the parser of  *)
(* public keys, by choosing a problem for them.                            *)
(***************************************************************************)
EXTENDS MCWireFormat, CoseKey

D == INSTANCE TreeDiff

VARIABLE problem   \* what the diff or the parser is given

Nothing == [of |-> "nothing"]

AlgorithmsInit == Init /\ problem = Nothing

WriteMessage == problem = Nothing /\ Next /\ UNCHANGED problem

-----------------------------------------------------------------------------
\* Trees of a root and up to two children, one of which may have a child.
Element(id, kind, attr, style, children) ==
    [id |-> id, kind |-> kind, text |-> "", attr |-> attr, style |-> style,
     children |-> children]
TextTree(id, text) ==
    [id |-> id, kind |-> "text", text |-> text, attr |-> "none",
     style |-> "none", children |-> <<>>]

Leaves(id) ==
    {TextTree(id, t) : t \in {"t", "u"}}
    \cup {Element(id, k, a, s, <<>>) : k \in {"a", "b"},
             a \in {"none", "", "v"}, s \in {"none", "s"}}

FewLeaves(id) == {TextTree(id, "t"), Element(id, "a", "v", "none", <<>>),
                  Element(id, "a", "none", "s", <<>>),
                  Element(id, "a", "none", "none", <<TextTree(id + 1, "t")>>)}

Trees(id) ==
    {Element(id, "a", "none", "none", <<>>)}
    \cup {Element(id, "a", a, "none", <<c>>) : a \in {"none", "v"},
                                             c \in Leaves(id + 1)}
    \cup {Element(id, "a", "none", "none", <<c, d>>) : c \in FewLeaves(id + 1),
                                                      d \in FewLeaves(id + 3)}

\* The second tree has the IDs of the first, or new ones.
DiffProblem ==
    /\ sent = <<>> /\ problem = Nothing
    /\ \E old \in Trees(1), id \in {1, 11} : \E next \in Trees(id) :
           problem' = [of |-> "diff", old |-> old, next |-> next]
    /\ UNCHANGED <<sent, buffer>>

-----------------------------------------------------------------------------
X == [i \in 1 .. CoordinateSize |-> 7]
Y == [i \in 1 .. CoordinateSize |-> 162]

Coordinate(key, bytes) == {<<key, StringBytes(2, bytes, long)>> : long \in 0 .. 2}
OtherValues == {IntBytes(n) : n \in {0, 1, 2, 4}}
               \cup {StringBytes(2, <<33>>, 0), StringBytes(3, <<33>>, 0)}

\* The fields of a key: two coordinates and one or two others, in any order.
KeyFields ==
    UNION {SetToSeqs({x, y, <<3, v>>}) : x \in Coordinate(-2, X),
                  y \in Coordinate(-3, Y), v \in OtherValues}
    \cup UNION {SetToSeqs({<<-2, StringBytes(2, X, 0)>>, <<-3, StringBytes(2, Y, 1)>>,
                           <<1, v>>, <<3, w>>}) : v \in OtherValues, w \in OtherValues}

\* A key, whole or cut off.
KeyProblem ==
    /\ sent = <<>> /\ problem = Nothing
    /\ \E fields \in KeyFields, long \in BOOLEAN :
           \E cut \in 0 .. Len(MapBytes(fields, long)) :
               problem' = [of |-> "key", fields |-> fields, cut |-> cut,
                           data |-> MapBytes(fields, long)]
    /\ UNCHANGED <<sent, buffer>>

\* Any bytes.
SomeBytes == {0, 1, 2, 24, 25, 33, 34, 65, 88, 161, 162, 184}
BytesProblem ==
    /\ sent = <<>> /\ problem = Nothing
    /\ \E n \in 0 .. 4 : \E data \in [1 .. n -> SomeBytes] :
           problem' = [of |-> "bytes", data |-> data]
    /\ UNCHANGED <<sent, buffer>>

AlgorithmsNext == WriteMessage \/ DiffProblem \/ KeyProblem \/ BytesProblem

AlgorithmsSpec ==
    AlgorithmsInit /\ [][AlgorithmsNext]_<<sent, buffer, problem>>

-----------------------------------------------------------------------------
\* Diff turns the page of one tree into that of the other, where it is able to
\* follow ("emits binary opcodes representing the minimal set of DOM mutations
\* needed"): node by node of the same kind, with every combination of attributes,
\* of new and of surplus children.  Nothing is said of trees that are not
\* comparable: nodes of another kind, styles that go, new nodes with styles or
\* below a parent with a new ID.
DiffFollows ==
    problem.of = "diff" =>
        LET page  == D!Shown(problem.old)
            after == D!applyOpcodes(page, D!Diff(problem.old, problem.next, 0))
            goal  == D!Shown(problem.next)
        IN  D!Comparable(problem.old, problem.next) =>
                D!Picture(after.dom, 1) = D!Picture(goal.dom, 1)

IsTextString(field) == Major(field[2][1]) = 3

\* A key without a text string is parsed to its coordinates, whatever the order
\* of its fields and the form of their lengths.  A key that is cut off, or has a
\* text string, is refused, or its coordinates are the right ones.  No bytes
\* make the parser read past their end.
KeyParsed ==
    /\ problem.of \in {"bytes", "key"} =>
           parseCOSEP256(problem.data).status # "panic"
    /\ problem.of = "key" =>
           LET result == parseCOSEP256(SubSeq(problem.data, 1, problem.cut))
               right  == result.x = X /\ result.y = Y
           IN  /\ result.status = "ok" => right
               /\ /\ problem.cut = Len(problem.data)
                  /\ \A f \in ToSet(problem.fields) : ~IsTextString(f)
                  => result.status = "ok"
=============================================================================
