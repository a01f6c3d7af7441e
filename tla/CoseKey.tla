------------------------------ MODULE CoseKey ------------------------------
(***************************************************************************)
(* parseCOSEP256 (pkg/webauthn/verify.go): the two coordinates in the bytes*)
(* of a public key, a CBOR map from small integers to integers and strings.*)
(* A slice data[pos:] is the bytes from pos on; one that begins past the   *)
(* end panics.                                                             *)
(***************************************************************************)
EXTENDS Integers, SequencesExt, FiniteSetsExt

CONSTANTS CoordinateSize,  \* bytes of a coordinate: 32 in the code
          MinKeySize       \* the shortest data that are looked at: 10

ASSUME KeyAssumption == CoordinateSize \in Nat /\ MinKeySize \in Nat

Major(byte)      == byte \div 32
Additional(byte) == byte % 32

From(data, pos) == SubSeq(data, pos + 1, Len(data))

\* Nothing consumed: an error.
NoInt == [value |-> 0, n |-> 0]

decodeCBORInt(data) ==
    LET add == Additional(data[1])
        val == IF add < 24 THEN add ELSE data[2]
        n   == IF add < 24 THEN 1 ELSE 2
    IN  IF \/ data = <<>>
           \/ add > 24
           \/ add = 24 /\ Len(data) < 2
           \/ Major(data[1]) \notin {0, 1}
        THEN NoInt
        ELSE [value |-> IF Major(data[1]) = 0 THEN val ELSE -1 - val, n |-> n]

NoBytes == [bytes |-> <<>>, n |-> 0]

\* A string whose length is in its first byte, or in one or two more.
decodeString(data) ==
    LET add  == Additional(data[1])
        head == CASE add < 24 -> 1 [] add = 24 -> 2 [] OTHER -> 3
        size == CASE add < 24 -> add
                  [] add = 24 -> data[2]
                  [] OTHER -> data[2] * 256 + data[3]
    IN  IF add > 25 \/ Len(data) < head THEN NoBytes
        ELSE IF head + size > Len(data) THEN NoBytes
        ELSE [bytes |-> SubSeq(data, head + 1, head + size), n |-> head + size]

decodeCBORBytes(data) ==
    IF data = <<>> THEN NoBytes
    ELSE IF Major(data[1]) # 2 THEN NoBytes ELSE decodeString(data)

\* Mutant: the length of a longer integer is not counted.
skipCBORValueShort(data) ==
    IF data = <<>> THEN 0
    ELSE IF Major(data[1]) \in {2, 3} THEN decodeCBORBytes(data).n ELSE 1

\* A text string goes to decodeCBORBytes as well, which refuses it.  Anything
\* but an integer or a string counts as one byte.  What is skipped may end
\* past the data.
skipCBORValue(data) ==
    IF data = <<>> THEN 0
    ELSE CASE Major(data[1]) \in {0, 1} ->
                  (CASE Additional(data[1]) < 24 -> 1
                     [] Additional(data[1]) = 24 -> 2
                     [] Additional(data[1]) = 25 -> 3
                     [] Additional(data[1]) = 26 -> 5
                     [] OTHER -> 0)
           [] Major(data[1]) \in {2, 3} -> decodeCBORBytes(data).n
           [] OTHER -> 1
-----------------------------------------------------------------------------
Start(data) ==
    LET add == Additional(data[1])
    IN  [left |-> IF add = 24 THEN data[2] ELSE add,
         pos |-> IF add = 24 THEN 2 ELSE 1,
         x |-> <<>>, y |-> <<>>, status |-> "run"]

\* One pass of the loop: a key and its value.
Field(data, s) ==
    LET key   == decodeCBORInt(From(data, s.pos))
        pos   == s.pos + key.n
        coord == decodeCBORBytes(From(data, pos))
        n     == IF key.value \in {-2, -3} THEN coord.n
                 ELSE skipCBORValue(From(data, pos))
    IN  IF s.pos > Len(data) \/ (key.n > 0 /\ pos > Len(data))
        THEN [s EXCEPT !.status = "panic"]
        ELSE IF key.n = 0 \/ n = 0 THEN [s EXCEPT !.status = "error"]
        ELSE [s EXCEPT !.pos = pos + n, !.left = @ - 1,
                       !.x = IF key.value = -2 THEN coord.bytes ELSE @,
                       !.y = IF key.value = -3 THEN coord.bytes ELSE @]

RECURSIVE Fields(_, _)
Fields(data, s) ==
    IF s.status # "run" \/ s.left = 0 \/ s.pos >= Len(data) THEN s
    ELSE Fields(data, Field(data, s))

parseCOSEP256(data) ==
    IF \/ Len(data) < MinKeySize
       \/ Major(data[1]) # 5
       \/ Additional(data[1]) = 24 /\ Len(data) < 2
    THEN [x |-> <<>>, y |-> <<>>, status |-> "error"]
    ELSE LET s == Fields(data, Start(data))
         IN  [x |-> s.x, y |-> s.y,
              status |-> IF s.status # "run" THEN s.status
                         ELSE IF {Len(s.x), Len(s.y)} # {CoordinateSize}
                         THEN "error" ELSE "ok"]

-----------------------------------------------------------------------------
\* The reference: how CBOR writes a map.  A value is a kind and its bytes: an
\* integer, given by the bytes behind its first one, a byte string or a text.
IntBytes(size) == CASE size = 0 -> <<1>>
                    [] size = 1 -> <<24, 200>>
                    [] size = 2 -> <<25, 1, 2>>
                    [] size = 4 -> <<26, 1, 2, 3, 4>>

StringBytes(major, bytes, long) ==
    (IF long = 0 THEN <<32 * major + Len(bytes)>>
     ELSE IF long = 1 THEN <<32 * major + 24, Len(bytes)>>
     ELSE <<32 * major + 25, 0, Len(bytes)>>) \o bytes

KeyBytes(key) == <<IF key >= 0 THEN key ELSE 32 + (-1 - key)>>

\* fields: pairs of a key and the bytes of its value.
MapBytes(fields, long) ==
    (IF long THEN <<160 + 24, Len(fields)>> ELSE <<160 + Len(fields)>>)
    \o FlattenSeq([i \in DOMAIN fields |-> KeyBytes(fields[i][1]) \o fields[i][2]])
=============================================================================
