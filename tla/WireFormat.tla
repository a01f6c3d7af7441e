----------------------------- MODULE WireFormat -----------------------------
(***************************************************************************)
(* The binary protocol: the encoders of pkg/protocol/buffer.go, the decoder*)
(* of the server (decoder.go) and that of the client (applyOpcodes and     *)
(* applyFrame of pkg/wasm/patch.go).                                       *)
(*                                                                         *)
(* A byte has Base values, 256 in the code, and the length fields wrap as  *)
(* the conversions byte(len) and uint16(len) do.  Texts are sequences of   *)
(* bytes.  A message has an opcode, its fields in their order on the wire  *)
(* and, for some opcodes, a list of items.                                 *)
(***************************************************************************)
EXTENDS Integers, SequencesExt

CONSTANTS Base,          \* the values of a byte
          ChallengeSize  \* 32 in the code

ASSUME WireAssumption == Base \in Nat \ {0, 1} /\ ChallengeSize \in Nat

(***************************************************************************)
(* The layout of each opcode.  Kinds of fields: numbers of one or four     *)
(* bytes, texts behind their length (l8, l16, l32), ended by a zero byte,  *)
(* of fixed size, or up to the end of the frame.                           *)
(***************************************************************************)

TreeLayout ==
    1 :> <<"u32", "rest">>              @@  \* OpUpdateText
    2 :> <<"u32", "zero", "rest">>      @@  \* OpSetAttr
    3 :> <<"u32", "rest">>              @@  \* OpRemoveAttr
    4 :> <<"u32", "u32", "u32", "l8">>  @@  \* OpInsertNode, and attributes
    14 :> <<"u32", "u32", "rest">>      @@  \* OpInsertText
    5 :> <<"u32">>                      @@  \* OpRemoveNode
    7 :> <<"u32", "zero", "rest">>          \* OpSetStyle

ControlLayout ==
    8 :> <<"rest">>                        @@  \* OpPushHistory
    16 :> <<"u32", "u8", "rest">>          @@  \* OpClientIntent
    17 :> <<"rest">>                       @@  \* OpClientNav
    6 :> <<"u32", "u32", "u32", "rest">>   @@  \* OpReplaceText
    10 :> <<"l16">>                        @@  \* OpError
    11 :> <<"l32">>                        @@  \* OpDevToolsState
    0 :> <<"u8", "u8">>                    @@  \* OpHello
    18 :> <<"u8", "u8">>                       \* OpClientHello

AuthAndBulkLayout ==
    12 :> <<"l8", "challenge">>  @@  \* OpAuthChallenge
    13 :> <<"u8", "rest">>       @@  \* OpAuthResult
    15 :> <<"u32", "rest">>      @@  \* OpInsertHTML
    20 :> <<"u32">>              @@  \* OpClearChildren
    21 :> <<"u32", "u32">>       @@  \* OpSwapNodes
    22 :> <<>>                       \* OpBatchText, and updates

\* sendClientAuth; the other client frames have encoders in buffer.go too.
ClientAuthLayout == 19 :> <<"l16", "l16", "l16", "l16">>

Layout == TreeLayout @@ ControlLayout @@ AuthAndBulkLayout @@ ClientAuthLayout
OpBatch == 9

\* The items: the attributes of a node, the updates of a batch of texts.
ItemLayout == 4 :> <<"l16", "l16">> @@ 22 :> <<"u32", "l16">>
HasItems(op) == op \in DOMAIN ItemLayout

Message(op, args, items) == [op |-> op, args |-> args, items |-> items]

(***************************************************************************)
(* Encoding.                                                               *)
(***************************************************************************)

\* n as w bytes, the most significant one first; what does not fit is cut.
Bytes(n, w) == [i \in 1 .. w |-> (n \div Base ^ (w - i)) % Base]

\* Mutant: the length of an error or of an attribute has one byte.
EncodeFieldNarrow(kind, v) ==
    CASE kind = "u8"   -> Bytes(v, 1)
      [] kind = "u32"  -> Bytes(v, 4)
      [] kind \in {"l8", "l16"} -> Bytes(Len(v), 1) \o v
      [] kind = "l32"  -> Bytes(Len(v), 4) \o v
      [] kind = "zero" -> Append(v, 0)
      [] kind \in {"rest", "challenge"} -> v

EncodeField(kind, v) ==
    CASE kind = "u8"   -> Bytes(v, 1)
      [] kind = "u32"  -> Bytes(v, 4)
      [] kind = "l8"   -> Bytes(Len(v), 1) \o v
      [] kind = "l16"  -> Bytes(Len(v), 2) \o v
      [] kind = "l32"  -> Bytes(Len(v), 4) \o v
      [] kind = "zero" -> Append(v, 0)
      [] kind \in {"rest", "challenge"} -> v

EncodeFields(kinds, args) ==
    FlattenSeq([i \in DOMAIN kinds |-> EncodeField(kinds[i], args[i])])

EncodeItems(kinds, items) ==
    Bytes(Len(items), 2)
        \o FlattenSeq([i \in DOMAIN items |-> EncodeFields(kinds, items[i])])

EncodePlain(m) ==
    <<m.op>> \o EncodeFields(Layout[m.op], m.args)
             \o (IF HasItems(m.op) THEN EncodeItems(ItemLayout[m.op], m.items) ELSE <<>>)

\* Mutant: the length counts the prefix itself.
PrefixedLonger(frame) == Bytes(Len(frame) + 4, 4) \o frame

\* beginFrame and endFrame: the length of what follows the four bytes.
Prefixed(frame) == Bytes(Len(frame), 4) \o frame

\* EncodeBatch puts whole frames into one.
Encode(m) ==
    IF m.op = OpBatch
    THEN <<OpBatch>> \o Bytes(Len(m.items), 4)
             \o FlattenSeq([i \in DOMAIN m.items |-> Prefixed(EncodePlain(m.items[i]))])
    ELSE EncodePlain(m)

(***************************************************************************)
(* Decoding.                                                               *)
(***************************************************************************)

Number(bytes) == FoldLeft(LAMBDA n, b : n * Base + b, 0, bytes)

\* What is left of the frame, the fields taken from it, and whether the frame
\* was long enough so far.
Reading(data) == [data |-> data, args |-> <<>>, ok |-> TRUE]
Fail(r)       == [r EXCEPT !.ok = FALSE]

\* The next n bytes are a field, once the w bytes before them are dropped.
Take(r, w, n, value) ==
    [r EXCEPT !.data = SubSeq(@, w + n + 1, Len(@)), !.args = Append(@, value)]

TakeNumber(r, w) ==
    IF Len(r.data) < w THEN Fail(r)
    ELSE Take(r, 0, w, Number(SubSeq(r.data, 1, w)))

TakeText(r, w) ==
    IF Len(r.data) < w THEN Fail(r)
    ELSE LET n == Number(SubSeq(r.data, 1, w))
         IN  IF w + n > Len(r.data) THEN Fail(r)
             ELSE Take(r, w, n, SubSeq(r.data, w + 1, w + n))

\* findNull
TakeZero(r) ==
    LET zeros == {i \in DOMAIN r.data : r.data[i] = 0}
    IN  IF zeros = {} THEN Fail(r)
        ELSE Take(r, 0, Min(zeros), SubSeq(r.data, 1, Min(zeros) - 1))

\* The bytes of a number, or of the length of a text.
Width == [u8 |-> 1, u32 |-> 4, l8 |-> 1, l16 |-> 2, l32 |-> 4]

TakeField(r, kind) ==
    CASE ~r.ok                       -> r
      [] kind \in {"u8", "u32"}      -> TakeNumber(r, Width[kind])
      [] kind \in {"l8", "l16", "l32"} -> TakeText(r, Width[kind])
      [] kind = "zero"               -> TakeZero(r)
      [] kind = "rest"               -> Take(r, 0, Len(r.data), r.data)
      [] kind = "challenge" ->
             IF Len(r.data) < ChallengeSize THEN Fail(r)
             ELSE Take(r, 0, ChallengeSize, SubSeq(r.data, 1, ChallengeSize))

TakeFields(r, kinds) == FoldLeft(TakeField, r, kinds)

\* One item more, its fields read by item.
Nest(r, item) == IF ~item.ok THEN Fail(r)
                 ELSE [item EXCEPT !.args = Append(r.args, item.args)]

\* The items: their number has been read into count.
TakeItems(count, kinds) ==
    IF ~count.ok THEN count
    ELSE FoldLeft(LAMBDA r, k : IF ~r.ok THEN r
                                ELSE Nest(r, TakeFields(Reading(r.data), kinds)),
                  Reading(count.data), [k \in 1 .. count.args[1] |-> k])

Failure == [ok |-> FALSE, message |-> Message(0, <<>>, <<>>)]
Success(m) == [ok |-> TRUE, message |-> m]

WithItems(op, args, items) ==
    IF ~items.ok THEN Failure ELSE Success(Message(op, args, items.args))

WithFields(op, fields) ==
    IF ~fields.ok THEN Failure
    ELSE IF ~HasItems(op) THEN Success(Message(op, fields.args, <<>>))
    ELSE WithItems(op, fields.args,
                   TakeItems(TakeNumber(Reading(fields.data), 2), ItemLayout[op]))

\* A decoder that has cases for the opcodes ops.
DecodePlain(ops, data) ==
    IF data = <<>> \/ data[1] \notin ops \cap DOMAIN Layout THEN Failure
    ELSE WithFields(data[1], TakeFields(Reading(Tail(data)), Layout[data[1]]))

\* DecodeFrame: the frame is delimited by its prefix.
Frame(data) ==
    LET n == Number(SubSeq(data, 1, 4))
    IN  IF Len(data) < 4 THEN [ok |-> FALSE]
        ELSE IF Len(data) < 4 + n THEN [ok |-> FALSE]
        ELSE [ok |-> TRUE, frame |-> SubSeq(data, 5, 4 + n),
              rest |-> SubSeq(data, 5 + n, Len(data))]

\* The loop of DecodeAll and of decodeN: up to limit frames, to the end of the
\* data or to the first that is cut off.
NextFrame(s, f) == IF ~f.ok THEN Fail(s)
                   ELSE [s EXCEPT !.data = f.rest, !.args = Append(@, f.frame)]

Frames(data, limit) ==
    FoldLeft(LAMBDA s, k : IF ~s.ok \/ s.data = <<>> THEN s
                           ELSE NextFrame(s, Frame(s.data)),
             Reading(data), [k \in 1 .. Min({limit, Len(data)}) |-> k])

\* decodeN: all of the frames of a batch, plain is what each is decoded to.
BatchOf(count, frames, plain) ==
    IF frames.ok /\ Len(plain) = count /\ \A i \in DOMAIN plain : plain[i].ok
    THEN Success(Message(OpBatch, <<>>, [i \in DOMAIN plain |-> plain[i].message]))
    ELSE Failure

DecodeN(ops, count, frames) ==
    BatchOf(count, frames,
            [i \in DOMAIN frames.args |-> DecodePlain(ops, frames.args[i])])

DecodeBatch(ops, count) ==
    IF ~count.ok THEN Failure
    ELSE DecodeN(ops, count.args[1], Frames(count.data, count.args[1]))

\* Decode of one frame, a batch or a plain one.
Decode(ops, data) ==
    IF data # <<>> /\ data[1] = OpBatch
    THEN DecodeBatch(ops, TakeNumber(Reading(Tail(data)), 4))
    ELSE DecodePlain(ops, data)

\* DecodeAll returns what it decoded before the first error.
BeforeError(ok, decoded) ==
    LET good == {i \in DOMAIN decoded : \A j \in 1 .. i : decoded[j].ok}
    IN  [ok   |-> ok /\ good = DOMAIN decoded,
         args |-> [i \in good |-> decoded[i].message]]

DecodeFrames(ops, frames) ==
    BeforeError(frames.ok, [i \in DOMAIN frames.args |-> Decode(ops, frames.args[i])])

DecodeAll(ops, data) == DecodeFrames(ops, Frames(data, Len(data)))

\* The opcodes that Decode of the server has a case for, and those of the
\* client's applyFrame.
ServerOps == (0 .. 13) \cup (16 .. 19)
ClientOps == (0 .. 15) \cup (20 .. 22)

-----------------------------------------------------------------------------
\* The messages that the format can carry.
FieldFits(kind, v) ==
    CASE kind = "u8"   -> v < Base
      [] kind = "u32"  -> v < Base ^ 4
      [] kind = "l8"   -> Len(v) < Base
      [] kind = "l16"  -> Len(v) < Base ^ 2
      [] kind = "l32"  -> Len(v) < Base ^ 4
      [] kind = "zero" -> 0 \notin ToSet(v)
      [] kind = "rest" -> TRUE
      [] kind = "challenge" -> Len(v) = ChallengeSize

FieldsFit(kinds, args) == \A i \in DOMAIN kinds : FieldFits(kinds[i], args[i])

FitsPlain(m) ==
    /\ FieldsFit(Layout[m.op], m.args)
    /\ Len(m.items) < Base ^ 2
    /\ \A i \in DOMAIN m.items : FieldsFit(ItemLayout[m.op], m.items[i])

Fits(m) == IF m.op = OpBatch THEN \A i \in DOMAIN m.items : FitsPlain(m.items[i])
           ELSE FitsPlain(m)
=============================================================================
