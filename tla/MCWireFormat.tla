-------------------------- MODULE MCWireFormat --------------------------
(***************************************************************************)
(* Model checking of WireFormat: a buffer into which messages are encoded  *)
(* one after the other.                                                    *)
(***************************************************************************)
EXTENDS WireFormat

CONSTANTS Single,      \* the messages to encode alone
          Several,     \* the messages to encode together
          MaxMessages  \* bound: the messages in one buffer

VARIABLES sent, buffer

Init == sent = <<>> /\ buffer = <<>>

Write(m) == /\ Len(sent) < MaxMessages
            /\ sent' = Append(sent, m)
            /\ buffer' = buffer \o Prefixed(Encode(m))

Next == \/ sent = <<>> /\ \E m \in Single : Write(m)
        \/ ToSet(sent) \subseteq Several /\ \E m \in Several : Write(m)

Spec == Init /\ [][Next]_<<sent, buffer>>

-----------------------------------------------------------------------------
\* Texts up to two bytes, and longer ones on both sides of every limit.
Ones(n) == [i \in 1 .. n |-> 1]
Texts == {<<>>, <<0>>, <<1>>, <<0, 1>>, <<1, 0>>, <<2, 3>>}
             \cup {Ones(n) : n \in {3, 4, 5, 15, 16, 17}}

SampleValues(kind) ==
    CASE kind = "u8"  -> {0, 1, Base - 1}
      [] kind = "u32" -> {0, 1, Base ^ 2}
      [] kind = "challenge" -> {Ones(ChallengeSize)}
      [] OTHER -> Texts

\* The choices of fields, the first ones varied less in long frames.
SampleFields(kinds) ==
    CASE Len(kinds) = 0 -> {<<>>}
      [] Len(kinds) = 1 -> {<<a>> : a \in SampleValues(kinds[1])}
      [] Len(kinds) = 2 -> {<<a, b>> : a \in SampleValues(kinds[1]),
                                       b \in SampleValues(kinds[2])}
      [] Len(kinds) = 3 -> {<<1, a, b>> : a \in SampleValues(kinds[2]),
                                          b \in SampleValues(kinds[3])}
      [] Len(kinds) = 4 /\ kinds[1] = "u32" ->
             {<<1, 2, a, b>> : a \in SampleValues(kinds[3]), b \in SampleValues(kinds[4])}
      [] OTHER -> {<<Ones(1), <<>>, a, b>> : a \in Texts, b \in Texts}

SampleItems(op) ==
    IF ~HasItems(op) THEN {<<>>}
    ELSE {<<>>} \cup {<<x>> : x \in SampleFields(ItemLayout[op])}
                \cup {[i \in 1 .. n |-> IF op = 4 THEN << <<1>>, <<>> >>
                                        ELSE <<1, <<>> >>] : n \in {2, 15, 16, 17}}

PlainMessages ==
    UNION {{Message(op, args, items) : args \in SampleFields(Layout[op]),
                                       items \in SampleItems(op)} : op \in DOMAIN Layout}

AllMessages ==
    PlainMessages
        \cup {Message(OpBatch, <<>>, <<Message(5, <<1>>, <<>>), Message(8, <<t>>, <<>>)>>) :
                  t \in Texts}

\* One message of each kind of frame; OpBatchText is for the client alone.
FewMessages ==
    {Message(OpBatch, <<>>, <<>>),
     Message(OpBatch, <<>>, <<Message(5, <<1>>, <<>>), Message(8, << <<0>> >>, <<>>)>>),
     Message(8, << <<>> >>, <<>>),
     Message(2, <<1, <<1>>, <<0>> >>, <<>>),
     Message(4, <<1, 0, 0, <<2>> >>, << << <<1>>, <<>> >> >>),
     Message(22, <<>>, << <<1, <<0>> >>, <<2, <<>> >> >>),
     Message(10, <<Ones(4)>>, <<>>)}

-----------------------------------------------------------------------------
\* The limits of the format are exactly those of its length fields: a message
\* is decoded to itself if, and only if, every text fits its length field, no
\* name that a zero byte ends has one inside, and the items can be counted; by
\* the server and by the client, for the opcodes they know.
ExactLimits ==
    \A m \in ToSet(sent) : \A ops \in {ServerOps, ClientOps} :
        m.op \in ops => ((Decode(ops, Encode(m)) = Success(m)) <=> Fits(m))

\* Where the frames of the buffer end.
Ends == {Len(FlattenSeq([i \in 1 .. n |-> Prefixed(Encode(sent[i]))])) : n \in 0 .. Len(sent)}

\* Messages that Decode of the server has a case for, in a batch too.
Decodable(m) == /\ m.op \in ServerOps
                /\ m.op = OpBatch => \A i \in DOMAIN m.items : m.items[i].op \in ServerOps

\* The frames of messages that fit can be told apart wherever the data are cut.
\* What DecodeAll returns is a beginning of what was sent; and if Decode has a
\* case for each message, every beginning of the buffer is decoded to exactly
\* the messages that are whole in it, and to an error if and only if the cut is
\* inside a frame.
StreamIntact ==
    (\A m \in ToSet(sent) : Fits(m)) => \A cut \in 0 .. Len(buffer) :
        LET d == DecodeAll(ServerOps, SubSeq(buffer, 1, cut))
        IN  /\ IsPrefix(d.args, sent)
            /\ (\A m \in ToSet(sent) : Decodable(m)) =>
                   /\ Len(d.args) = Cardinality({e \in Ends : e <= cut}) - 1
                   /\ d.ok <=> cut \in Ends
=============================================================================
