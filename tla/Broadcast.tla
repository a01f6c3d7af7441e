----------------------------- MODULE Broadcast -----------------------------
(***************************************************************************)
(* The publish/subscribe hub of pkg/engine/broadcast.go, for one topic.    *)
(*                                                                         *)
(* b.subscribers[topic] is a Go slice: a header (array and length) over a  *)
(* backing array that several headers may share.  Publish copies the header*)
(* under RLock and walks the array after the lock is released; Unsubscribe *)
(* shifts the elements of the same array under Lock.  That data race is    *)
(* modelled as any interleaving of the reads and writes of the elements.   *)
(***************************************************************************)
EXTENDS Integers, SequencesExt

Nil == "nil"

CONSTANTS Channels,     \* the channels Subscribe makes
          Publishers,   \* goroutines that call Publish
          ChannelSize,  \* 64 in the code
          MaxMessages   \* bound: the messages of one publisher

ASSUME BroadcastAssumption ==
    /\ IsFiniteSet(Channels) /\ IsFiniteSet(Publishers)
    /\ ChannelSize \in Nat \ {0}
    /\ MaxMessages \in Nat
    /\ Nil \notin Channels

VARIABLES arrays,  \* the backing arrays, in the order of their allocation
          header,  \* b.subscribers[topic]
          state,   \* of each channel: "new", "open" or "closed"
          buffer,  \* what each channel holds
          unsub,   \* the Unsubscribe that holds the lock
          pub      \* of each publisher: its call of Publish

vars == <<arrays, header, state, buffer, unsub, pub>>

NoCall == [channel |-> Nil, slots |-> <<>>]

\* count is the number of calls; the rest is the slice and the position of the
\* running call and, as history, the channels subscribed when it began, those
\* found full, the copies sent, and whether an Unsubscribe ran meanwhile.
Quiet(n) == [at |-> "out", count |-> n, array |-> 0, len |-> 0, i |-> 0, to |-> Nil,
             first |-> {}, full |-> {}, sent |-> [c \in Channels |-> 0],
             raced |-> FALSE]

Init == /\ arrays = <<>>
        /\ header = [array |-> 0, len |-> 0]
        /\ state = [c \in Channels |-> "new"]
        /\ buffer = [c \in Channels |-> <<>>]
        /\ unsub = NoCall
        /\ pub = [p \in Publishers |-> Quiet(0)]

Unlocked == unsub = NoCall

\* The elements of b.subscribers[topic].
Listed == {arrays[header.array][i] : i \in 1 .. header.len}

(***************************************************************************)
(* Subscribe and Unsubscribe.                                              *)
(***************************************************************************)

\* Mutant: the new channel always replaces the last element of the array.
AppendOver(c) ==
    IF header.len < (IF header.array = 0 THEN 0 ELSE Len(arrays[header.array]))
    THEN /\ arrays' = [arrays EXCEPT ![header.array][header.len] = c]
         /\ header' = header
    ELSE /\ arrays' = Append(arrays,
                [i \in 1 .. (IF header.len = 0 THEN 1 ELSE 2 * header.len) |->
                     IF i <= header.len THEN arrays[header.array][i]
                     ELSE IF i = header.len + 1 THEN c ELSE Nil])
         /\ header' = [array |-> Len(arrays'), len |-> header.len + 1]

\* append: in place while there is room, else into a new array of twice the
\* size.
AppendChannel(c) ==
    IF header.len < (IF header.array = 0 THEN 0 ELSE Len(arrays[header.array]))
    THEN /\ arrays' = [arrays EXCEPT ![header.array][header.len + 1] = c]
         /\ header' = [header EXCEPT !.len = @ + 1]
    ELSE /\ arrays' = Append(arrays,
                [i \in 1 .. (IF header.len = 0 THEN 1 ELSE 2 * header.len) |->
                     IF i <= header.len THEN arrays[header.array][i]
                     ELSE IF i = header.len + 1 THEN c ELSE Nil])
         /\ header' = [array |-> Len(arrays'), len |-> header.len + 1]

Subscribe(c) ==
    /\ Unlocked
    /\ state[c] = "new"
    /\ state' = [state EXCEPT ![c] = "open"]
    /\ AppendChannel(c)
    /\ UNCHANGED <<buffer, unsub, pub>>

\* Unsubscribe takes the lock, finds the channel at i and begins to move the
\* elements behind it.  For a channel it does not find it does nothing.
Unsubscribe(c) ==
    /\ Unlocked
    /\ state[c] # "new" /\ c \in Listed
    /\ LET a == arrays[header.array]
           i == CHOOSE k \in 1 .. header.len :
                    a[k] = c /\ \A m \in 1 .. k - 1 : a[m] # c
       IN  unsub' = [channel |-> c, slots |-> [k \in i .. header.len - 1 |-> a[k + 1]]]
    /\ pub' = [p \in Publishers |-> [pub[p] EXCEPT !.raced = @ \/ pub[p].at # "out"]]
    /\ UNCHANGED <<arrays, header, state, buffer>>

\* One element is moved; the order of the moves is that of the build.
MoveElement ==
    /\ ~Unlocked
    /\ \E k \in DOMAIN unsub.slots :
           /\ arrays' = [arrays EXCEPT ![header.array][k] = unsub.slots[k]]
           /\ unsub' = [unsub EXCEPT !.slots =
                            [m \in DOMAIN @ \ {k} |-> @[m]]]
    /\ UNCHANGED <<header, state, buffer, pub>>

\* The shorter slice is stored, the channel closed and the lock released.
CloseChannel ==
    /\ ~Unlocked /\ DOMAIN unsub.slots = {}
    /\ header' = [header EXCEPT !.len = @ - 1]
    /\ state' = [state EXCEPT ![unsub.channel] = "closed"]
    /\ unsub' = NoCall
    /\ UNCHANGED <<arrays, buffer, pub>>

(***************************************************************************)
(* Publish.                                                                *)
(***************************************************************************)

\* subs := b.subscribers[topic], under RLock.
Publish(p) ==
    /\ Unlocked
    /\ pub[p].at = "out" /\ pub[p].count < MaxMessages
    /\ pub' = [pub EXCEPT ![p] = [Quiet(@.count + 1) EXCEPT
                   !.at = "loop", !.array = header.array, !.len = header.len,
                   !.first = Listed]]
    /\ UNCHANGED <<arrays, header, state, buffer, unsub>>

\* The loop reads the next element, or ends.
NextElement(p) ==
    /\ pub[p].at = "loop"
    /\ pub' = [pub EXCEPT ![p] =
                   IF @.i = @.len THEN [@ EXCEPT !.at = "end"]
                   ELSE [@ EXCEPT !.at = "send", !.i = pub[p].i + 1,
                                  !.to = arrays[pub[p].array][pub[p].i + 1]]]
    /\ UNCHANGED <<arrays, header, state, buffer, unsub>>

Message(p) == [from |-> p, number |-> pub[p].count]

\* Mutant: a publisher ends at the first subscriber that is slow.
SendBreaks(p) ==
    LET c == pub[p].to
    IN  /\ pub[p].at = "send"
        /\ CASE state[c] = "closed" ->
                  /\ pub' = [pub EXCEPT ![p].at = "panic"]
                  /\ UNCHANGED buffer
             [] state[c] = "open" /\ Len(buffer[c]) < ChannelSize ->
                  /\ buffer' = [buffer EXCEPT ![c] = Append(@, Message(p))]
                  /\ pub' = [pub EXCEPT ![p].at = "loop", ![p].sent[c] = @ + 1]
             [] OTHER ->
                  /\ pub' = [pub EXCEPT ![p].at = "end", ![p].full = @ \cup {c}]
                  /\ UNCHANGED buffer
        /\ UNCHANGED <<arrays, header, state, unsub>>

\* The select: a send that does not block, and panics on a closed channel.
Send(p) ==
    LET c == pub[p].to
    IN  /\ pub[p].at = "send"
        /\ CASE state[c] = "closed" ->
                  /\ pub' = [pub EXCEPT ![p].at = "panic"]
                  /\ UNCHANGED buffer
             [] state[c] = "open" /\ Len(buffer[c]) < ChannelSize ->
                  /\ buffer' = [buffer EXCEPT ![c] = Append(@, Message(p))]
                  /\ pub' = [pub EXCEPT ![p].at = "loop", ![p].sent[c] = @ + 1]
             [] OTHER ->
                  /\ pub' = [pub EXCEPT ![p].at = "loop", ![p].full = @ \cup {c}]
                  /\ UNCHANGED buffer
        /\ UNCHANGED <<arrays, header, state, unsub>>

Return(p) ==
    /\ pub[p].at = "end"
    /\ pub' = [pub EXCEPT ![p] = Quiet(@.count)]
    /\ UNCHANGED <<arrays, header, state, buffer, unsub>>

\* A subscriber receives from its channel.
Take(c) ==
    /\ buffer[c] # <<>>
    /\ buffer' = [buffer EXCEPT ![c] = Tail(@)]
    /\ UNCHANGED <<arrays, header, state, unsub, pub>>

-----------------------------------------------------------------------------
Next == \/ \E c \in Channels : Subscribe(c) \/ Unsubscribe(c) \/ Take(c)
        \/ MoveElement \/ CloseChannel
        \/ \E p \in Publishers : Publish(p) \/ NextElement(p) \/ Send(p) \/ Return(p)

Spec == Init /\ [][Next]_vars

-----------------------------------------------------------------------------
Messages == [from : Publishers, number : 1 .. MaxMessages]
Calls == [at : {"out", "loop", "send", "end", "panic"}, count : 0 .. MaxMessages,
          array : Nat, len : Nat, i : Nat, to : Channels \cup {Nil},
          first : SUBSET Channels, full : SUBSET Channels,
          sent : [Channels -> Nat], raced : BOOLEAN]

\* The types; no channel holds more than its size, no publisher walks behind
\* the slice it copied, and a place of the array that it reads has been set.
TypeOK == /\ arrays \in Seq(Seq(Channels \cup {Nil}))
          /\ header \in [array : 0 .. Len(arrays), len : 0 .. Cardinality(Channels)]
          /\ state \in [Channels -> {"new", "open", "closed"}]
          /\ buffer \in [Channels -> Seq(Messages)]
          /\ \A c \in Channels : Len(buffer[c]) <= ChannelSize
          /\ unsub.channel \in Channels \cup {Nil}
          /\ pub \in [Publishers -> Calls]
          /\ \A p \in Publishers :
                 /\ pub[p].i \in 0 .. pub[p].len
                 /\ pub[p].at = "send" => pub[p].to \in Channels

\* Whenever the lock is free the list holds exactly the open channels, each
\* once: no channel is lost by the shifting and appending in a shared array.
ListHoldsOpenChannels ==
    /\ TypeOK
    /\ Unlocked => /\ Listed = {c \in Channels : state[c] = "open"}
                   /\ header.len = Cardinality(Listed)

\* Only an Unsubscribe during the call can spoil a Publish: otherwise each
\* channel that was subscribed when it began has got one copy when it ends, or
\* was full, no other channel has got any, and no publisher has panicked.
UnracedPublishIsExact ==
    \A p \in Publishers :
        /\ pub[p].at = "panic" => pub[p].raced
        /\ pub[p].at = "end" /\ ~pub[p].raced =>
               \A c \in Channels :
                   pub[p].sent[c] = IF c \in pub[p].first \ pub[p].full THEN 1 ELSE 0
=============================================================================
