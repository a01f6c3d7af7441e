--------------------------- MODULE IntentsProofs ---------------------------
(***************************************************************************)
(* Proofs about RateLimiter, for every burst, rate and unit, and about     *)
(* Intents, for every limiter, any links, and any number of messages and   *)
(* challenges.                                                             *)
(***************************************************************************)
EXTENDS Intents, FiniteSetTheorems, TLAPS

(***************************************************************************)
(* The rate limiter by itself.                                             *)
(***************************************************************************)

\* The products that the model uses are natural numbers, and one tick more
\* adds one Rate.
LEMMA Products ==
  /\ MaxTokens \in Nat
  /\ \A n \in Nat : Rate * n \in Nat /\ n * Rate = Rate * n
  /\ \A n \in Nat : Rate * (n + 1) = Rate * n + Rate
BY LimiterAssumption DEF MaxTokens

\* The bucket after its refill is between nothing and the burst.
LEMMA RefillBounds ==
  ASSUME TypeOK
  PROVE  /\ Refill \in 0 .. MaxTokens
         /\ now - lastTime \in Nat
         /\ Refill = IF tokens + Rate * (now - lastTime) > MaxTokens
                     THEN MaxTokens ELSE tokens + Rate * (now - lastTime)
<1>1. now - lastTime \in Nat
  BY DEF TypeOK
<1>2. Rate * (now - lastTime) \in Nat /\ (now - lastTime) * Rate = Rate * (now - lastTime)
  BY <1>1, Products
<1>3. QED
  <2>1. tokens \in 0 .. MaxTokens /\ MaxTokens \in Nat
    BY Products DEF TypeOK
  <2>2. QED
    BY <1>1, <1>2, <2>1 DEF Refill

\* The initial state satisfies the inductive invariant.
LEMMA LimiterInit == Init => LimiterInv
<1> SUFFICES ASSUME Init PROVE LimiterInv
  OBVIOUS
<1>1. TypeOK
  BY Products, LimiterAssumption DEF Init, TypeOK
<1>2. Refill = MaxTokens
  BY <1>1, RefillBounds, Products DEF Init
<1>3. Rate * (0 - 0) = 0
  BY LimiterAssumption
<1>4. QED
  BY <1>1, <1>2, <1>3, Products, LimiterAssumption
  DEF Init, LimiterInv, Potential, NoCreditLost

\* A tick adds at most Rate to the bucket, and opens a window that begins with
\* at most a full bucket.
LEMMA TickStep ==
  ASSUME LimiterInv, Tick
  PROVE  LimiterInv'
<1> USE DEF Tick
<1>1. TypeOK
  BY DEF LimiterInv
<1>2. TypeOK'
  BY <1>1, LimiterAssumption DEF TypeOK
<1>3. /\ now' = now + 1 /\ now \in Nat /\ spent' = spent
      /\ lastTime' = lastTime /\ tokens' = tokens /\ lastGrant' = lastGrant
      /\ now - lastTime \in Nat /\ now - lastGrant \in Nat
      /\ lastTime \in Nat /\ lastGrant \in Nat /\ tokens \in Nat /\ spent \in Nat
  BY <1>1, Products DEF TypeOK
<1>4. /\ Rate * (now' - lastTime) = Rate * (now - lastTime) + Rate
      /\ Rate * (now' - lastGrant) = Rate * (now - lastGrant) + Rate
  <2>1. now' - lastTime = (now - lastTime) + 1 /\ now' - lastGrant = (now - lastGrant) + 1
    BY <1>3
  <2>2. QED
    BY <1>3, <2>1, Products
<1>5. /\ Refill' = IF tokens + Rate * (now' - lastTime) > MaxTokens
                   THEN MaxTokens ELSE tokens + Rate * (now' - lastTime)
      /\ Refill' \in 0 .. MaxTokens
  <2>1. (now' - lastTime) * Rate = Rate * (now' - lastTime) /\ Rate * (now' - lastTime) \in Nat
    <3>1. now' - lastTime \in Nat
      BY <1>3
    <3>2. QED
      BY <3>1, Products
  <2>2. QED
    BY <1>3, <2>1, Products DEF Refill
<1>6. Refill' <= Refill + Rate /\ (Refill' < MaxTokens => Refill' = Refill + Rate)
  BY <1>1, <1>3, <1>4, <1>5, RefillBounds, Products, LimiterAssumption
<1>7. ASSUME NEW t \in 0 .. now'
      PROVE  spentAt'[t] <= spent' /\ Potential(t)' <= MaxTokens + Rate * (now' - t)
  <2>1. CASE t = now'
    <3>1. spentAt'[t] = spent
      BY <1>3, <2>1, <1>1, LimiterAssumption DEF TypeOK
    <3>2. Rate * (now' - t) = 0
      BY <2>1, <1>3, LimiterAssumption
    <3>3. QED
      BY <3>1, <3>2, <1>3, <1>5, Products DEF Potential
  <2>2. CASE t # now'
    <3>1. t \in 0 .. now /\ spentAt'[t] = spentAt[t] /\ spentAt[t] \in Nat
      BY <1>1, <1>3, <1>7, <2>2, LimiterAssumption DEF TypeOK
    <3>2. Rate * (now' - t) = Rate * (now - t) + Rate /\ Rate * (now - t) \in Nat
      <4>1. now - t \in Nat /\ now' - t = (now - t) + 1
        BY <1>3, <3>1
      <4>2. QED
        BY <4>1, Products
    <3>3. spentAt[t] <= spent /\ spent - spentAt[t] + Refill <= MaxTokens + Rate * (now - t)
      BY <3>1 DEF LimiterInv, Potential
    <3>4. QED
      BY <1>1, <1>3, <1>5, <1>6, <3>1, <3>2, <3>3, RefillBounds, Products, LimiterAssumption
      DEF Potential
  <2>3. QED
    BY <2>1, <2>2
<1>8. NoCreditLost'
  BY <1>1, <1>3, <1>4, <1>5, <1>6, RefillBounds, Products, LimiterAssumption
  DEF LimiterInv, NoCreditLost
<1>9. QED
  BY <1>2, <1>7, <1>8 DEF LimiterInv

\* After a call the bucket holds what it was left with.
LEMMA RefillAfterCall ==
  ASSUME TypeOK, tokens' \in 0 .. MaxTokens, lastTime' = now, now' = now
  PROVE  Refill' = tokens'
<1>1. (now' - lastTime') * Rate = 0
  BY LimiterAssumption DEF TypeOK
<1>2. QED
  BY <1>1, Products DEF Refill

\* A granted call moves one token from the bucket to what was granted.
LEMMA GrantStep ==
  ASSUME LimiterInv, AllowGrants
  PROVE  LimiterInv'
<1>1. TypeOK
  BY DEF LimiterInv
<1>2. /\ tokens' = Refill - Unit /\ Refill \in 0 .. MaxTokens /\ Refill >= Unit
      /\ lastTime' = now /\ now' = now /\ spent' = spent + Unit
      /\ spentAt' = spentAt /\ lastGrant' = now /\ spent \in Nat
  BY <1>1, RefillBounds DEF AllowGrants, Available, TypeOK
<1>3. TypeOK'
  BY <1>1, <1>2, Products, LimiterAssumption DEF TypeOK
<1>4. Refill' = Refill - Unit
  BY <1>1, <1>2, <1>3, RefillAfterCall DEF TypeOK
<1>5. ASSUME NEW t \in 0 .. now'
      PROVE  spentAt'[t] <= spent' /\ Potential(t)' <= MaxTokens + Rate * (now' - t)
  <2>1. spentAt[t] \in Nat /\ t \in 0 .. now
    BY <1>1, <1>2, <1>5, LimiterAssumption DEF TypeOK
  <2>2. spentAt[t] <= spent /\ spent - spentAt[t] + Refill <= MaxTokens + Rate * (now - t)
    BY <2>1 DEF LimiterInv, Potential
  <2>3. Potential(t)' = Potential(t)
    BY <1>2, <1>4, <2>1, LimiterAssumption DEF Potential
  <2>4. QED
    BY <1>2, <2>1, <2>2, <2>3, LimiterAssumption DEF Potential
<1>6. NoCreditLost'
  <2>1. Rate * (now' - lastGrant') = 0
    BY <1>1, <1>2, LimiterAssumption DEF TypeOK
  <2>2. QED
    BY <1>2, <1>4, <2>1, LimiterAssumption DEF NoCreditLost
<1>7. QED
  BY <1>3, <1>5, <1>6 DEF LimiterInv

\* A refused call changes how the bucket is written down, not what it holds.
LEMMA RefuseStep ==
  ASSUME LimiterInv, AllowRefuses
  PROVE  LimiterInv'
<1>1. TypeOK
  BY DEF LimiterInv
<1>2. /\ tokens' = Refill /\ Refill \in 0 .. MaxTokens
      /\ lastTime' = now /\ now' = now /\ spent' = spent
      /\ spentAt' = spentAt /\ lastGrant' = lastGrant
  BY <1>1, RefillBounds DEF AllowRefuses
<1>3. TypeOK'
  BY <1>1, <1>2 DEF TypeOK
<1>4. Refill' = Refill
  BY <1>1, <1>2, RefillAfterCall
<1>5. QED
  BY <1>2, <1>3, <1>4 DEF LimiterInv, Potential, NoCreditLost

\* Every step of the limiter keeps the invariant.
LEMMA LimiterNext ==
  ASSUME LimiterInv, [Next]_vars
  PROVE  LimiterInv'
<1>1. CASE UNCHANGED vars
  BY <1>1 DEF vars, LimiterInv, TypeOK, Potential, NoCreditLost, Refill
<1>2. QED
  BY <1>1, TickStep, GrantStep, RefuseStep DEF Next

\* LimiterInv is an invariant of the limiter.
THEOREM LimiterInvariant == Spec => []LimiterInv
<1>1. LimiterInv /\ [Next]_vars => LimiterInv'
  BY LimiterNext
<1>2. QED
  BY LimiterInit, <1>1, PTL DEF Spec

\* The bucket always holds between nothing and the burst.
THEOREM LimiterTypeCorrect == Spec => []TypeOK
<1>1. LimiterInv => TypeOK
  BY DEF LimiterInv
<1>2. QED
  BY LimiterInvariant, <1>1, PTL

\* In every window the limiter lets through at most a burst and what the rate
\* adds in the window.
THEOREM WindowBounded == Spec => []WindowBound
<1>1. LimiterInv => WindowBound
  <2> SUFFICES ASSUME LimiterInv, NEW t \in 0 .. now
               PROVE  spent - spentAt[t] <= MaxTokens + Rate * (now - t)
    BY DEF WindowBound
  <2>1. TypeOK /\ Potential(t) <= MaxTokens + Rate * (now - t)
    BY DEF LimiterInv
  <2>2. now - t \in Nat /\ spent \in Nat /\ spentAt[t] \in Nat
    BY <2>1, LimiterAssumption DEF TypeOK
  <2>3. QED
    BY <2>1, <2>2, RefillBounds, Products DEF Potential
<1>2. QED
  BY LimiterInvariant, <1>1, PTL

\* Refused calls do not delay the next token.
THEOREM CreditKept == Spec => []NoCreditLost
<1>1. LimiterInv => NoCreditLost
  BY DEF LimiterInv
<1>2. QED
  BY LimiterInvariant, <1>1, PTL

(***************************************************************************)
(* The inductive invariant.                                                *)
(***************************************************************************)

Ops   == {"hello", "devtools", "hover", "click", "auth", "long"}
Fates == {"waiting", "done", "dropped", "vetoed", "ignored", "unsent",
           "answered", "delivered"}
MessageRecords == [op : Ops, arg : Links \cup Nat, fate : Fates]
Frames  == [op : {"hello", "challenge", "answer"}, number : Nat]
Readers == [at : {"idle", "lookup", "verified", "stopped"}, message : Nat,
            judged : Nat, ok : BOOLEAN]

\* The number of messages that have been read.
ReadCount == Len(messages) - Len(toServer)

\* The reader has an assertion in its hands.
Judging == reader.at \in {"lookup", "verified"}

\* The client's stream: what is in toServer are the last messages, in order, and
\* each message that was read has been counted, and paid for if it was let through.
StreamInv ==
    /\ messages \in Seq(MessageRecords)
    /\ toServer \in Seq(Nat) /\ Len(toServer) <= Len(messages)
    /\ \A i \in 1 .. Len(toServer) : toServer[i] = ReadCount + i
    /\ \A m \in 1 .. Len(messages) :
           /\ m > ReadCount => messages[m].fate = "waiting"
           /\ messages[m].op = "hover" => messages[m].arg \in Links
           /\ messages[m].op = "auth" => messages[m].arg \in 1 .. begun
    /\ total \in Nat /\ dropped \in Nat /\ total + dropped = ReadCount
    /\ spent = Unit * total

\* The session and the frames it has sent.
SessionInv ==
    /\ begun \in 0 .. MaxChallenges /\ pending \in 0 .. begun
    /\ prompts \subseteq 1 .. begun
    /\ cache \subseteq Links /\ IsFiniteSet(cache) /\ Cardinality(cache) <= CacheLimit
    /\ toClient \subseteq Frames
    /\ \A f \in toClient : /\ f.op = "challenge" => f.number \in 1 .. begun
                           /\ f.op = "answer" => f.number \in 1 .. ReadCount
    /\ reader \in Readers
    /\ Judging => /\ reader.message \in 1 .. ReadCount
                  /\ messages[reader.message].op = "auth"
                  /\ pending # 0
    /\ reader.at = "verified" => reader.judged \in 1 .. pending
    /\ overlapped \in BOOLEAN

\* The challenges that have a verdict are older than the one that is pending and
\* the one that is being judged.
VerdictInv ==
    /\ \A v \in verdicts :
           /\ v.judged \in 1 .. begun
           /\ pending # 0 => v.judged < pending
           /\ reader.at = "verified" => v.judged < reader.judged
    /\ \A v, w \in verdicts : v.judged = w.judged => v = w

\* The four places of a challenge or an assertion that is on the way.
Assertions == {m \in 1 .. Len(messages) : m > ReadCount /\ messages[m].op = "auth"}
Asked    == prompts # {}
Framed   == \E f \in toClient : f.op = "challenge"
Streamed == Assertions # {}

\* Without an overlap one challenge at most is on the way, in one place; it is
\* the last, and pending.
FlightInv ==
    ~overlapped =>
        /\ Asked \/ Framed \/ Streamed \/ Judging => pending = begun
        /\ ~(Asked /\ Framed) /\ ~(Asked /\ Streamed) /\ ~(Framed /\ Streamed)
        /\ Judging => ~Asked /\ ~Framed /\ ~Streamed
        /\ prompts \subseteq {begun}
        /\ \A f \in toClient : f.op = "challenge" => f.number = begun
        /\ \A m \in Assertions : messages[m].arg = begun
        /\ \A m, k \in Assertions : m = k
        /\ Judging => messages[reader.message].arg = begun
        /\ reader.at = "verified" => reader.judged = begun
        /\ AssertionsJudged

HandlingInv == StreamInv /\ SessionInv /\ VerdictInv /\ FlightInv

IntentInv == LimiterInv /\ HandlingInv

(***************************************************************************)
(* The stream of the client.                                               *)
(***************************************************************************)

\* The types that the proofs use most.
LEMMA StreamTypes ==
  ASSUME StreamInv
  PROVE  /\ Len(messages) \in Nat /\ Len(toServer) \in Nat /\ ReadCount \in 0 .. Len(messages)
         /\ DOMAIN messages = 1 .. Len(messages) /\ DOMAIN toServer = 1 .. Len(toServer)
         /\ \A m \in 1 .. Len(messages) : messages[m] \in MessageRecords
BY DEF StreamInv, ReadCount

\* The message that the session reads next has been sent and not been read.
LEMMA NextMessage ==
  ASSUME StreamInv, toServer # <<>>
  PROVE  /\ Head(toServer) \in 1 .. Len(messages)
         /\ messages[Head(toServer)] \in MessageRecords
         /\ messages[Head(toServer)].op \in Ops
<1>1. /\ Len(messages) \in Nat /\ Len(toServer) \in Nat /\ ReadCount \in Nat
      /\ ReadCount + Len(toServer) = Len(messages)
      /\ \A m \in 1 .. Len(messages) : messages[m] \in MessageRecords
  BY StreamTypes DEF ReadCount
<1>2. Len(toServer) >= 1 /\ Head(toServer) = toServer[1]
  BY DEF StreamInv
<1>3. toServer[1] = ReadCount + 1
  BY <1>1, <1>2 DEF StreamInv
<1>4. Head(toServer) \in 1 .. Len(messages)
  BY <1>1, <1>2, <1>3
<1>5. QED
  BY <1>1, <1>4 DEF MessageRecords

\* Read, as the model has it, are the first messages.
LEMMA ReadIsPrefix ==
  ASSUME StreamInv
  PROVE  Read = 1 .. ReadCount /\ Cardinality(Read) = ReadCount
<1>1. /\ Len(messages) \in Nat /\ Len(toServer) \in Nat /\ ReadCount \in 0 .. Len(messages)
      /\ DOMAIN messages = 1 .. Len(messages) /\ DOMAIN toServer = 1 .. Len(toServer)
      /\ Len(messages) = ReadCount + Len(toServer)
      /\ \A i \in 1 .. Len(toServer) : toServer[i] = ReadCount + i
  BY StreamTypes DEF StreamInv, ReadCount
<1>2. ASSUME NEW m \in 1 .. Len(messages), m > ReadCount
      PROVE  \E i \in 1 .. Len(toServer) : toServer[i] = m
  <2>1. m - ReadCount \in 1 .. Len(toServer) /\ ReadCount + (m - ReadCount) = m
    BY <1>1, <1>2
  <2>2. QED
    BY <1>1, <2>1
<1>3. Read = 1 .. ReadCount
  BY <1>1, <1>2 DEF Read
<1>4. Cardinality(1 .. ReadCount) = ReadCount
  BY <1>1, FS_Interval
<1>5. QED
  BY <1>3, <1>4

\* InFlight, as the model has it: one of the four places is taken.
LEMMA InFlightPlaces ==
  ASSUME StreamInv
  PROVE  InFlight <=> Asked \/ Framed \/ Streamed \/ Judging
<1>1. /\ Len(messages) \in Nat /\ Len(toServer) \in Nat /\ ReadCount \in 0 .. Len(messages)
      /\ DOMAIN toServer = 1 .. Len(toServer)
      /\ Len(messages) = ReadCount + Len(toServer)
      /\ \A i \in 1 .. Len(toServer) : toServer[i] = ReadCount + i
  BY StreamTypes DEF StreamInv, ReadCount
<1>2. ASSUME NEW m \in Assertions
      PROVE  \E i \in DOMAIN toServer : messages[toServer[i]].op = "auth"
  <2>1. m - ReadCount \in 1 .. Len(toServer) /\ ReadCount + (m - ReadCount) = m
    BY <1>1 DEF Assertions
  <2>2. QED
    BY <1>1, <2>1 DEF Assertions
<1>3. ASSUME NEW i \in DOMAIN toServer, messages[toServer[i]].op = "auth"
      PROVE  toServer[i] \in Assertions
  BY <1>1, <1>3 DEF Assertions
<1>4. QED
  BY <1>2, <1>3 DEF InFlight, Asked, Framed, Streamed, Judging

\* A message is sent: it is the last, and waits.
LEMMA SendFacts ==
  ASSUME StreamInv, NEW msg \in MessageRecords, Send(msg), msg.fate = "waiting",
         msg.op = "hover" => msg.arg \in Links,
         msg.op = "auth" => msg.arg \in 1 .. begun,
         UNCHANGED <<begun, total, dropped, spent>>
  PROVE  /\ StreamInv' /\ ReadCount' = ReadCount
         /\ \A m \in 1 .. Len(messages) : messages'[m] = messages[m]
         /\ messages'[Len(messages) + 1] = msg
         /\ Assertions' = IF msg.op = "auth" THEN Assertions \cup {Len(messages) + 1}
                          ELSE Assertions
         /\ Len(messages') = Len(messages) + 1
<1> DEFINE n == Len(messages)
           k == Len(toServer)
<1>1. /\ n \in Nat /\ k \in Nat /\ ReadCount \in 0 .. n /\ ReadCount = n - k
      /\ messages \in Seq(MessageRecords) /\ toServer \in Seq(Nat)
  BY StreamTypes DEF StreamInv, ReadCount
<1>2. messages' = Append(messages, msg) /\ toServer' = Append(toServer, Len(messages'))
  BY DEF Send
<1> HIDE DEF n, k
<1>3. /\ messages' \in Seq(MessageRecords) /\ Len(messages') = n + 1
      /\ \A m \in 1 .. n : messages'[m] = messages[m]
      /\ messages'[n + 1] = msg
  BY <1>1, <1>2 DEF n
<1>4. /\ toServer' \in Seq(Nat) /\ Len(toServer') = k + 1
      /\ \A i \in 1 .. k : toServer'[i] = toServer[i]
      /\ toServer'[k + 1] = n + 1
  BY <1>1, <1>2, <1>3 DEF k
<1>5. ReadCount' = ReadCount
  <2>1. ReadCount' = Len(messages') - Len(toServer')
    BY DEF ReadCount
  <2>2. QED
    BY <1>1, <1>3, <1>4, <2>1
<1>6. \A m \in 1 .. n + 1 : m \in 1 .. n \/ m = n + 1
  BY <1>1
<1>7. \A i \in 1 .. k + 1 : toServer'[i] = ReadCount + i
  <2>1. \A i \in 1 .. k : toServer[i] = ReadCount + i
    BY DEF StreamInv, k
  <2>2. \A i \in 1 .. k + 1 : i \in 1 .. k \/ i = k + 1
    BY <1>1
  <2>3. n + 1 = ReadCount + (k + 1)
    BY <1>1
  <2>4. QED
    BY <1>4, <2>1, <2>2, <2>3
<1>8. ASSUME NEW m \in 1 .. n + 1
      PROVE  /\ m > ReadCount => messages'[m].fate = "waiting"
             /\ messages'[m].op = "hover" => messages'[m].arg \in Links
             /\ messages'[m].op = "auth" => messages'[m].arg \in 1 .. begun
  BY <1>3, <1>6 DEF StreamInv, n
<1>9. StreamInv'
  BY <1>1, <1>3, <1>4, <1>5, <1>7, <1>8 DEF StreamInv, n, k
<1>10. Assertions' = IF msg.op = "auth" THEN Assertions \cup {n + 1} ELSE Assertions
  <2>1. Assertions' = {m \in 1 .. n + 1 : m > ReadCount /\ messages'[m].op = "auth"}
    BY <1>3, <1>5 DEF Assertions
  <2>2. n + 1 \in 1 .. n + 1 /\ n + 1 > ReadCount /\ 1 .. n \subseteq 1 .. n + 1 /\ n + 1 \notin 1 .. n
    BY <1>1
  <2>3. Assertions = {m \in 1 .. n : m > ReadCount /\ messages'[m].op = "auth"}
    BY <1>3 DEF Assertions, n
  <2>4. QED
    BY <1>3, <1>6, <2>1, <2>2, <2>3
<1>11. QED
  BY <1>3, <1>5, <1>9, <1>10 DEF n

\* A message is given another fate.
LEMMA FateFacts ==
  ASSUME StreamInv, NEW m \in 1 .. Len(messages), NEW f \in Fates, Fate(m, f)
  PROVE  /\ messages' \in Seq(MessageRecords) /\ Len(messages') = Len(messages)
         /\ messages'[m].fate = f
         /\ \A j \in 1 .. Len(messages) :
                /\ messages'[j].op = messages[j].op /\ messages'[j].arg = messages[j].arg
                /\ j # m => messages'[j] = messages[j]
<1>1. /\ messages \in Seq(MessageRecords) /\ messages[m] \in MessageRecords
      /\ messages' = [messages EXCEPT ![m] = [messages[m] EXCEPT !.fate = f]]
  BY StreamTypes DEF StreamInv, Fate
<1> DEFINE r == [messages[m] EXCEPT !.fate = f]
<1>2. /\ r \in MessageRecords /\ r.fate = f
      /\ r.op = messages[m].op /\ r.arg = messages[m].arg
  BY <1>1 DEF MessageRecords
<1> HIDE DEF MessageRecords
<1>3. messages' = [messages EXCEPT ![m] = r]
  BY <1>1
<1> HIDE DEF r
<1>4. /\ messages' \in Seq(MessageRecords) /\ Len(messages') = Len(messages)
      /\ messages'[m] = r
      /\ \A j \in 1 .. Len(messages) : j # m => messages'[j] = messages[j]
  BY <1>1, <1>2, <1>3
<1>5. QED
  BY <1>2, <1>4

\* A message that was read gets its answer or learns its fate: the stream stays.
LEMMA FateOfRead ==
  ASSUME StreamInv, NEW m \in 1 .. ReadCount, NEW f \in Fates, Fate(m, f),
         UNCHANGED <<toServer, total, dropped, spent, begun>>
  PROVE  StreamInv' /\ ReadCount' = ReadCount /\ Assertions' = Assertions
<1>1. /\ Len(messages) \in Nat /\ ReadCount \in 0 .. Len(messages) /\ m \in 1 .. Len(messages)
      /\ \A j \in 1 .. Len(messages) : j > ReadCount => j # m
  BY StreamTypes
<1>2. /\ messages' \in Seq(MessageRecords) /\ Len(messages') = Len(messages)
      /\ \A j \in 1 .. Len(messages) :
             /\ messages'[j].op = messages[j].op /\ messages'[j].arg = messages[j].arg
             /\ j # m => messages'[j] = messages[j]
  BY <1>1, FateFacts
<1>3. ReadCount' = ReadCount
  BY <1>2 DEF ReadCount
<1>4. ASSUME NEW j \in 1 .. Len(messages)
      PROVE  /\ j > ReadCount => messages'[j].fate = "waiting"
             /\ messages'[j].op = "hover" => messages'[j].arg \in Links
             /\ messages'[j].op = "auth" => messages'[j].arg \in 1 .. begun
  BY <1>1, <1>2 DEF StreamInv
<1>5. StreamInv'
  BY <1>2, <1>3, <1>4 DEF StreamInv
<1>6. QED
  BY <1>2, <1>3, <1>5 DEF Assertions

\* The next message is read: it is the first that waits, and leaves the stream.
LEMMA ReadFacts ==
  ASSUME StreamInv, toServer # <<>>, toServer' = Tail(toServer), spent' = Unit * total',
         messages' \in Seq(MessageRecords), Len(messages') = Len(messages),
         \A j \in 1 .. Len(messages) :
             /\ messages'[j].op = messages[j].op /\ messages'[j].arg = messages[j].arg
             /\ j # Head(toServer) => messages'[j] = messages[j],
         total' \in Nat, dropped' \in Nat, total' + dropped' = total + dropped + 1,
         begun \in Nat, begun' \in Nat, begun <= begun'
  PROVE  /\ StreamInv' /\ Head(toServer) = ReadCount + 1 /\ ReadCount' = ReadCount + 1
         /\ Head(toServer) \in 1 .. Len(messages)
         /\ Assertions' = Assertions \ {Head(toServer)}
         /\ Head(toServer) \in Assertions <=> messages[Head(toServer)].op = "auth"
<1> DEFINE n == Len(messages)
           k == Len(toServer)
           h == Head(toServer)
<1>1. /\ n \in Nat /\ k \in Nat /\ ReadCount \in 0 .. n /\ ReadCount = n - k
      /\ toServer \in Seq(Nat)
      /\ \A i \in 1 .. k : toServer[i] = ReadCount + i
  BY StreamTypes DEF StreamInv, ReadCount
<1> HIDE DEF n, k, h
<1>2. /\ k > 0 /\ h = toServer[1]
      /\ toServer' \in Seq(Nat) /\ Len(toServer') = k - 1
      /\ \A i \in 1 .. k - 1 : toServer'[i] = toServer[i + 1]
  BY <1>1 DEF k, h
<1>3. h = ReadCount + 1 /\ h \in 1 .. n /\ ReadCount' = ReadCount + 1
  BY <1>1, <1>2 DEF ReadCount, n, k
<1>4. \A i \in 1 .. k - 1 : toServer'[i] = ReadCount' + i
  BY <1>1, <1>2, <1>3
<1>5. ASSUME NEW m \in 1 .. n
      PROVE  /\ m > ReadCount' => messages'[m].fate = "waiting"
             /\ messages'[m].op = "hover" => messages'[m].arg \in Links
             /\ messages'[m].op = "auth" => messages'[m].arg \in 1 .. begun'
  <2>1. /\ m > ReadCount => messages[m].fate = "waiting"
        /\ messages[m].op = "hover" => messages[m].arg \in Links
        /\ messages[m].op = "auth" => messages[m].arg \in 1 .. begun
    BY DEF StreamInv, n
  <2>2. m > ReadCount' => m > ReadCount /\ messages'[m] = messages[m]
    <3>1. m > ReadCount' => m > ReadCount /\ m # h
      BY <1>1, <1>3
    <3>2. m # h => messages'[m] = messages[m]
      BY DEF n, h
    <3>3. QED
      BY <3>1, <3>2
  <2>3. 1 .. begun \subseteq 1 .. begun'
    OBVIOUS
  <2>4. messages'[m].op = messages[m].op /\ messages'[m].arg = messages[m].arg
    BY DEF n
  <2>5. QED
    BY <2>1, <2>2, <2>3, <2>4
<1>6. total' + dropped' = ReadCount'
  BY <1>1, <1>3 DEF StreamInv
<1>7. StreamInv'
  <2>1. Len(messages') = n /\ Len(toServer') <= Len(messages')
    BY <1>1, <1>2 DEF n
  <2>2. QED
    BY <1>2, <1>4, <1>5, <1>6, <2>1 DEF StreamInv
<1>8. Assertions' = Assertions \ {h} /\ (h \in Assertions <=> messages[h].op = "auth")
  <2>1. \A m \in 1 .. n : m > ReadCount' <=> m > ReadCount /\ m # h
    BY <1>1, <1>3
  <2>2. Assertions' = {m \in 1 .. n : m > ReadCount' /\ messages'[m].op = "auth"}
    BY DEF Assertions, n
  <2>3. \A m \in 1 .. n : messages'[m].op = messages[m].op
    BY DEF n
  <2>4. Assertions = {m \in 1 .. n : m > ReadCount /\ messages'[m].op = "auth"}
    BY <2>3 DEF Assertions, n
  <2>5. h \in 1 .. n /\ h > ReadCount
    BY <1>1, <1>3
  <2>6. QED
    BY <2>1, <2>2, <2>3, <2>4, <2>5
<1>9. QED
  BY <1>3, <1>7, <1>8 DEF n, h

(***************************************************************************)
(* The steps.                                                              *)
(***************************************************************************)

\* An answer is written or not; the message is marked accordingly.
LEMMA AnswerFacts ==
  ASSUME NEW m, Answer(m)
  PROVE  \E a \in {"answered", "unsent"} :
             /\ Fate(m, a)
             /\ toClient' \in {toClient, toClient \cup {[op |-> "answer", number |-> m]}}
BY DEF Answer, AnswerTo, WriteMessage, WriteFails

\* A step that moves no challenge on, and judges nothing: it may end a challenge,
\* read a message, change a fate or send an answer.
LEMMA PlainStep ==
  ASSUME HandlingInv, StreamInv', UNCHANGED <<begun, pending, reader, verdicts, overlapped>>,
         ReadCount <= ReadCount', Len(messages') = Len(messages),
         \A m \in 1 .. Len(messages) :
             /\ messages'[m].op = messages[m].op /\ messages'[m].arg = messages[m].arg
             /\ ~overlapped /\ messages'[m].fate = "ignored" => messages[m].fate = "ignored",
         Assertions' \subseteq Assertions, prompts' \subseteq prompts,
         \A f \in toClient' : \/ f \in toClient
                              \/ /\ f \in Frames /\ f.op = "answer"
                                 /\ f.number \in 1 .. ReadCount',
         cache' \subseteq Links, IsFiniteSet(cache'), Cardinality(cache') <= CacheLimit
  PROVE  HandlingInv'
<1>1. StreamInv /\ SessionInv /\ VerdictInv /\ FlightInv
  BY DEF HandlingInv
<1>2. /\ ReadCount \in Nat /\ ReadCount' \in Nat /\ Len(messages) \in Nat
      /\ 1 .. ReadCount \subseteq 1 .. ReadCount'
      /\ ReadCount <= Len(messages) /\ 1 .. ReadCount \subseteq 1 .. Len(messages)
      /\ DOMAIN messages = 1 .. Len(messages) /\ DOMAIN messages' = 1 .. Len(messages)
  <2>1. ReadCount \in 0 .. Len(messages) /\ Len(messages) \in Nat /\ DOMAIN messages = 1 .. Len(messages)
    BY <1>1, StreamTypes
  <2>2. ReadCount' \in Nat /\ DOMAIN messages' = 1 .. Len(messages)
    BY StreamTypes DEF StreamInv, ReadCount
  <2>3. QED
    BY <2>1, <2>2
<1>3. Judging' = Judging
  BY DEF Judging
<1>4. SessionInv'
  <2>1. \A f \in toClient' : /\ f \in Frames
                             /\ f.op = "challenge" => f.number \in 1 .. begun
                             /\ f.op = "answer" => f.number \in 1 .. ReadCount'
    BY <1>1, <1>2 DEF SessionInv
  <2>2. Judging => /\ reader.message \in 1 .. ReadCount'
                   /\ messages'[reader.message].op = "auth"
                   /\ pending # 0
    BY <1>1, <1>2 DEF SessionInv
  <2>3. QED
    BY <1>1, <1>3, <2>1, <2>2 DEF SessionInv
<1>5. VerdictInv'
  BY <1>1 DEF VerdictInv
<1>6. FlightInv'
  <2>1. SUFFICES ASSUME ~overlapped PROVE FlightInv'
    BY DEF FlightInv
  <2>2. /\ Asked' => Asked
        /\ Framed' => Framed
        /\ Streamed' => Streamed
    BY DEF Asked, Framed, Streamed
  <2>3. \A m \in Assertions' : messages'[m].arg = begun
    BY <1>1, <2>1 DEF FlightInv, Assertions
  <2>4. Judging => messages'[reader.message].arg = begun
    BY <1>1, <1>2, <2>1 DEF FlightInv, SessionInv
  <2>5. AssertionsJudged'
    BY <1>1, <1>2, <2>1 DEF FlightInv, AssertionsJudged
  <2>6. \A f \in toClient' : f.op = "challenge" => f.number = begun
    BY <1>1, <2>1 DEF FlightInv
  <2>7. QED
    BY <1>1, <1>3, <2>1, <2>2, <2>3, <2>4, <2>5, <2>6 DEF FlightInv
<1>7. QED
  BY <1>4, <1>5, <1>6 DEF HandlingInv

\* The client sends a message; the assertion of a challenge ends its prompt.
LEMMA SendStep ==
  ASSUME HandlingInv, NEW msg \in MessageRecords, Send(msg), msg.fate = "waiting",
         msg.op = "hover" => msg.arg \in Links,
         msg.op = "auth" => msg.arg \in prompts /\ prompts' = prompts \ {msg.arg},
         msg.op # "auth" => prompts' = prompts,
         toClient' \subseteq toClient,
         UNCHANGED <<sessionVars, verdicts, overlapped, spent>>
  PROVE  HandlingInv'
<1>1. StreamInv /\ SessionInv /\ VerdictInv /\ FlightInv
  BY DEF HandlingInv
<1>2. UNCHANGED <<reader, pending, begun, cache, total, dropped>>
  BY DEF sessionVars
<1>3. msg.op = "auth" => msg.arg \in 1 .. begun
  BY <1>1 DEF SessionInv
<1>4. /\ StreamInv' /\ ReadCount' = ReadCount
      /\ \A m \in 1 .. Len(messages) : messages'[m] = messages[m]
      /\ messages'[Len(messages) + 1] = msg
      /\ Assertions' = IF msg.op = "auth" THEN Assertions \cup {Len(messages) + 1}
                       ELSE Assertions
      /\ Len(messages') = Len(messages) + 1
  BY <1>1, <1>2, <1>3, SendFacts
<1>5. /\ Len(messages) \in Nat /\ ReadCount \in 0 .. Len(messages)
      /\ DOMAIN messages = 1 .. Len(messages) /\ DOMAIN messages' = 1 .. Len(messages) + 1
      /\ 1 .. ReadCount \subseteq 1 .. Len(messages)
  <2>1. /\ Len(messages) \in Nat /\ ReadCount \in 0 .. Len(messages)
        /\ DOMAIN messages = 1 .. Len(messages)
    BY <1>1, StreamTypes
  <2>2. DOMAIN messages' = 1 .. Len(messages')
    BY <1>4 DEF StreamInv
  <2>3. QED
    BY <1>4, <2>1, <2>2
<1>6. Judging' = Judging /\ prompts' \subseteq prompts
  BY <1>2 DEF Judging
<1>7. SessionInv'
  <2>1. Judging => messages'[reader.message] = messages[reader.message]
    BY <1>1, <1>4, <1>5 DEF SessionInv
  <2>2. QED
    BY <1>1, <1>2, <1>4, <1>6, <2>1 DEF SessionInv
<1>8. VerdictInv'
  BY <1>1, <1>2 DEF VerdictInv
<1>9. FlightInv'
  <2>1. SUFFICES ASSUME ~overlapped PROVE FlightInv'
    BY DEF FlightInv
  <2>2. Judging => messages'[reader.message] = messages[reader.message]
    BY <1>1, <1>4, <1>5 DEF SessionInv
  <2>3. AssertionsJudged'
    <3>1. \A m \in 1 .. Len(messages) + 1 : m \in 1 .. Len(messages) \/ m = Len(messages) + 1
      BY <1>5
    <3>2. \A m \in 1 .. Len(messages) + 1 : messages'[m].fate # "ignored"
      BY <1>1, <1>4, <1>5, <2>1, <3>1 DEF FlightInv, AssertionsJudged
    <3>3. QED
      BY <1>1, <1>5, <2>1, <3>2 DEF FlightInv, AssertionsJudged
  <2>4. \A m \in Assertions : messages'[m] = messages[m]
    BY <1>4 DEF Assertions
  <2>5. Framed' => Framed
    BY DEF Framed
  <2>6. CASE msg.op # "auth"
    <3>1. Asked' = Asked /\ Streamed' = Streamed /\ Assertions' = Assertions
      BY <1>4, <2>6 DEF Asked, Streamed
    <3>2. QED
      BY <1>1, <1>2, <1>6, <2>1, <2>2, <2>3, <2>4, <2>5, <3>1 DEF FlightInv
  <2>7. CASE msg.op = "auth"
    <3>1. Asked /\ msg.arg = begun /\ prompts' = {}
      BY <1>1, <2>1, <2>7 DEF FlightInv, Asked
    <3>2. ~Framed /\ Assertions = {} /\ ~Judging /\ pending = begun
      BY <1>1, <2>1, <3>1 DEF FlightInv, Streamed
    <3>3. Assertions' = {Len(messages) + 1} /\ ~Asked' /\ ~Framed' /\ ~Judging'
      BY <1>4, <1>6, <2>5, <2>7, <3>1, <3>2 DEF Asked
    <3>4. reader'.at # "verified"
      BY <3>3 DEF Judging
    <3>5. QED
      BY <1>2, <1>4, <2>3, <3>1, <3>2, <3>3, <3>4 DEF FlightInv, Framed
  <2>8. QED
    BY <2>6, <2>7
<1>10. QED
  BY <1>4, <1>7, <1>8, <1>9 DEF HandlingInv

\* CompletePasskey: the browser asks about the challenge that has arrived.
LEMMA ReceiveChallengeStep ==
  ASSUME HandlingInv, NEW frame \in toClient, frame.op = "challenge",
         ReceiveFrame(frame)
  PROVE  HandlingInv'
<1>1. StreamInv /\ SessionInv /\ VerdictInv /\ FlightInv
  BY DEF HandlingInv
<1>2. /\ toClient' = toClient \ {frame} /\ prompts' = prompts \cup {frame.number}
      /\ UNCHANGED <<toServer, messages, reader, pending, begun, cache, total, dropped,
                     verdicts, overlapped, spent>>
  BY DEF ReceiveFrame, ReceiveChallenge, sessionVars, vars
<1>3. Judging' = Judging /\ ReadCount' = ReadCount /\ Assertions' = Assertions /\ Streamed' = Streamed
  BY <1>2 DEF Judging, ReadCount, Assertions, Streamed
<1>4. StreamInv'
  BY <1>1, <1>2, <1>3 DEF StreamInv
<1>5. SessionInv'
  BY <1>1, <1>2, <1>3 DEF SessionInv
<1>6. VerdictInv'
  BY <1>1, <1>2 DEF VerdictInv
<1>7. FlightInv'
  <2>1. SUFFICES ASSUME ~overlapped PROVE FlightInv'
    BY <1>2 DEF FlightInv
  <2>2. Framed
    BY DEF Framed
  <2>3. ~Asked /\ ~Streamed /\ ~Judging /\ pending = begun /\ frame.number = begun
    BY <1>1, <2>1, <2>2 DEF FlightInv
  <2>4. \A f \in toClient : f.op = "challenge" => f = frame
    <3>1. \A f \in toClient : f.op = "challenge" => f.number = frame.number
      BY <1>1, <2>1, <2>3 DEF FlightInv
    <3>2. QED
      BY <1>1, <3>1 DEF SessionInv, Frames
  <2>5. ~Framed' /\ prompts' = {begun}
    BY <1>2, <2>3, <2>4 DEF Framed, Asked
  <2>6. AssertionsJudged'
    BY <1>1, <1>2, <2>1 DEF FlightInv, AssertionsJudged
  <2>7. reader.at # "verified"
    BY <2>3 DEF Judging
  <2>8. QED
    BY <1>1, <1>2, <1>3, <2>1, <2>3, <2>5, <2>6, <2>7 DEF FlightInv, Framed
<1>8. QED
  BY <1>4, <1>5, <1>6, <1>7 DEF HandlingInv

\* BeginAuth, in a handler or aside: the new challenge is the last, and pending;
\* if it overlaps another one that is recorded.
LEMMA BeginAuthStep ==
  ASSUME HandlingInv, BeginAuth, StreamInv',
         UNCHANGED <<prompts, reader, cache, verdicts>>,
         ReadCount <= ReadCount', Len(messages') = Len(messages),
         \A m \in 1 .. Len(messages) :
             /\ messages'[m].op = messages[m].op /\ messages'[m].arg = messages[m].arg
             /\ messages'[m].fate = "ignored" => messages[m].fate = "ignored",
         Assertions' = Assertions
  PROVE  HandlingInv'
<1>1. StreamInv /\ SessionInv /\ VerdictInv /\ FlightInv
  BY DEF HandlingInv
<1>2. /\ begun < MaxChallenges /\ begun' = begun + 1 /\ pending' = begun + 1
      /\ toClient' \in {toClient, toClient \cup {[op |-> "challenge", number |-> begun + 1]}}
  BY DEF BeginAuth, Challenge, WriteMessage, WriteFails
<1>3. overlapped' \in BOOLEAN /\ (~overlapped' => ~overlapped /\ ~InFlight)
  BY Zenon DEF BeginAuth
<1>4. /\ begun \in Nat /\ pending \in Nat /\ pending <= begun
      /\ 1 .. begun \subseteq 1 .. begun + 1 /\ begun + 1 \in 0 .. MaxChallenges
      /\ 1 .. pending \subseteq 1 .. begun + 1 /\ begun + 1 # 0
  BY <1>1, <1>2, IntentsAssumption DEF SessionInv
<1>5. /\ ReadCount \in Nat /\ ReadCount' \in Nat
      /\ 1 .. ReadCount \subseteq 1 .. ReadCount' /\ 1 .. ReadCount \subseteq 1 .. Len(messages)
      /\ DOMAIN messages = 1 .. Len(messages) /\ DOMAIN messages' = 1 .. Len(messages)
  <2>1. ReadCount \in 0 .. Len(messages) /\ Len(messages) \in Nat /\ DOMAIN messages = 1 .. Len(messages)
    BY <1>1, StreamTypes
  <2>2. ReadCount' \in Nat /\ DOMAIN messages' = 1 .. Len(messages)
    BY StreamTypes DEF StreamInv, ReadCount
  <2>3. QED
    BY <2>1, <2>2
<1>6. Judging' = Judging
  BY DEF Judging
<1> DEFINE new == [op |-> "challenge", number |-> begun + 1]
<1>7. new \in Frames /\ new.op = "challenge" /\ new.number = begun + 1
  BY <1>4 DEF Frames
<1> HIDE DEF new
<1>8. SessionInv'
  <2>1. \A f \in toClient' : /\ f \in Frames
                             /\ f.op = "challenge" => f.number \in 1 .. begun + 1
                             /\ f.op = "answer" => f.number \in 1 .. ReadCount'
    <3>1. \A f \in toClient : /\ f \in Frames
                              /\ f.op = "challenge" => f.number \in 1 .. begun
                              /\ f.op = "answer" => f.number \in 1 .. ReadCount
      BY <1>1 DEF SessionInv
    <3>2. begun + 1 \in 1 .. begun + 1
      BY <1>4
    <3>3. \A f \in toClient' : f \in toClient \/ f = new
      BY <1>2 DEF new
    <3>4. QED
      BY <1>4, <1>5, <1>7, <3>1, <3>2, <3>3
  <2>2. Judging => reader.message \in 1 .. ReadCount' /\ messages'[reader.message].op = "auth"
    BY <1>1, <1>5 DEF SessionInv
  <2>3. pending' \in 0 .. begun' /\ prompts' \subseteq 1 .. begun'
    BY <1>1, <1>2, <1>4 DEF SessionInv
  <2>4. reader.at = "verified" => reader.judged \in 1 .. begun + 1
    BY <1>1, <1>4 DEF SessionInv
  <2>5. QED
    BY <1>1, <1>2, <1>3, <1>4, <1>6, <2>1, <2>2, <2>3, <2>4 DEF SessionInv
<1>9. VerdictInv'
  BY <1>1, <1>2, <1>4 DEF VerdictInv
<1>10. FlightInv'
  <2>1. SUFFICES ASSUME ~overlapped' PROVE FlightInv'
    BY DEF FlightInv
  <2>2. ~overlapped /\ ~Asked /\ ~Framed /\ ~Streamed /\ ~Judging
    BY <1>1, <1>3, <2>1, InFlightPlaces
  <2>3. prompts' = {} /\ Assertions' = {} /\ ~Judging' /\ reader'.at # "verified"
    BY <1>6, <2>2 DEF Asked, Streamed, Judging
  <2>4. \A f \in toClient' : f.op = "challenge" => f.number = begun'
    BY <1>2, <2>2 DEF Framed
  <2>5. AssertionsJudged'
    BY <1>1, <1>5, <2>2 DEF FlightInv, AssertionsJudged
  <2>6. QED
    BY <1>2, <2>3, <2>4, <2>5 DEF FlightInv, Asked, Streamed
<1>11. QED
  BY <1>8, <1>9, <1>10 DEF HandlingInv

\* The reader meets a message that is too long.
LEMMA StopReadingStep ==
  ASSUME HandlingInv, StopReading
  PROVE  HandlingInv'
<1>1. StreamInv /\ SessionInv /\ VerdictInv /\ FlightInv
  BY DEF HandlingInv
<1>2. /\ reader.at = "idle" /\ reader' = [Idle EXCEPT !.at = "stopped"]
      /\ UNCHANGED <<toServer, prompts, pending, begun, cache, total, dropped,
                     toClient, messages, verdicts, overlapped, spent>>
  BY DEF StopReading, clientVars, vars
<1>3. ~Judging /\ ~Judging' /\ reader' \in Readers /\ reader'.at # "verified"
  BY <1>2 DEF Judging, Idle, Readers
<1>4. ReadCount' = ReadCount /\ Assertions' = Assertions
  BY <1>2 DEF ReadCount, Assertions
<1>5. StreamInv' /\ SessionInv' /\ VerdictInv'
  BY <1>1, <1>2, <1>3, <1>4 DEF StreamInv, SessionInv, VerdictInv
<1>6. FlightInv'
  BY <1>1, <1>2, <1>3, <1>4 DEF FlightInv, AssertionsJudged, Asked, Framed, Streamed
<1>7. QED
  BY <1>5, <1>6 DEF HandlingInv

\* LookupCredential finds none.
LEMMA LookupFailsStep ==
  ASSUME HandlingInv, LookupFails
  PROVE  HandlingInv'
<1> DEFINE m == reader.message
<1>1. StreamInv /\ SessionInv /\ VerdictInv /\ FlightInv
  BY DEF HandlingInv
<1>0. PICK a \in {"answered", "unsent"} :
          /\ Fate(m, a)
          /\ toClient' \in {toClient, toClient \cup {[op |-> "answer", number |-> m]}}
  BY AnswerFacts DEF LookupFails
<1>2. /\ reader.at = "lookup" /\ reader' = Idle /\ Fate(m, a) /\ a \in Fates
      /\ toClient' \in {toClient, toClient \cup {[op |-> "answer", number |-> m]}}
      /\ UNCHANGED <<toServer, prompts, pending, begun, cache, total, dropped,
                     verdicts, overlapped, spent>>
  BY <1>0 DEF LookupFails, Fates, clientVars, vars
<1>3. ~Judging' /\ reader' \in Readers /\ reader'.at # "verified"
  BY <1>2 DEF Judging, Idle, Readers
<1>4. m \in 1 .. ReadCount /\ m \in 1 .. Len(messages)
  BY <1>1, <1>2, StreamTypes DEF SessionInv, Judging
<1>5. StreamInv' /\ ReadCount' = ReadCount /\ Assertions' = Assertions
  BY <1>1, <1>2, <1>4, FateOfRead DEF Fates
<1>6. /\ Len(messages') = Len(messages) /\ messages'[m].fate = a
      /\ \A j \in 1 .. Len(messages) :
             /\ messages'[j].op = messages[j].op /\ messages'[j].arg = messages[j].arg
             /\ j # m => messages'[j] = messages[j]
  BY <1>1, <1>2, <1>4, FateFacts DEF Fates
<1>7. SessionInv'
  <2>1. \A f \in toClient' : /\ f \in Frames
                             /\ f.op = "challenge" => f.number \in 1 .. begun
                             /\ f.op = "answer" => f.number \in 1 .. ReadCount
    BY <1>1, <1>2, <1>4 DEF SessionInv, Frames
  <2>2. QED
    BY <1>1, <1>2, <1>3, <1>5, <2>1 DEF SessionInv
<1>8. VerdictInv'
  BY <1>1, <1>2, <1>3 DEF VerdictInv
<1>9. FlightInv'
  <2>1. SUFFICES ASSUME ~overlapped PROVE FlightInv'
    BY <1>2 DEF FlightInv
  <2>2. ~Asked /\ ~Framed /\ ~Streamed
    BY <1>1, <1>2, <2>1 DEF FlightInv, Judging
  <2>3. prompts' = {} /\ Assertions' = {} /\ \A f \in toClient' : f.op # "challenge"
    BY <1>2, <1>5, <2>2 DEF Asked, Framed, Streamed
  <2>4. AssertionsJudged'
    <3>1. DOMAIN messages = 1 .. Len(messages) /\ DOMAIN messages' = 1 .. Len(messages)
      BY <1>1, <1>5, <1>6 DEF StreamInv
    <3>2. QED
      BY <1>0, <1>1, <1>2, <1>6, <2>1, <3>1 DEF FlightInv, AssertionsJudged
  <2>5. QED
    BY <1>3, <2>3, <2>4 DEF FlightInv, Asked, Framed, Streamed
<1>10. QED
  BY <1>5, <1>7, <1>8, <1>9 DEF HandlingInv

\* VerifyAssertion, with the challenge that is pending now.
LEMMA VerifyStep ==
  ASSUME HandlingInv, NEW ok \in BOOLEAN, Verify(ok)
  PROVE  HandlingInv'
<1>1. StreamInv /\ SessionInv /\ VerdictInv /\ FlightInv
  BY DEF HandlingInv
<1>2. /\ reader.at = "lookup"
      /\ reader' = [reader EXCEPT !.at = "verified", !.judged = pending, !.ok = ok]
      /\ UNCHANGED <<toServer, prompts, pending, begun, cache, total, dropped,
                     toClient, messages, verdicts, overlapped, spent>>
  BY DEF Verify, clientVars, vars
<1>3. pending \in Nat /\ pending # 0 /\ reader \in Readers /\ Judging
  BY <1>1, <1>2 DEF SessionInv, Judging
<1>4. /\ reader' \in Readers /\ reader'.at = "verified" /\ reader'.judged = pending
      /\ reader'.message = reader.message /\ Judging'
  BY <1>2, <1>3 DEF Readers, Judging
<1>5. ReadCount' = ReadCount /\ Assertions' = Assertions
  BY <1>2 DEF ReadCount, Assertions
<1>6. StreamInv'
  BY <1>1, <1>2, <1>5 DEF StreamInv
<1>7. SessionInv'
  BY <1>1, <1>2, <1>3, <1>4, <1>5 DEF SessionInv
<1>8. VerdictInv'
  BY <1>1, <1>2, <1>3, <1>4 DEF VerdictInv
<1>9. FlightInv'
  BY <1>1, <1>2, <1>3, <1>4, <1>5 DEF FlightInv, AssertionsJudged, Asked, Framed, Streamed
<1>10. QED
  BY <1>6, <1>7, <1>8, <1>9 DEF HandlingInv

\* The verdict is given: its challenge had none before.
LEMMA AnswerAuthStep ==
  ASSUME HandlingInv, AnswerAuth
  PROVE  HandlingInv'
<1> DEFINE m == reader.message
<1>1. StreamInv /\ SessionInv /\ VerdictInv /\ FlightInv
  BY DEF HandlingInv
<1>0. PICK a \in {"answered", "unsent"} :
          /\ Fate(m, a)
          /\ toClient' \in {toClient, toClient \cup {[op |-> "answer", number |-> m]}}
  BY AnswerFacts DEF AnswerAuth
<1>2. /\ reader.at = "verified" /\ pending' = 0 /\ reader' = Idle /\ Fate(m, a) /\ a \in Fates
      /\ toClient' \in {toClient, toClient \cup {[op |-> "answer", number |-> m]}}
      /\ verdicts' = verdicts \cup {Verdict}
      /\ UNCHANGED <<toServer, prompts, begun, cache, total, dropped, overlapped, spent>>
  BY <1>0 DEF AnswerAuth, Fates, clientVars, vars
<1>3. ~Judging' /\ reader' \in Readers /\ reader'.at # "verified"
  BY <1>2 DEF Judging, Idle, Readers
<1>4. Judging /\ m \in 1 .. ReadCount /\ m \in 1 .. Len(messages)
  BY <1>1, <1>2, StreamTypes DEF SessionInv, Judging
<1>5. StreamInv' /\ ReadCount' = ReadCount /\ Assertions' = Assertions
  BY <1>1, <1>2, <1>4, FateOfRead DEF Fates
<1>6. /\ Len(messages') = Len(messages) /\ messages'[m].fate = a
      /\ \A j \in 1 .. Len(messages) :
             /\ messages'[j].op = messages[j].op /\ messages'[j].arg = messages[j].arg
             /\ j # m => messages'[j] = messages[j]
  BY <1>1, <1>2, <1>4, FateFacts DEF Fates
<1>7. begun \in Nat /\ pending \in 0 .. begun /\ reader.judged \in 1 .. pending
  BY <1>1, <1>2, IntentsAssumption DEF SessionInv
<1>8. /\ Verdict.judged = reader.judged /\ Verdict.judged \in 1 .. begun
      /\ Verdict.assertion = messages[m].arg
      /\ \A v \in verdicts : v.judged < Verdict.judged /\ v.judged \in 1 .. begun
  BY <1>1, <1>2, <1>7 DEF Verdict, VerdictInv
<1>9. SessionInv'
  <2>1. \A f \in toClient' : /\ f \in Frames
                             /\ f.op = "challenge" => f.number \in 1 .. begun
                             /\ f.op = "answer" => f.number \in 1 .. ReadCount
    BY <1>1, <1>2, <1>4 DEF SessionInv, Frames
  <2>2. QED
    BY <1>1, <1>2, <1>3, <1>5, <1>7, <2>1 DEF SessionInv
<1>10. VerdictInv'
  <2>1. \A v \in verdicts' : v \in verdicts \/ v = Verdict
    BY <1>2
  <2> HIDE DEF Verdict
  <2>2. \A v \in verdicts' : v.judged \in 1 .. begun
    BY <1>8, <2>1
  <2>3. \A v, w \in verdicts' : v.judged = w.judged => v = w
    <3>1. TAKE v, w \in verdicts'
    <3>2. CASE v \in verdicts /\ w \in verdicts
      BY <1>1, <3>2 DEF VerdictInv
    <3>3. CASE v \in verdicts /\ w = Verdict
      BY <1>7, <1>8, <3>3
    <3>4. CASE v = Verdict /\ w \in verdicts
      BY <1>7, <1>8, <3>4
    <3>5. QED
      BY <2>1, <3>2, <3>3, <3>4
  <2>4. QED
    BY <1>2, <1>3, <2>2, <2>3 DEF VerdictInv
<1>11. FlightInv'
  <2>1. SUFFICES ASSUME ~overlapped PROVE FlightInv'
    BY <1>2 DEF FlightInv
  <2>2. ~Asked /\ ~Framed /\ ~Streamed /\ messages[m].arg = begun /\ reader.judged = begun
    BY <1>1, <1>2, <1>4, <2>1 DEF FlightInv
  <2>3. prompts' = {} /\ Assertions' = {} /\ \A f \in toClient' : f.op # "challenge"
    BY <1>2, <1>5, <2>2 DEF Asked, Framed, Streamed
  <2>4. AssertionsJudged'
    <3>1. DOMAIN messages = 1 .. Len(messages) /\ DOMAIN messages' = 1 .. Len(messages)
      BY <1>1, <1>5, <1>6 DEF StreamInv
    <3>2. \A v \in verdicts' : v.assertion = v.judged
      BY <1>1, <1>2, <1>8, <2>1, <2>2 DEF FlightInv, AssertionsJudged
    <3>3. QED
      BY <1>0, <1>1, <1>6, <2>1, <3>1, <3>2 DEF FlightInv, AssertionsJudged
  <2>5. QED
    BY <1>3, <2>3, <2>4 DEF FlightInv, Asked, Framed, Streamed
<1>12. QED
  BY <1>5, <1>9, <1>10, <1>11 DEF HandlingInv

\* A message that the limiter drops or a hook vetoes.
LEMMA DroppedOrVetoed ==
  ASSUME HandlingInv, TypeOK, DropIntent \/ HookVetoes
  PROVE  HandlingInv'
<1> DEFINE h == Head(toServer)
<1>1. StreamInv /\ SessionInv
  BY DEF HandlingInv
<1>2. /\ toServer # <<>> /\ toServer' = Tail(toServer)
      /\ Fate(h, "dropped") \/ Fate(h, "vetoed")
      /\ UNCHANGED <<prompts, reader, pending, begun, cache, toClient, verdicts, overlapped>>
  BY DEF DropIntent, HookVetoes, Readable
<1>3. h \in 1 .. Len(messages)
  BY <1>1, <1>2, NextMessage
<1>4. /\ messages' \in Seq(MessageRecords) /\ Len(messages') = Len(messages)
      /\ \A j \in 1 .. Len(messages) :
             /\ messages'[j].op = messages[j].op /\ messages'[j].arg = messages[j].arg
             /\ j # h => messages'[j] = messages[j]
      /\ messages'[h].fate # "ignored"
  <2>1. CASE Fate(h, "dropped")
    BY <1>1, <1>3, <2>1, FateFacts DEF Fates
  <2>2. CASE Fate(h, "vetoed")
    BY <1>1, <1>3, <2>2, FateFacts DEF Fates
  <2>3. QED
    BY <1>2, <2>1, <2>2
<1>5. /\ total' \in Nat /\ dropped' \in Nat /\ total' + dropped' = total + dropped + 1
      /\ spent' = Unit * total'
  <2>1. total \in Nat /\ dropped \in Nat /\ spent = Unit * total /\ Unit \in Nat
    BY <1>1, LimiterAssumption DEF StreamInv
  <2>2. CASE DropIntent
    BY <2>1, <2>2 DEF DropIntent, AllowRefuses
  <2>3. CASE HookVetoes
    BY <2>1, <2>3 DEF HookVetoes, AllowGrants
  <2>4. QED
    BY <2>2, <2>3
<1>6. begun \in Nat /\ begun' = begun
  BY <1>1, <1>2 DEF SessionInv
<1>7. /\ StreamInv' /\ ReadCount' = ReadCount + 1
      /\ Assertions' = Assertions \ {h} /\ ReadCount \in Nat
  BY <1>1, <1>2, <1>4, <1>5, <1>6, ReadFacts, StreamTypes
<1>8. /\ ReadCount <= ReadCount' /\ Assertions' \subseteq Assertions
      /\ prompts' \subseteq prompts /\ \A f \in toClient' : f \in toClient
      /\ \A m \in 1 .. Len(messages) :
             /\ messages'[m].op = messages[m].op /\ messages'[m].arg = messages[m].arg
             /\ messages'[m].fate = "ignored" => messages[m].fate = "ignored"
      /\ cache' \subseteq Links /\ IsFiniteSet(cache') /\ Cardinality(cache') <= CacheLimit
  BY <1>1, <1>2, <1>4, <1>7 DEF SessionInv
<1>9. QED
  BY <1>2, <1>4, <1>7, <1>8, PlainStep

\* PrefetchRoute keeps the cache within its limit.
LEMMA CacheBounded ==
  ASSUME SessionInv, NEW path \in Links
  PROVE  /\ PrefetchRoute(path) \subseteq Links /\ IsFiniteSet(PrefetchRoute(path))
         /\ Cardinality(PrefetchRoute(path)) <= CacheLimit
<1>1. /\ cache \subseteq Links /\ IsFiniteSet(cache) /\ Cardinality(cache) <= CacheLimit
      /\ CacheLimit \in Nat \ {0}
  BY IntentsAssumption DEF SessionInv
<1>2. /\ IsFiniteSet({path}) /\ Cardinality({path}) = 1 /\ Cardinality(cache) \in Nat
      /\ IsFiniteSet(cache \cup {path})
      /\ path \notin cache => Cardinality(cache \cup {path}) = Cardinality(cache) + 1
  BY <1>1, FS_Singleton, FS_CardinalityType, FS_AddElement
<1>3. QED
  BY <1>1, <1>2 DEF PrefetchRoute

\* A message that reaches its handler.
LEMMA HandleIntentStep ==
  ASSUME HandlingInv, HandleIntent
  PROVE  HandlingInv'
<1> DEFINE h == Head(toServer)
           SameMessages(f) ==
               /\ messages' \in Seq(MessageRecords) /\ Len(messages') = Len(messages)
               /\ \A j \in 1 .. Len(messages) :
                      /\ messages'[j].op = messages[j].op /\ messages'[j].arg = messages[j].arg
                      /\ j # h => messages'[j] = messages[j]
               /\ messages'[h].fate = f
           ReadOne == /\ StreamInv' /\ ReadCount' = ReadCount + 1 /\ ReadCount \in Nat
                      /\ h = ReadCount + 1
                      /\ Assertions' = Assertions \ {h}
                      /\ h \in Assertions <=> messages[h].op = "auth"
<1>1. StreamInv /\ SessionInv /\ VerdictInv /\ FlightInv
  BY DEF HandlingInv
<1>2. /\ toServer # <<>> /\ toServer' = Tail(toServer) /\ Handle(h) /\ reader.at = "idle"
      /\ total' = total + 1 /\ spent' = spent + Unit
      /\ UNCHANGED <<prompts, dropped, verdicts>>
  BY DEF HandleIntent, Readable, AllowGrants
<1>3. h \in 1 .. Len(messages) /\ messages[h] \in MessageRecords /\ messages[h].op \in Ops
  BY <1>1, <1>2, NextMessage
<1>4. ~TooLong(h)
  BY DEF HandleIntent, Readable
<1>5. /\ total' \in Nat /\ dropped' \in Nat /\ total' + dropped' = total + dropped + 1
      /\ spent' = Unit * total' /\ begun \in Nat
  <2>1. total \in Nat /\ dropped \in Nat /\ spent = Unit * total /\ Unit \in Nat
    BY <1>1, LimiterAssumption DEF StreamInv
  <2>2. spent + Unit = Unit * (total + 1)
    BY <2>1
  <2>3. begun \in Nat
    BY <1>1 DEF SessionInv
  <2>4. QED
    BY <1>2, <2>1, <2>2, <2>3
<1>6. ASSUME NEW f \in Fates, Fate(h, f) PROVE SameMessages(f)
  BY <1>1, <1>3, <1>6, FateFacts
<1>7. ASSUME NEW f \in Fates, SameMessages(f), begun' \in Nat, begun <= begun' PROVE ReadOne
  BY <1>1, <1>2, <1>5, <1>7, ReadFacts, StreamTypes
<1>8. cache \subseteq Links /\ IsFiniteSet(cache) /\ Cardinality(cache) <= CacheLimit
  BY <1>1 DEF SessionInv
<1>9. ASSUME NEW f \in Fates, Fate(h, f), UNCHANGED <<begun, pending, reader, overlapped>>,
             ~overlapped => f # "ignored",
             cache' \subseteq Links, IsFiniteSet(cache'), Cardinality(cache') <= CacheLimit,
             toClient' \in {toClient, toClient \cup {[op |-> "answer", number |-> h]}}
      PROVE  HandlingInv'
  <2>1. SameMessages(f)
    BY <1>6, <1>9
  <2>2. ReadOne
    BY <1>5, <1>7, <1>9, <2>1
  <2>3. /\ ReadCount <= ReadCount' /\ Assertions' \subseteq Assertions
        /\ prompts' \subseteq prompts
        /\ \A m \in 1 .. Len(messages) :
               /\ messages'[m].op = messages[m].op /\ messages'[m].arg = messages[m].arg
               /\ ~overlapped /\ messages'[m].fate = "ignored" => messages[m].fate = "ignored"
    BY <1>2, <1>9, <2>1, <2>2
  <2>4. \A g \in toClient' : \/ g \in toClient
                             \/ /\ g \in Frames /\ g.op = "answer"
                                /\ g.number \in 1 .. ReadCount'
    BY <1>9, <2>2 DEF Frames
  <2>5. QED
    BY <1>2, <1>9, <2>1, <2>2, <2>3, <2>4, PlainStep
<1>10. CASE messages[h].op = "hello"
  <2>1. Fate(h, "done") /\ UNCHANGED <<toClient, reader, pending, begun, cache, overlapped>>
    BY <1>2, <1>10 DEF Handle
  <2>2. QED
    BY <1>8, <1>9, <2>1 DEF Fates
<1>11. CASE messages[h].op = "devtools"
  <2>1. Answer(h) /\ UNCHANGED <<reader, pending, begun, cache, overlapped>>
    BY <1>2, <1>11 DEF Handle
  <2>2. PICK a \in {"answered", "unsent"} :
            /\ Fate(h, a)
            /\ toClient' \in {toClient, toClient \cup {[op |-> "answer", number |-> h]}}
    BY <2>1, AnswerFacts
  <2>3. a \in Fates /\ a # "ignored"
    BY <2>2 DEF Fates
  <2>4. QED
    BY <1>8, <1>9, <2>1, <2>2, <2>3
<1>12. CASE messages[h].op = "hover"
  <2>1. /\ Fate(h, "done") /\ cache' = PrefetchRoute(messages[h].arg)
        /\ UNCHANGED <<toClient, reader, pending, begun, overlapped>>
    BY <1>2, <1>12 DEF Handle
  <2>2. messages[h].arg \in Links
    BY <1>1, <1>3, <1>12 DEF StreamInv
  <2>3. cache' \subseteq Links /\ IsFiniteSet(cache') /\ Cardinality(cache') <= CacheLimit
    BY <1>1, <2>1, <2>2, CacheBounded
  <2>4. QED
    BY <1>9, <2>1, <2>3 DEF Fates
<1>13. CASE messages[h].op = "click"
  <2>1. /\ Fate(h, "done") /\ UNCHANGED <<reader, cache>>
        /\ IF begun < MaxChallenges THEN BeginAuth
           ELSE UNCHANGED <<toClient, pending, begun, overlapped>>
    BY <1>2, <1>13 DEF Handle
  <2>2. CASE BeginAuth
    <3>1. SameMessages("done")
      BY <1>6, <2>1 DEF Fates
    <3>2. ReadOne
      BY <1>5, <1>7, <2>2, <3>1 DEF BeginAuth, Fates
    <3>3. Assertions' = Assertions /\ ReadCount <= ReadCount'
      BY <1>13, <3>2
    <3>4. \A m \in 1 .. Len(messages) :
              /\ messages'[m].op = messages[m].op /\ messages'[m].arg = messages[m].arg
              /\ messages'[m].fate = "ignored" => messages[m].fate = "ignored"
      BY <3>1
    <3>5. QED
      BY <1>2, <2>1, <2>2, <3>1, <3>2, <3>3, <3>4, BeginAuthStep
  <2>3. CASE UNCHANGED <<toClient, pending, begun, overlapped>>
    BY <1>8, <1>9, <2>1, <2>3 DEF Fates
  <2>4. QED
    BY <2>1, <2>2, <2>3
<1>14. CASE messages[h].op = "auth" /\ pending = 0
  <2>1. Fate(h, "ignored") /\ UNCHANGED <<toClient, reader, pending, begun, cache, overlapped>>
    BY <1>2, <1>14 DEF Handle
  <2>2. ~(~overlapped)
    <3>1. SUFFICES ASSUME ~overlapped PROVE FALSE
      OBVIOUS
    <3>2. h \in Assertions
      <4>1. h = toServer[1] /\ 1 \in 1 .. Len(toServer)
        BY <1>1, <1>2 DEF StreamInv
      <4>2. h = ReadCount + 1 /\ ReadCount \in Nat
        BY <1>1, <4>1, StreamTypes DEF StreamInv
      <4>3. QED
        BY <1>3, <1>14, <4>2 DEF Assertions
    <3>3. pending = begun /\ messages[h].arg = begun
      BY <1>1, <3>1, <3>2 DEF FlightInv, Streamed
    <3>4. messages[h].arg \in 1 .. begun
      BY <1>1, <1>3, <1>14 DEF StreamInv
    <3>5. QED
      BY <1>14, <3>3, <3>4
  <2>3. QED
    BY <1>8, <1>9, <2>1, <2>2 DEF Fates
<1>15. CASE messages[h].op = "auth" /\ pending # 0
  <2>1. /\ reader' = [Idle EXCEPT !.at = "lookup", !.message = h]
        /\ UNCHANGED <<toClient, messages, pending, begun, cache, overlapped>>
    BY <1>2, <1>15 DEF Handle
  <2>2. /\ reader' \in Readers /\ reader'.at = "lookup" /\ reader'.message = h
        /\ Judging'
    <3>1. h \in Nat
      BY <1>3
    <3>2. reader' = [at |-> "lookup", message |-> h, judged |-> 0, ok |-> FALSE]
      BY <2>1 DEF Idle
    <3> HIDE DEF h
    <3>3. QED
      BY <3>1, <3>2 DEF Readers, Judging
  <2>3. SameMessages(messages[h].fate) /\ messages[h].fate \in Fates
    BY <1>1, <1>3, <2>1 DEF StreamInv, MessageRecords
  <2>4. ReadOne
    BY <1>5, <1>7, <2>1, <2>3
  <2>5. SessionInv'
    <3>1. 1 .. ReadCount \subseteq 1 .. ReadCount' /\ h \in 1 .. ReadCount'
      BY <2>4
    <3>2. \A f \in toClient : /\ f.op = "challenge" => f.number \in 1 .. begun
                              /\ f.op = "answer" => f.number \in 1 .. ReadCount'
      BY <1>1, <3>1 DEF SessionInv
    <3>3. QED
      BY <1>1, <1>2, <1>15, <2>1, <2>2, <3>1, <3>2 DEF SessionInv
  <2>6. VerdictInv'
    BY <1>1, <1>2, <2>1, <2>2 DEF VerdictInv
  <2>7. FlightInv'
    <3>1. SUFFICES ASSUME ~overlapped PROVE FlightInv'
      BY <2>1 DEF FlightInv
    <3>2. h \in Assertions /\ Streamed
      BY <1>15, <2>4 DEF Streamed
    <3>3. ~Asked /\ ~Framed /\ pending = begun /\ messages[h].arg = begun /\ Assertions' = {}
      BY <1>1, <2>4, <3>1, <3>2 DEF FlightInv
    <3>4. ~Asked' /\ ~Framed' /\ ~Streamed' /\ prompts' = {}
      BY <1>2, <2>1, <3>3 DEF Asked, Framed, Streamed
    <3>5. AssertionsJudged'
      BY <1>1, <1>2, <2>1, <3>1 DEF FlightInv, AssertionsJudged
    <3>6. QED
      BY <2>1, <2>2, <3>3, <3>4, <3>5 DEF FlightInv, Framed
  <2>8. QED
    BY <2>4, <2>5, <2>6, <2>7 DEF HandlingInv
<1>16. QED
  BY <1>3, <1>4, <1>10, <1>11, <1>12, <1>13, <1>14, <1>15 DEF Ops, TooLong

(***************************************************************************)
(* The theorems.                                                           *)
(***************************************************************************)

\* What the session and the client do is a step of the limiter, or none.
LEMMA LimiterStep ==
  ASSUME [IntentNext]_intentVars
  PROVE  [Next]_vars
<1>1. CASE UNCHANGED intentVars
  BY <1>1 DEF intentVars
<1>2. CASE Clock
  BY <1>2 DEF Clock, Next
<1>3. CASE Session
  BY <1>3 DEF Session, StopReading, DropIntent, HookVetoes, HandleIntent, LookupFails,
              AnswerAuth, Verify, Next
<1>4. CASE BeginAuthAside
  BY <1>4 DEF BeginAuthAside
<1>5. ASSUME NEW link \in Links, Hover(link) PROVE [Next]_vars
  BY <1>5 DEF Hover
<1>6. ASSUME NEW op, SendIntent(op) PROVE [Next]_vars
  BY <1>6 DEF SendIntent
<1>7. ASSUME NEW n \in prompts, GiveAssertion(n) \/ AssertionFails(n) PROVE [Next]_vars
  BY <1>7 DEF GiveAssertion, AssertionFails
<1>8. ASSUME NEW frame \in toClient, ReceiveFrame(frame) PROVE [Next]_vars
  BY <1>8 DEF ReceiveFrame
<1>9. QED
  BY <1>1, <1>2, <1>3, <1>4, <1>5, <1>6, <1>7, <1>8 DEF IntentNext

\* A step that leaves the session, the client and the stream alone.
LEMMA OthersStutter ==
  ASSUME HandlingInv, spent' = spent,
         UNCHANGED <<toServer, lastHover, prompts, reader, pending, begun, cache, total,
                     dropped, toClient, messages, verdicts, overlapped>>
  PROVE  HandlingInv'
<1>1. StreamInv /\ SessionInv /\ VerdictInv /\ FlightInv
  BY DEF HandlingInv
<1>2. ReadCount' = ReadCount /\ Assertions' = Assertions /\ Judging' = Judging
  BY DEF ReadCount, Assertions, Judging
<1>3. StreamInv' /\ SessionInv' /\ VerdictInv'
  BY <1>1, <1>2 DEF StreamInv, SessionInv, VerdictInv
<1>4. FlightInv'
  BY <1>1, <1>2 DEF FlightInv, AssertionsJudged, Asked, Framed, Streamed
<1>5. QED
  BY <1>3, <1>4 DEF HandlingInv

\* Every step keeps the invariant.
LEMMA IntentStep ==
  ASSUME IntentInv, [IntentNext]_intentVars
  PROVE  IntentInv'
<1>1. LimiterInv /\ HandlingInv /\ TypeOK
  BY DEF IntentInv, LimiterInv
<1>2. LimiterInv'
  BY <1>1, LimiterStep, LimiterNext
<1>3. CASE UNCHANGED intentVars
  <2>1. /\ spent' = spent
        /\ UNCHANGED <<toServer, lastHover, prompts, reader, pending, begun, cache, total,
                       dropped, toClient, messages, verdicts, overlapped>>
    BY <1>3 DEF intentVars, vars, clientVars, sessionVars
  <2>2. QED
    BY <1>1, <1>2, <2>1, OthersStutter DEF IntentInv
<1>4. CASE Clock
  <2>1. /\ spent' = spent
        /\ UNCHANGED <<toServer, lastHover, prompts, reader, pending, begun, cache, total,
                       dropped, toClient, messages, verdicts, overlapped>>
    BY <1>4 DEF Clock, Tick, clientVars, sessionVars
  <2>2. QED
    BY <1>1, <1>2, <2>1, OthersStutter DEF IntentInv
<1>5. CASE Session
  BY <1>1, <1>2, <1>5, StopReadingStep, DroppedOrVetoed, HandleIntentStep, LookupFailsStep,
     AnswerAuthStep, VerifyStep DEF Session, IntentInv
<1>6. CASE BeginAuthAside
  <2>1. BeginAuth /\ UNCHANGED <<toServer, prompts, reader, cache, total, dropped, messages,
                                 verdicts, spent>>
    BY <1>6 DEF BeginAuthAside, clientVars, vars
  <2>2. StreamInv /\ SessionInv
    BY <1>1 DEF HandlingInv
  <2>3. ReadCount' = ReadCount /\ Assertions' = Assertions /\ ReadCount \in Nat
    BY <2>1, <2>2, StreamTypes DEF ReadCount, Assertions
  <2>4. begun \in Nat /\ begun' = begun + 1 /\ 1 .. begun \subseteq 1 .. begun'
    BY <2>1, <2>2 DEF BeginAuth, SessionInv
  <2>5. StreamInv'
    BY <2>1, <2>2, <2>3, <2>4 DEF StreamInv
  <2>6. ReadCount <= ReadCount'
    BY <2>3
  <2>7. QED
    BY <1>1, <1>2, <2>1, <2>3, <2>5, <2>6, BeginAuthStep DEF IntentInv
<1>7. ASSUME NEW link \in Links, Hover(link) PROVE IntentInv'
  <2> DEFINE msg == Message("hover", link)
  <2>1. msg \in MessageRecords /\ msg.fate = "waiting" /\ msg.op = "hover" /\ msg.arg = link
    BY DEF Message, MessageRecords, Ops, Fates
  <2> HIDE DEF msg
  <2>2. /\ Send(msg) /\ prompts' = prompts /\ toClient' \subseteq toClient
        /\ UNCHANGED <<sessionVars, verdicts, overlapped, spent>>
    BY <1>7 DEF Hover, vars, msg
  <2>3. QED
    BY <1>1, <1>2, <2>1, <2>2, SendStep DEF IntentInv
<1>8. ASSUME NEW op \in {"click", "devtools", "long"}, SendIntent(op) PROVE IntentInv'
  <2> DEFINE msg == Message(op, 0)
  <2>1. msg \in MessageRecords /\ msg.fate = "waiting" /\ msg.op = op
    BY DEF Message, MessageRecords, Ops, Fates
  <2> HIDE DEF msg
  <2>2. /\ Send(msg) /\ prompts' = prompts /\ toClient' \subseteq toClient
        /\ UNCHANGED <<sessionVars, verdicts, overlapped, spent>>
    BY <1>8 DEF SendIntent, vars, msg
  <2>3. QED
    BY <1>1, <1>2, <2>1, <2>2, SendStep DEF IntentInv
<1>9. ASSUME NEW n \in prompts, GiveAssertion(n) PROVE IntentInv'
  <2> DEFINE msg == Message("auth", n)
  <2>1. n \in Nat
    BY <1>1 DEF HandlingInv, SessionInv
  <2>2. msg \in MessageRecords /\ msg.fate = "waiting" /\ msg.op = "auth" /\ msg.arg = n
    BY <2>1 DEF Message, MessageRecords, Ops, Fates
  <2> HIDE DEF msg
  <2>3. /\ Send(msg) /\ prompts' = prompts \ {n} /\ toClient' \subseteq toClient
        /\ UNCHANGED <<sessionVars, verdicts, overlapped, spent>>
    BY <1>9 DEF GiveAssertion, vars, msg
  <2>4. QED
    BY <1>1, <1>2, <2>2, <2>3, SendStep DEF IntentInv
<1>10. ASSUME NEW n \in prompts, AssertionFails(n) PROVE IntentInv'
  <2>1. /\ prompts' = prompts \ {n}
        /\ UNCHANGED <<toServer, reader, pending, begun, cache, total, dropped, toClient,
                       messages, verdicts, overlapped, spent>>
    BY <1>10 DEF AssertionFails, vars, sessionVars
  <2>2. StreamInv /\ SessionInv
    BY <1>1 DEF HandlingInv
  <2>3. ReadCount' = ReadCount /\ Assertions' = Assertions /\ ReadCount \in Nat
    BY <2>1, <2>2, StreamTypes DEF ReadCount, Assertions
  <2>4. StreamInv'
    BY <2>1, <2>2, <2>3 DEF StreamInv
  <2>5. /\ cache' \subseteq Links /\ IsFiniteSet(cache') /\ Cardinality(cache') <= CacheLimit
        /\ ReadCount <= ReadCount'
    BY <2>1, <2>2, <2>3 DEF SessionInv
  <2>6. QED
    BY <1>1, <1>2, <2>1, <2>3, <2>4, <2>5, PlainStep DEF IntentInv
<1>11. ASSUME NEW frame \in toClient, ReceiveFrame(frame) PROVE IntentInv'
  <2>1. /\ toClient' \subseteq toClient /\ UNCHANGED <<sessionVars, verdicts, overlapped, spent>>
        /\ frame \in Frames /\ frame.op \in {"hello", "challenge", "answer"}
    BY <1>1, <1>11 DEF ReceiveFrame, vars, HandlingInv, SessionInv, Frames
  <2>2. CASE frame.op = "hello"
    <3> DEFINE msg == Message("hello", 0)
    <3>1. msg \in MessageRecords /\ msg.fate = "waiting" /\ msg.op = "hello"
      BY DEF Message, MessageRecords, Ops, Fates
    <3> HIDE DEF msg
    <3>2. Send(msg) /\ prompts' = prompts
      BY <1>11, <2>2 DEF ReceiveFrame, ReceiveHello, msg
    <3>3. QED
      BY <1>1, <1>2, <2>1, <3>1, <3>2, SendStep DEF IntentInv
  <2>3. CASE frame.op = "challenge"
    BY <1>1, <1>2, <1>11, <2>3, ReceiveChallengeStep DEF IntentInv
  <2>4. CASE frame.op = "answer"
    <3>1. StreamInv /\ SessionInv
      BY <1>1 DEF HandlingInv
    <3>2. /\ Fate(frame.number, "delivered") /\ UNCHANGED <<prompts, toServer>>
      BY <1>11, <2>4 DEF ReceiveFrame, ReceiveAnswer, Fate
    <3>3. frame.number \in 1 .. ReadCount /\ frame.number \in 1 .. Len(messages)
      BY <2>4, <3>1, StreamTypes DEF SessionInv
    <3>4. /\ UNCHANGED <<reader, pending, begun, cache, total, dropped>>
      BY <2>1 DEF sessionVars
    <3>5. StreamInv' /\ ReadCount' = ReadCount /\ Assertions' = Assertions /\ ReadCount \in Nat
      BY <2>1, <3>1, <3>2, <3>3, <3>4, FateOfRead, StreamTypes DEF Fates
    <3>6. /\ Len(messages') = Len(messages) /\ messages'[frame.number].fate = "delivered"
          /\ \A j \in 1 .. Len(messages) :
                 /\ messages'[j].op = messages[j].op /\ messages'[j].arg = messages[j].arg
                 /\ j # frame.number => messages'[j] = messages[j]
      BY <3>1, <3>2, <3>3, FateFacts DEF Fates
    <3>7. /\ cache' \subseteq Links /\ IsFiniteSet(cache') /\ Cardinality(cache') <= CacheLimit
          /\ ReadCount <= ReadCount'
      BY <3>1, <3>4, <3>5 DEF SessionInv
    <3>8. \A m \in 1 .. Len(messages) :
              /\ messages'[m].op = messages[m].op /\ messages'[m].arg = messages[m].arg
              /\ messages'[m].fate = "ignored" => messages[m].fate = "ignored"
      BY <3>6
    <3>9. QED
      BY <1>1, <1>2, <2>1, <3>2, <3>4, <3>5, <3>6, <3>7, <3>8, PlainStep DEF IntentInv
  <2>5. QED
    BY <2>1, <2>2, <2>3, <2>4
<1>12. QED
  BY <1>3, <1>4, <1>5, <1>6, <1>7, <1>8, <1>9, <1>10, <1>11 DEF IntentNext

\* The initial state satisfies the invariant.
LEMMA IntentStart == IntentInit => IntentInv
<1> SUFFICES ASSUME IntentInit PROVE IntentInv
  OBVIOUS
<1>1. LimiterInv /\ spent = 0
  BY LimiterInit DEF IntentInit, Init
<1>2. messages = <<>> /\ toServer = <<>> /\ ReadCount = 0 /\ Len(messages) = 0
  BY DEF IntentInit, ReadCount
<1>3. StreamInv
  <2>1. Unit * 0 = 0
    BY LimiterAssumption
  <2>2. QED
    BY <1>1, <1>2, <2>1 DEF IntentInit, StreamInv
<1>4. /\ ~Judging /\ reader \in Readers /\ reader.at # "verified"
      /\ toClient \subseteq Frames /\ \A f \in toClient : f.op = "hello"
  BY DEF IntentInit, Idle, Readers, Judging, Frames
<1>5. IsFiniteSet(cache) /\ Cardinality(cache) = 0
  BY FS_EmptySet DEF IntentInit
<1>6. SessionInv
  <2>1. /\ begun = 0 /\ pending = 0 /\ prompts = {} /\ cache = {}
        /\ 0 \in 0 .. MaxChallenges /\ 0 <= CacheLimit
    BY IntentsAssumption DEF IntentInit
  <2>2. overlapped \in BOOLEAN
    BY DEF IntentInit
  <2>3. QED
    BY <1>4, <1>5, <2>1, <2>2 DEF SessionInv
<1>7. VerdictInv
  BY DEF IntentInit, VerdictInv
<1>8. FlightInv
  <2>1. ~Asked /\ ~Framed /\ Assertions = {} /\ prompts = {}
    BY <1>2, <1>4 DEF IntentInit, Asked, Framed, Assertions
  <2>2. AssertionsJudged
    BY <1>2 DEF IntentInit, AssertionsJudged
  <2>3. QED
    BY <1>4, <2>1, <2>2 DEF FlightInv, Streamed
<1>9. QED
  BY <1>1, <1>3, <1>6, <1>7, <1>8 DEF IntentInv, HandlingInv

\* In every reachable state the stream, the counters, the challenges and the
\* verdicts agree as the invariant says.
THEOREM IntentInvariant == IntentSpec => []IntentInv
<1>1. IntentInv /\ [IntentNext]_intentVars => IntentInv'
  BY IntentStep
<1>2. QED
  BY IntentStart, <1>1, PTL DEF IntentSpec

\* The limiter in front of a session is the limiter: whatever the session and
\* its client do, what they do to the bucket is a behaviour of RateLimiter.
THEOREM SessionUsesLimiter == IntentSpec => Spec
<1>1. IntentInit => Init
  BY DEF IntentInit
<1>2. [IntentNext]_intentVars => [Next]_vars
  BY LimiterStep
<1>3. QED
  BY <1>1, <1>2, PTL DEF IntentSpec, Spec

\* So every period lets through at most a burst and what the rate adds.
THEOREM SessionWindowBounded == IntentSpec => []WindowBound
BY SessionUsesLimiter, WindowBounded, PTL

\* A challenge is good for one verdict, however BeginAuth in other goroutines
\* falls between the check of a challenge, its use and its clearing.  Each
\* message that is read is counted once, and costs a token if it is let through.
THEOREM OneVerdict == IntentSpec => []OneVerdictPerChallenge
<1>1. ASSUME IntentInv PROVE OneVerdictPerChallenge
  <2>1. LimiterInv /\ StreamInv /\ SessionInv /\ VerdictInv /\ TypeOK
    BY <1>1 DEF IntentInv, HandlingInv, LimiterInv
  <2>2. Read = 1 .. ReadCount /\ Cardinality(Read) = ReadCount
    BY <2>1, ReadIsPrefix
  <2>3. /\ \A m \in DOMAIN messages : m \notin Read => messages[m].fate = "waiting"
        /\ total + dropped = Cardinality(Read) /\ spent = Unit * total
    BY <2>1, <2>2, StreamTypes DEF StreamInv
  <2>4. /\ reader.at \in {"idle", "lookup", "verified", "stopped"}
        /\ reader.at \in {"lookup", "verified"} => reader.message \in Read
    BY <2>1, <2>2 DEF SessionInv, Readers, Judging
  <2>5. IntentTypeOK
    BY <2>1, <2>3, <2>4 DEF IntentTypeOK, SessionInv
  <2>6. QED
    BY <2>1, <2>5 DEF OneVerdictPerChallenge, VerdictInv
<1>2. QED
  BY <1>1, IntentInvariant, PTL

\* Unless BeginAuth overlaps a challenge that is on the way, every assertion that
\* is let through is judged by its own challenge, and none is ignored.
THEOREM AssertionsOwnChallenge == IntentSpec => []AssertionsJudged
<1>1. ASSUME IntentInv PROVE AssertionsJudged
  BY <1>1 DEF IntentInv, HandlingInv, FlightInv, AssertionsJudged
<1>2. QED
  BY <1>1, IntentInvariant, PTL
=============================================================================
