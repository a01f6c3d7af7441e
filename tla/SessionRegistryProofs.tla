----------------------- MODULE SessionRegistryProofs -----------------------
(***************************************************************************)
(* Proofs about SessionRegistry, for every finite set of connections and   *)
(* every size of the pool.                                                 *)
(***************************************************************************)
EXTENDS SessionRegistry, FiniteSetTheorems, SequenceTheorems, TLAPS

\* The connections whose handler is in a given set of places are finitely
\* many: they are some of Conns.
LEMMA AtFinite ==
  ASSUME NEW S
  PROVE  /\ IsFiniteSet(At(S))
         /\ Cardinality(At(S)) \in Nat
<1>1. At(S) \subseteq Conns
  BY DEF At
<1>2. IsFiniteSet(At(S))
  BY <1>1, FS_Subset, RegistryAssumption
<1>3. QED
  BY <1>2, FS_CardinalityType

\* What the move of one handler does to the set of handlers in the places S.
LEMMA Move ==
  ASSUME pc \in [Conns -> PCs],
         NEW c \in Conns, NEW from, NEW to \in PCs,
         Goto(c, from, to),
         NEW S
  PROVE  /\ pc' \in [Conns -> PCs]
         /\ (from \in S <=> to \in S) => At(S)' = At(S)
         /\ from \notin S /\ to \in S =>
                /\ At(S)' = At(S) \cup {c}
                /\ Cardinality(At(S)') = Cardinality(At(S)) + 1
         /\ from \in S /\ to \notin S =>
                /\ At(S)' = At(S) \ {c}
                /\ Cardinality(At(S)') = Cardinality(At(S)) - 1
<1>1. pc' \in [Conns -> PCs] /\ pc[c] = from /\ pc'[c] = to
      /\ \A d \in Conns \ {c} : pc'[d] = pc[d]
  BY DEF Goto
<1>2. ASSUME from \in S <=> to \in S PROVE At(S)' = At(S)
  BY <1>1, <1>2 DEF At
<1>3. ASSUME from \notin S, to \in S
      PROVE  /\ At(S)' = At(S) \cup {c}
             /\ Cardinality(At(S)') = Cardinality(At(S)) + 1
  <2>1. At(S)' = At(S) \cup {c} /\ c \notin At(S)
    BY <1>1, <1>3 DEF At
  <2>2. QED
    BY <2>1, AtFinite, FS_AddElement
<1>4. ASSUME from \in S, to \notin S
      PROVE  /\ At(S)' = At(S) \ {c}
             /\ Cardinality(At(S)') = Cardinality(At(S)) - 1
  <2>1. At(S)' = At(S) \ {c} /\ c \in At(S)
    BY <1>1, <1>4 DEF At
  <2>2. QED
    BY <2>1, AtFinite, FS_RemoveElement
<1>5. QED
  BY <1>1, <1>2, <1>3, <1>4

\* Appending to the one-element and two-element sequences of hooks.
LEMMA AppendToOne ==
  ASSUME NEW x, NEW y
  PROVE  Append(<<x>>, y) = <<x, y>>
<1> DEFINE S == {x, y}
           s == Append(<<x>>, y)
           t == <<x, y>>
<1>1. <<x>> \in Seq(S) /\ t \in Seq(S) /\ Len(t) = 2 /\ t[1] = x /\ t[2] = y
  OBVIOUS
<1>2. s \in Seq(S) /\ Len(s) = 2 /\ s[1] = x /\ s[2] = y
  BY <1>1, AppendProperties
<1>3. \A i \in 1 .. Len(s) : s[i] = t[i]
  BY <1>1, <1>2
<1> HIDE DEF s, t
<1>4. s = t
  BY <1>1, <1>2, <1>3, SeqEqual
<1>5. QED
  BY <1>4 DEF s, t

\* A third hook makes the two a full life.
LEMMA AppendToTwo ==
  ASSUME NEW x, NEW y, NEW z
  PROVE  Append(<<x, y>>, z) = <<x, y, z>>
<1> DEFINE S == {x, y, z}
           s == Append(<<x, y>>, z)
           t == <<x, y, z>>
<1>1. /\ <<x, y>> \in Seq(S) /\ t \in Seq(S) /\ Len(t) = 3
      /\ t[1] = x /\ t[2] = y /\ t[3] = z
  OBVIOUS
<1>2. s \in Seq(S) /\ Len(s) = 3 /\ s[1] = x /\ s[2] = y /\ s[3] = z
  BY <1>1, AppendProperties
<1>3. \A i \in 1 .. Len(s) : s[i] = t[i]
  BY <1>1, <1>2
<1> HIDE DEF s, t
<1>4. s = t
  BY <1>1, <1>2, <1>3, SeqEqual
<1>5. QED
  BY <1>4 DEF s, t

\* The same for the three sets that the registry, the gauge and the counter
\* stand for.
LEMMA MoveBooks ==
  ASSUME pc \in [Conns -> PCs],
         NEW c \in Conns, NEW from, NEW to \in PCs,
         Goto(c, from, to)
  PROVE  /\ pc' \in [Conns -> PCs]
         /\ c \in Registered <=> from \in InRegistry
         /\ Registered' = IF to \in InRegistry THEN Registered \cup {c}
                                               ELSE Registered \ {c}
         /\ Cardinality(Gauged') = Cardinality(Gauged)
                + (IF to \in InGauge THEN 1 ELSE 0)
                - (IF from \in InGauge THEN 1 ELSE 0)
         /\ Cardinality(Entered') = Cardinality(Entered)
                + (IF to \in NotCounted THEN 0 ELSE 1)
                - (IF from \in NotCounted THEN 0 ELSE 1)
<1>1. pc' \in [Conns -> PCs] /\ pc[c] = from /\ pc'[c] = to /\ from \in PCs
      /\ \A d \in Conns \ {c} : pc'[d] = pc[d]
  BY DEF Goto
<1>2. (c \in Registered <=> from \in InRegistry) /\
      Registered' = IF to \in InRegistry THEN Registered \cup {c}
                                         ELSE Registered \ {c}
  BY <1>1 DEF Registered, At
<1>3. Cardinality(Gauged') = Cardinality(Gauged)
                + (IF to \in InGauge THEN 1 ELSE 0)
                - (IF from \in InGauge THEN 1 ELSE 0)
  <2>1. Cardinality(At(InGauge)) \in Nat
    BY AtFinite
  <2>2. QED
    BY <2>1, Move DEF Gauged
<1>4. Cardinality(Entered') = Cardinality(Entered)
                + (IF to \in NotCounted THEN 0 ELSE 1)
                - (IF from \in NotCounted THEN 0 ELSE 1)
  <2>1. Cardinality(At(PCs \ NotCounted)) \in Nat
    BY AtFinite
  <2>2. to \in PCs \ NotCounted <=> to \notin NotCounted
    OBVIOUS
  <2>3. from \in PCs \ NotCounted <=> from \notin NotCounted
    BY <1>1
  <2>4. QED
    BY <2>1, <2>2, <2>3, Move DEF Entered
<1>5. QED
  BY <1>1, <1>2, <1>3, <1>4

\* A handler's move keeps the registry exact when the change of the map, if
\* any, is the one the places ask for.
LEMMA RegistryMove ==
  ASSUME pc \in [Conns -> PCs], RegistryExact,
         NEW c \in Conns, NEW from, NEW to \in PCs,
         Goto(c, from, to),
         \/ sessions' = sessions /\ (from \in InRegistry <=> to \in InRegistry)
         \/ sessions' = sessions \cup {c} /\ to \in InRegistry
         \/ sessions' = sessions \ {c} /\ to \notin InRegistry
  PROVE  RegistryExact'
<1>1. /\ c \in Registered <=> from \in InRegistry
      /\ Registered' = IF to \in InRegistry THEN Registered \cup {c}
                                            ELSE Registered \ {c}
  BY MoveBooks
<1>2. QED
  BY <1>1 DEF RegistryExact

\* A step keeps the registry what the places of the handlers say.
LEMMA RegistryStep ==
  ASSUME pc \in [Conns -> PCs], RegistryExact, [Next]_vars
  PROVE  RegistryExact'
<1> USE DEF InRegistry, PCs
<1>1. ASSUME NEW c \in Conns, Arrive(c) PROVE RegistryExact'
  BY <1>1, RegistryMove DEF Arrive
<1>2. ASSUME NEW c \in Conns, PeerLeaves(c) PROVE RegistryExact'
  BY <1>2 DEF PeerLeaves, RegistryExact, Registered, At
<1>3. ASSUME NEW c \in Conns, CheckPool(c) PROVE RegistryExact'
  BY <1>3, RegistryMove DEF CheckPool
<1>4. ASSUME NEW c \in Conns, Register(c) PROVE RegistryExact'
  BY <1>4, RegistryMove DEF Register
<1>5. ASSUME NEW c \in Conns, CountIn(c) PROVE RegistryExact'
  BY <1>5, RegistryMove DEF CountIn
<1>6. ASSUME NEW c \in Conns, ConnectHook(c) PROVE RegistryExact'
  BY <1>6, RegistryMove DEF ConnectHook
<1>7. ASSUME NEW c \in Conns, Refuse(c) PROVE RegistryExact'
  <2>1. CASE Unregister(c, "refusing", "refusedUnregistered")
    BY <2>1, RegistryMove DEF Unregister
  <2>2. CASE CloseSession(c, "refusedUnregistered", "refusedClosed")
    BY <2>2, RegistryMove DEF CloseSession
  <2>3. CASE CountOut(c, "refusedClosed", "refused")
    BY <2>3, RegistryMove DEF CountOut
  <2>4. QED
    BY <1>7, <2>1, <2>2, <2>3 DEF Refuse
<1>8. ASSUME NEW c \in Conns, SendHello(c) PROVE RegistryExact'
  BY <1>8, RegistryMove DEF SendHello
<1>9. ASSUME NEW c \in Conns, Mount(c) PROVE RegistryExact'
  BY <1>9, RegistryMove DEF Mount, CloseSession
<1>10. ASSUME NEW c \in Conns, MountFailed(c) PROVE RegistryExact'
  BY <1>10, RegistryMove DEF MountFailed, CountOut
<1>11. ASSUME NEW c \in Conns, MountHook(c) PROVE RegistryExact'
  BY <1>11, RegistryMove DEF MountHook
<1>12. ASSUME NEW c \in Conns, DisconnectHook(c) PROVE RegistryExact'
  BY <1>12, RegistryMove DEF DisconnectHook
<1>13. ASSUME NEW c \in Conns, CleanUp(c) PROVE RegistryExact'
  <2>1. CASE Unregister(c, "leftHook", "leftRegistry")
    BY <2>1, RegistryMove DEF Unregister
  <2>2. CASE CloseSession(c, "leftRegistry", "leftClosed")
    BY <2>2, RegistryMove DEF CloseSession
  <2>3. CASE CountOut(c, "leftClosed", "done")
    BY <2>3, RegistryMove DEF CountOut
  <2>4. QED
    BY <1>13, <2>1, <2>2, <2>3 DEF CleanUp
<1>14. ASSUME NEW c \in Conns, ReaderEnds(c) PROVE RegistryExact'
  BY <1>14, RegistryMove DEF ReaderEnds
<1>15. CASE StopHTTP
  BY <1>15 DEF StopHTTP, RegistryExact, Registered, At
<1>16. CASE CloseSessions
  BY <1>16 DEF CloseSessions, RegistryExact, Registered, At
<1>17. CASE CloseWebTransport
  BY <1>17 DEF CloseWebTransport, RegistryExact, Registered, At
<1>18. CASE UNCHANGED vars
  BY <1>18 DEF vars, RegistryExact, Registered, At
<1>19. QED
  BY <1>1, <1>2, <1>3, <1>4, <1>5, <1>6, <1>7, <1>8, <1>9, <1>10,
     <1>11, <1>12, <1>13, <1>14, <1>15, <1>16, <1>17, <1>18
  DEF Next, Handler, Shutdown

\* A step keeps the gauge what the places of the handlers say.
LEMMA GaugeStep ==
  ASSUME pc \in [Conns -> PCs], active \in Nat, GaugeExact, [Next]_vars
  PROVE  GaugeExact'
<1> USE DEF GaugeExact, InGauge, PCs
<1>1. ASSUME NEW c \in Conns, Arrive(c) PROVE GaugeExact'
  BY <1>1, MoveBooks DEF Arrive
<1>2. ASSUME NEW c \in Conns, PeerLeaves(c) PROVE GaugeExact'
  BY <1>2 DEF PeerLeaves, Gauged, At
<1>3. ASSUME NEW c \in Conns, CheckPool(c) PROVE GaugeExact'
  BY <1>3, MoveBooks DEF CheckPool
<1>4. ASSUME NEW c \in Conns, Register(c) PROVE GaugeExact'
  BY <1>4, MoveBooks DEF Register
<1>5. ASSUME NEW c \in Conns, CountIn(c) PROVE GaugeExact'
  BY <1>5, MoveBooks DEF CountIn
<1>6. ASSUME NEW c \in Conns, ConnectHook(c) PROVE GaugeExact'
  BY <1>6, MoveBooks DEF ConnectHook
<1>7. ASSUME NEW c \in Conns, Refuse(c) PROVE GaugeExact'
  BY <1>7, MoveBooks DEF Refuse, Unregister, CloseSession, CountOut
<1>8. ASSUME NEW c \in Conns, SendHello(c) PROVE GaugeExact'
  BY <1>8, MoveBooks DEF SendHello
<1>9. ASSUME NEW c \in Conns, Mount(c) PROVE GaugeExact'
  BY <1>9, MoveBooks DEF Mount, CloseSession
<1>10. ASSUME NEW c \in Conns, MountFailed(c) PROVE GaugeExact'
  BY <1>10, MoveBooks DEF MountFailed, CountOut
<1>11. ASSUME NEW c \in Conns, MountHook(c) PROVE GaugeExact'
  BY <1>11, MoveBooks DEF MountHook
<1>12. ASSUME NEW c \in Conns, DisconnectHook(c) PROVE GaugeExact'
  BY <1>12, MoveBooks DEF DisconnectHook
<1>13. ASSUME NEW c \in Conns, CleanUp(c) PROVE GaugeExact'
  BY <1>13, MoveBooks DEF CleanUp, Unregister, CloseSession, CountOut
<1>14. ASSUME NEW c \in Conns, ReaderEnds(c) PROVE GaugeExact'
  BY <1>14, MoveBooks DEF ReaderEnds
<1>15. CASE StopHTTP
  BY <1>15 DEF StopHTTP, Gauged, At
<1>16. CASE CloseSessions
  BY <1>16 DEF CloseSessions, Gauged, At
<1>17. CASE CloseWebTransport
  BY <1>17 DEF CloseWebTransport, Gauged, At
<1>18. CASE UNCHANGED vars
  BY <1>18 DEF vars, Gauged, At
<1>19. QED
  BY <1>1, <1>2, <1>3, <1>4, <1>5, <1>6, <1>7, <1>8, <1>9, <1>10,
     <1>11, <1>12, <1>13, <1>14, <1>15, <1>16, <1>17, <1>18
  DEF Next, Handler, Shutdown

\* A step keeps the counter what the places of the handlers say.
LEMMA TotalStep ==
  ASSUME pc \in [Conns -> PCs], total \in Nat, TotalExact, [Next]_vars
  PROVE  TotalExact'
<1> USE DEF TotalExact, NotCounted, PCs
<1>1. ASSUME NEW c \in Conns, Arrive(c) PROVE TotalExact'
  BY <1>1, MoveBooks DEF Arrive
<1>2. ASSUME NEW c \in Conns, PeerLeaves(c) PROVE TotalExact'
  BY <1>2 DEF PeerLeaves, Entered, At
<1>3. ASSUME NEW c \in Conns, CheckPool(c) PROVE TotalExact'
  BY <1>3, MoveBooks DEF CheckPool
<1>4. ASSUME NEW c \in Conns, Register(c) PROVE TotalExact'
  BY <1>4, MoveBooks DEF Register
<1>5. ASSUME NEW c \in Conns, CountIn(c) PROVE TotalExact'
  BY <1>5, MoveBooks DEF CountIn
<1>6. ASSUME NEW c \in Conns, ConnectHook(c) PROVE TotalExact'
  BY <1>6, MoveBooks DEF ConnectHook
<1>7. ASSUME NEW c \in Conns, Refuse(c) PROVE TotalExact'
  BY <1>7, MoveBooks DEF Refuse, Unregister, CloseSession, CountOut
<1>8. ASSUME NEW c \in Conns, SendHello(c) PROVE TotalExact'
  BY <1>8, MoveBooks DEF SendHello
<1>9. ASSUME NEW c \in Conns, Mount(c) PROVE TotalExact'
  BY <1>9, MoveBooks DEF Mount, CloseSession
<1>10. ASSUME NEW c \in Conns, MountFailed(c) PROVE TotalExact'
  BY <1>10, MoveBooks DEF MountFailed, CountOut
<1>11. ASSUME NEW c \in Conns, MountHook(c) PROVE TotalExact'
  BY <1>11, MoveBooks DEF MountHook
<1>12. ASSUME NEW c \in Conns, DisconnectHook(c) PROVE TotalExact'
  BY <1>12, MoveBooks DEF DisconnectHook
<1>13. ASSUME NEW c \in Conns, CleanUp(c) PROVE TotalExact'
  BY <1>13, MoveBooks DEF CleanUp, Unregister, CloseSession, CountOut
<1>14. ASSUME NEW c \in Conns, ReaderEnds(c) PROVE TotalExact'
  BY <1>14, MoveBooks DEF ReaderEnds
<1>15. CASE StopHTTP
  BY <1>15 DEF StopHTTP, Entered, At
<1>16. CASE CloseSessions
  BY <1>16 DEF CloseSessions, Entered, At
<1>17. CASE CloseWebTransport
  BY <1>17 DEF CloseWebTransport, Entered, At
<1>18. CASE UNCHANGED vars
  BY <1>18 DEF vars, Entered, At
<1>19. QED
  BY <1>1, <1>2, <1>3, <1>4, <1>5, <1>6, <1>7, <1>8, <1>9, <1>10,
     <1>11, <1>12, <1>13, <1>14, <1>15, <1>16, <1>17, <1>18
  DEF Next, Handler, Shutdown

\* What a handler's move has to do to keep what is known of closed sessions
\* and of the hooks.
LEMMA LifeMove ==
  ASSUME pc \in [Conns -> PCs], LifeExact,
         NEW c \in Conns, NEW from, NEW to,
         Goto(c, from, to),
         closed \subseteq closed',
         \A d \in Conns : d \in closed' => link'[d] = "down",
         to \in ClosedPlaces => c \in closed',
         hooks'[c] = HooksAt(to),
         \A d \in Conns \ {c} : hooks'[d] = hooks[d]
  PROVE  LifeExact'
<1>1. pc'[c] = to /\ \A d \in Conns \ {c} : pc'[d] = pc[d]
  BY DEF Goto
<1>2. QED
  BY <1>1 DEF LifeExact

\* A step keeps what is known of closed sessions and of the hooks.
LEMMA LifeStep ==
  ASSUME pc \in [Conns -> PCs],
         link \in [Conns -> {"up", "down"}],
         closed \subseteq Conns,
         sessions \subseteq Conns,
         hooks \in [Conns -> Seq(HookNames)],
         LifeExact, [Next]_vars
  PROVE  LifeExact'
<1> USE DEF LifeExact, ClosedPlaces, HooksAt, FullLife, NotCounted, PCs,
            RunHook, Goto
<1>1. ASSUME NEW c \in Conns, Arrive(c) PROVE LifeExact'
  BY <1>1 DEF Arrive
<1>2. ASSUME NEW c \in Conns, PeerLeaves(c) PROVE LifeExact'
  BY <1>2 DEF PeerLeaves
<1>3. ASSUME NEW c \in Conns, CheckPool(c) PROVE LifeExact'
  BY <1>3 DEF CheckPool
<1>4. ASSUME NEW c \in Conns, Register(c) PROVE LifeExact'
  BY <1>4 DEF Register
<1>5. ASSUME NEW c \in Conns, CountIn(c) PROVE LifeExact'
  BY <1>5 DEF CountIn
<1>6. ASSUME NEW c \in Conns, ConnectHook(c) PROVE LifeExact'
  <2>1. hooks[c] = <<>> /\ hooks'[c] = <<"connect">>
    <3>1. hooks[c] = <<>>
      BY <1>6 DEF ConnectHook
    <3>2. hooks'[c] = Append(hooks[c], "connect")
      BY <1>6 DEF ConnectHook
    <3>3. Append(<<>>, "connect") = <<"connect">>
      OBVIOUS
    <3>4. QED
      BY <3>1, <3>2, <3>3
  <2>2. \A d \in Conns \ {c} : hooks'[d] = hooks[d] /\ pc'[d] = pc[d]
    BY <1>6 DEF ConnectHook
  <2>3. closed' = closed /\ link' = link
    BY <1>6 DEF ConnectHook
  <2>4. ASSUME NEW to \in {"accepted", "refusing"}, Goto(c, "counted", to)
        PROVE  LifeExact'
    <3>1. to \notin ClosedPlaces /\ HooksAt(to) = <<"connect">>
      OBVIOUS
    <3> HIDE DEF LifeExact, ClosedPlaces, HooksAt, Goto
    <3>2. \A d \in Conns : d \in closed' => link'[d] = "down"
      BY <2>3 DEF LifeExact
    <3>3. QED
      BY <2>1, <2>2, <2>3, <2>4, <3>1, <3>2, LifeMove
  <2>5. QED
    BY <1>6, <2>4 DEF ConnectHook
<1>7. ASSUME NEW c \in Conns, Refuse(c) PROVE LifeExact'
  <2>1. CASE Unregister(c, "refusing", "refusedUnregistered")
    BY <2>1 DEF Unregister
  <2>2. CASE CloseSession(c, "refusedUnregistered", "refusedClosed")
    BY <2>2 DEF CloseSession
  <2>3. CASE CountOut(c, "refusedClosed", "refused")
    BY <2>3 DEF CountOut
  <2>4. QED
    BY <1>7, <2>1, <2>2, <2>3 DEF Refuse
<1>8. ASSUME NEW c \in Conns, SendHello(c) PROVE LifeExact'
  BY <1>8 DEF SendHello
<1>9. ASSUME NEW c \in Conns, Mount(c) PROVE LifeExact'
  <2>1. CASE Goto(c, "greeted", "rendered") /\ UNCHANGED <<link, closed, hooks>>
    BY <2>1
  <2>2. CASE CloseSession(c, "greeted", "mountClosed")
    BY <2>2 DEF CloseSession
  <2>3. QED
    BY <1>9, <2>1, <2>2 DEF Mount
<1>10. ASSUME NEW c \in Conns, MountFailed(c) PROVE LifeExact'
  BY <1>10 DEF MountFailed, CountOut
<1>11. ASSUME NEW c \in Conns, MountHook(c) PROVE LifeExact'
  <2>1. hooks[c] = <<"connect">> /\ hooks'[c] = <<"connect", "mount">>
    <3>1. hooks[c] = <<"connect">>
      BY <1>11 DEF MountHook
    <3>2. hooks'[c] = Append(hooks[c], "mount")
      BY <1>11 DEF MountHook
    <3>3. Append(<<"connect">>, "mount") = <<"connect", "mount">>
      BY AppendToOne
    <3>4. QED
      BY <3>1, <3>2, <3>3
  <2>2. \A d \in Conns \ {c} : hooks'[d] = hooks[d] /\ pc'[d] = pc[d]
    BY <1>11 DEF MountHook
  <2>3. Goto(c, "rendered", "reading") /\ closed' = closed /\ link' = link
    BY <1>11 DEF MountHook
  <2>4. "reading" \notin ClosedPlaces /\ HooksAt("reading") = <<"connect", "mount">>
    OBVIOUS
  <2> HIDE DEF LifeExact, ClosedPlaces, HooksAt, Goto
  <2>5. \A d \in Conns : d \in closed' => link'[d] = "down"
    BY <2>3 DEF LifeExact
  <2>6. QED
    BY <2>1, <2>2, <2>3, <2>4, <2>5, LifeMove
<1>12. ASSUME NEW c \in Conns, DisconnectHook(c) PROVE LifeExact'
  <2>1. hooks[c] = <<"connect", "mount">> /\ hooks'[c] = FullLife
    <3>1. hooks[c] = <<"connect", "mount">>
      BY <1>12 DEF DisconnectHook
    <3>2. hooks'[c] = Append(hooks[c], "disconnect")
      BY <1>12 DEF DisconnectHook
    <3>3. Append(<<"connect", "mount">>, "disconnect") = FullLife
      BY AppendToTwo
    <3>4. QED
      BY <3>1, <3>2, <3>3
  <2>2. \A d \in Conns \ {c} : hooks'[d] = hooks[d] /\ pc'[d] = pc[d]
    BY <1>12 DEF DisconnectHook
  <2>3. Goto(c, "leaving", "leftHook") /\ closed' = closed /\ link' = link
    BY <1>12 DEF DisconnectHook
  <2>4. "leftHook" \notin ClosedPlaces /\ HooksAt("leftHook") = FullLife
    OBVIOUS
  <2> HIDE DEF LifeExact, ClosedPlaces, HooksAt, Goto
  <2>5. \A d \in Conns : d \in closed' => link'[d] = "down"
    BY <2>3 DEF LifeExact
  <2>6. QED
    BY <2>1, <2>2, <2>3, <2>4, <2>5, LifeMove
<1>13. ASSUME NEW c \in Conns, CleanUp(c) PROVE LifeExact'
  <2>1. CASE Unregister(c, "leftHook", "leftRegistry")
    BY <2>1 DEF Unregister
  <2>2. CASE CloseSession(c, "leftRegistry", "leftClosed")
    BY <2>2 DEF CloseSession
  <2>3. CASE CountOut(c, "leftClosed", "done")
    BY <2>3 DEF CountOut
  <2>4. QED
    BY <1>13, <2>1, <2>2, <2>3 DEF CleanUp
<1>14. ASSUME NEW c \in Conns, ReaderEnds(c) PROVE LifeExact'
  BY <1>14 DEF ReaderEnds
<1>15. CASE StopHTTP
  BY <1>15 DEF StopHTTP
<1>16. CASE CloseSessions
  BY <1>16 DEF CloseSessions
<1>17. CASE CloseWebTransport
  BY <1>17 DEF CloseWebTransport
<1>18. CASE UNCHANGED vars
  BY <1>18 DEF vars
<1>19. QED
  BY <1>1, <1>2, <1>3, <1>4, <1>5, <1>6, <1>7, <1>8, <1>9, <1>10,
     <1>11, <1>12, <1>13, <1>14, <1>15, <1>16, <1>17, <1>18
  DEF Next, Handler, Shutdown

\* A step keeps the types, that of the gauge apart.
LEMMA TypeStep ==
  ASSUME TypeOK, [Next]_vars
  PROVE  /\ pc' \in [Conns -> PCs]
         /\ link' \in [Conns -> {"up", "down"}]
         /\ sessions' \subseteq Conns
         /\ closed' \subseteq Conns
         /\ total' \in Nat
         /\ hooks' \in [Conns -> Seq(HookNames)]
         /\ phase' \in Phases
         /\ raced' \in BOOLEAN
<1> DEFINE Typed ==
      /\ pc \in [Conns -> PCs]
      /\ link \in [Conns -> {"up", "down"}]
      /\ sessions \subseteq Conns
      /\ closed \subseteq Conns
      /\ total \in Nat
      /\ hooks \in [Conns -> Seq(HookNames)]
      /\ phase \in Phases
      /\ raced \in BOOLEAN
<1> USE DEF TypeOK, PCs, Phases, HookNames, RunHook, Goto
<1>1. ASSUME NEW c \in Conns, Arrive(c) PROVE Typed'
  BY <1>1 DEF Arrive
<1>2. ASSUME NEW c \in Conns, PeerLeaves(c) PROVE Typed'
  BY <1>2 DEF PeerLeaves
<1>3. ASSUME NEW c \in Conns, CheckPool(c) PROVE Typed'
  BY <1>3 DEF CheckPool
<1>4. ASSUME NEW c \in Conns, Register(c) PROVE Typed'
  BY <1>4 DEF Register
<1>5. ASSUME NEW c \in Conns, CountIn(c) PROVE Typed'
  BY <1>5 DEF CountIn
<1>6. ASSUME NEW c \in Conns, ConnectHook(c) PROVE Typed'
  <2>1. hooks' \in [Conns -> Seq(HookNames)]
    BY <1>6 DEF ConnectHook
  <2>2. pc' \in [Conns -> PCs]
    BY <1>6 DEF ConnectHook
  <2>3. QED
    BY <1>6, <2>1, <2>2 DEF ConnectHook
<1>7. ASSUME NEW c \in Conns, Refuse(c) PROVE Typed'
  BY <1>7 DEF Refuse, Unregister, CloseSession, CountOut
<1>8. ASSUME NEW c \in Conns, SendHello(c) PROVE Typed'
  BY <1>8 DEF SendHello
<1>9. ASSUME NEW c \in Conns, Mount(c) PROVE Typed'
  BY <1>9 DEF Mount, CloseSession
<1>10. ASSUME NEW c \in Conns, MountFailed(c) PROVE Typed'
  BY <1>10 DEF MountFailed, CountOut
<1>11. ASSUME NEW c \in Conns, MountHook(c) PROVE Typed'
  BY <1>11 DEF MountHook
<1>12. ASSUME NEW c \in Conns, DisconnectHook(c) PROVE Typed'
  BY <1>12 DEF DisconnectHook
<1>13. ASSUME NEW c \in Conns, CleanUp(c) PROVE Typed'
  BY <1>13 DEF CleanUp, Unregister, CloseSession, CountOut
<1>14. ASSUME NEW c \in Conns, ReaderEnds(c) PROVE Typed'
  BY <1>14 DEF ReaderEnds
<1>15. CASE StopHTTP
  BY <1>15 DEF StopHTTP
<1>16. CASE CloseSessions
  BY <1>16 DEF CloseSessions
<1>17. CASE CloseWebTransport
  BY <1>17 DEF CloseWebTransport
<1>18. CASE UNCHANGED vars
  BY <1>18 DEF vars
<1>19. QED
  BY <1>1, <1>2, <1>3, <1>4, <1>5, <1>6, <1>7, <1>8, <1>9, <1>10,
     <1>11, <1>12, <1>13, <1>14, <1>15, <1>16, <1>17, <1>18
  DEF Next, Handler, Shutdown

\* The connections that hold or are about to take a place in the pool.
Holders == At(InRegistry \cup {"admitted"})

PoolHolders == PoolSize > 0 /\ ~raced => Cardinality(Holders) <= PoolSize

\* What the move of one handler does to their number.
LEMMA MoveHolders ==
  ASSUME pc \in [Conns -> PCs],
         NEW c \in Conns, NEW from, NEW to \in PCs,
         Goto(c, from, to)
  PROVE  /\ Cardinality(Holders) \in Nat
         /\ Cardinality(Holders') = Cardinality(Holders)
                + (IF to \in InRegistry \cup {"admitted"} THEN 1 ELSE 0)
                - (IF from \in InRegistry \cup {"admitted"} THEN 1 ELSE 0)
<1>1. Cardinality(At(InRegistry \cup {"admitted"})) \in Nat
  BY AtFinite
<1>2. QED
  BY <1>1, Move DEF Holders

\* The limit of the pool, stated of the registry and of the holders.
LEMMA HoldersAre ==
  ASSUME RegistryExact
  PROVE  PoolHolders <=> PoolLimitUnlessRaced
<1>1. sessions \cup Admitted = Holders
  BY DEF RegistryExact, Registered, Admitted, Holders, At
<1>2. QED
  BY <1>1 DEF PoolHolders, PoolLimitUnlessRaced

\* A step keeps the limit, unless it is a race.
LEMMA HoldersStep ==
  ASSUME pc \in [Conns -> PCs], RegistryExact, PoolHolders, [Next]_vars
  PROVE  PoolHolders'
<1> USE DEF InRegistry, PCs
<1>1. ASSUME NEW c \in Conns, Arrive(c) PROVE PoolHolders'
  BY <1>1, MoveHolders, RegistryAssumption DEF PoolHolders, Arrive
<1>2. ASSUME NEW c \in Conns, PeerLeaves(c) PROVE PoolHolders'
  BY <1>2 DEF PeerLeaves, Holders, At, PoolHolders
<1>3. ASSUME NEW c \in Conns, CheckPool(c) PROVE PoolHolders'
  <2>1. CASE PoolFull
    BY <1>3, <2>1, MoveHolders DEF CheckPool, PoolHolders
  <2>2. CASE ~PoolFull
    <3>1. SUFFICES ASSUME PoolSize > 0, ~raced'
                   PROVE  Cardinality(Holders') <= PoolSize
      BY DEF PoolHolders
    <3>2. Goto(c, "new", "admitted") /\ ~ \E d \in Conns : pc[d] = "admitted"
      BY <1>3, <2>2, <3>1 DEF CheckPool
    <3>3. Holders = sessions
      BY <3>2 DEF Holders, RegistryExact, Registered, At
    <3>4. Cardinality(Holders) \in Nat
          /\ Cardinality(Holders') = Cardinality(Holders) + 1
      BY <3>2, MoveHolders
    <3>5. QED
      BY <2>2, <3>1, <3>3, <3>4, RegistryAssumption DEF PoolFull
  <2>3. QED
    BY <2>1, <2>2
<1>4. ASSUME NEW c \in Conns, Register(c) PROVE PoolHolders'
  BY <1>4, MoveHolders, RegistryAssumption DEF PoolHolders, Register
<1>5. ASSUME NEW c \in Conns, CountIn(c) PROVE PoolHolders'
  BY <1>5, MoveHolders, RegistryAssumption DEF PoolHolders, CountIn
<1>6. ASSUME NEW c \in Conns, ConnectHook(c) PROVE PoolHolders'
  BY <1>6, MoveHolders, RegistryAssumption DEF PoolHolders, ConnectHook
<1>7. ASSUME NEW c \in Conns, Refuse(c) PROVE PoolHolders'
  BY <1>7, MoveHolders, RegistryAssumption
  DEF PoolHolders, Refuse, Unregister, CloseSession, CountOut
<1>8. ASSUME NEW c \in Conns, SendHello(c) PROVE PoolHolders'
  BY <1>8, MoveHolders, RegistryAssumption DEF PoolHolders, SendHello
<1>9. ASSUME NEW c \in Conns, Mount(c) PROVE PoolHolders'
  BY <1>9, MoveHolders, RegistryAssumption DEF PoolHolders, Mount, CloseSession
<1>10. ASSUME NEW c \in Conns, MountFailed(c) PROVE PoolHolders'
  BY <1>10, MoveHolders, RegistryAssumption DEF PoolHolders, MountFailed, CountOut
<1>11. ASSUME NEW c \in Conns, MountHook(c) PROVE PoolHolders'
  BY <1>11, MoveHolders, RegistryAssumption DEF PoolHolders, MountHook
<1>12. ASSUME NEW c \in Conns, DisconnectHook(c) PROVE PoolHolders'
  BY <1>12, MoveHolders, RegistryAssumption DEF PoolHolders, DisconnectHook
<1>13. ASSUME NEW c \in Conns, CleanUp(c) PROVE PoolHolders'
  BY <1>13, MoveHolders, RegistryAssumption
  DEF PoolHolders, CleanUp, Unregister, CloseSession, CountOut
<1>14. ASSUME NEW c \in Conns, ReaderEnds(c) PROVE PoolHolders'
  BY <1>14, MoveHolders, RegistryAssumption DEF PoolHolders, ReaderEnds
<1>15. CASE StopHTTP
  BY <1>15 DEF StopHTTP, Holders, At, PoolHolders
<1>16. CASE CloseSessions
  BY <1>16 DEF CloseSessions, Holders, At, PoolHolders
<1>17. CASE CloseWebTransport
  BY <1>17 DEF CloseWebTransport, Holders, At, PoolHolders
<1>18. CASE UNCHANGED vars
  BY <1>18 DEF vars, Holders, At, PoolHolders
<1>19. QED
  BY <1>1, <1>2, <1>3, <1>4, <1>5, <1>6, <1>7, <1>8, <1>9, <1>10,
     <1>11, <1>12, <1>13, <1>14, <1>15, <1>16, <1>17, <1>18
  DEF Next, Handler, Shutdown

\* The initial state satisfies the inductive invariant.
LEMMA RegistryInit == Init => RegistryInv
<1> SUFFICES ASSUME Init PROVE RegistryInv
  OBVIOUS
<1>1. pc \in [Conns -> PCs] /\ \A c \in Conns : pc[c] = "idle"
  BY DEF Init, PCs
<1>2. Registered = {} /\ Gauged = {} /\ Entered = {} /\ Admitted = {}
  BY <1>1 DEF Registered, Gauged, Entered, Admitted, At, InRegistry, InGauge,
              NotCounted
<1>3. TypeOK
  <2>1. hooks \in [Conns -> Seq(HookNames)]
    <3>1. <<>> \in Seq(HookNames)
      OBVIOUS
    <3>2. QED
      BY <3>1 DEF Init
  <2>2. raced \in BOOLEAN /\ phase \in Phases
    BY DEF Init, Phases
  <2>3. link \in [Conns -> {"up", "down"}]
    BY DEF Init
  <2>4. QED
    BY <1>1, <2>1, <2>2, <2>3 DEF Init, TypeOK
<1>4. RegistryExact /\ GaugeExact /\ TotalExact
  BY <1>2, FS_EmptySet DEF Init, RegistryExact, GaugeExact, TotalExact
<1>5. LifeExact
  BY <1>1 DEF Init, LifeExact, ClosedPlaces, HooksAt, NotCounted
<1>6. PoolLimitUnlessRaced
  BY <1>2, FS_EmptySet, RegistryAssumption DEF Init, PoolLimitUnlessRaced
<1>7. QED
  BY <1>3, <1>4, <1>5, <1>6 DEF RegistryInv

\* RegistryInv is an invariant: the registry, the gauge and the counter agree
\* with the places of the handlers, and the pool limit holds unless two
\* admissions raced.
THEOREM RegistryInvariant == Spec => []RegistryInv
<1>1. RegistryInv /\ [Next]_vars => RegistryInv'
  <2> SUFFICES ASSUME RegistryInv, [Next]_vars PROVE RegistryInv'
    OBVIOUS
  <2>1. TypeOK /\ RegistryExact /\ GaugeExact /\ TotalExact /\ LifeExact
    BY DEF RegistryInv
  <2>2. RegistryExact'
    BY <2>1, RegistryStep DEF TypeOK
  <2>3. GaugeExact'
    BY <2>1, GaugeStep DEF TypeOK
  <2>4. TotalExact'
    BY <2>1, TotalStep DEF TypeOK
  <2>5. LifeExact'
    BY <2>1, LifeStep DEF TypeOK
  <2>6. PoolLimitUnlessRaced'
    <3>1. PoolHolders
      BY <2>1, HoldersAre DEF RegistryInv
    <3>2. PoolHolders'
      BY <2>1, <3>1, HoldersStep DEF TypeOK
    <3>3. Holders' = (sessions \cup Admitted)'
      BY <2>2 DEF RegistryExact, Registered, Admitted, Holders, At
    <3>4. QED
      BY <3>2, <3>3 DEF PoolHolders, PoolLimitUnlessRaced
  <2>7. TypeOK'
    <3>1. Cardinality(Gauged') \in Nat
      <4>1. \A S : S = InGauge => Cardinality({c \in Conns : pc'[c] \in S}) \in Nat
        BY FS_Subset, FS_CardinalityType, RegistryAssumption
      <4>2. QED
        BY <4>1 DEF Gauged, At
    <3>2. QED
      BY <2>1, <2>3, <3>1, TypeStep DEF TypeOK, GaugeExact
  <2>8. QED
    BY <2>2, <2>3, <2>4, <2>5, <2>6, <2>7 DEF RegistryInv
<1>2. QED
  BY RegistryInit, <1>1, PTL DEF Spec

\* The state keeps its type and SessionsActive is never negative.
THEOREM TypeCorrect == Spec => []TypeOK
<1>1. RegistryInv => TypeOK
  BY DEF RegistryInv
<1>2. QED
  BY RegistryInvariant, <1>1, PTL

\* The pool holds at most PoolSize sessions, unless a connection passed the
\* check before an earlier one that passed it was registered.
THEOREM PoolLimitHolds == Spec => []PoolLimitUnlessRaced
<1>1. RegistryInv => PoolLimitUnlessRaced
  BY DEF RegistryInv
<1>2. QED
  BY RegistryInvariant, <1>1, PTL

\* At rest every session that is read is in the registry and in the gauge, and
\* without a failed hello or mount they count nothing else.
THEOREM GaugeAgrees == Spec => []GaugeAgreesAtRest
<1>1. RegistryInv => GaugeAgreesAtRest
  <2> SUFFICES ASSUME RegistryInv, At(Resting) = Conns
               PROVE  /\ Reading \subseteq sessions
                      /\ Cardinality(Reading) <= active
                      /\ At({"helloFailed", "mountFailed"}) = {} =>
                             sessions = Reading /\ active = Cardinality(Reading)
    BY DEF GaugeAgreesAtRest
  <2>1. \A c \in Conns : pc[c] \in Resting
    BY DEF At
  <2>2. Reading \subseteq sessions /\ Reading \subseteq Gauged
    BY DEF RegistryInv, RegistryExact, Registered, Reading, Gauged, At,
           InRegistry, InGauge
  <2>3. /\ IsFiniteSet(Gauged) /\ Cardinality(Gauged) \in Nat
        /\ Cardinality(Reading) \in Nat
    BY AtFinite DEF Gauged, Reading
  <2>4. Cardinality(Reading) <= active
    BY <2>2, <2>3, FS_Subset DEF RegistryInv, GaugeExact
  <2>5. ASSUME At({"helloFailed", "mountFailed"}) = {}
        PROVE  sessions = Reading /\ active = Cardinality(Reading)
    <3>1. \A c \in Conns : pc[c] \notin {"helloFailed", "mountFailed"}
      BY <2>5 DEF At
    <3>2. sessions = Reading /\ Gauged = Reading
      BY <2>1, <3>1 DEF RegistryInv, RegistryExact, Registered, Reading, Gauged,
                        At, Resting, InRegistry, InGauge
    <3>3. QED
      BY <3>2 DEF RegistryInv, GaugeExact
  <2>6. QED
    BY <2>2, <2>4, <2>5
<1>2. QED
  BY RegistryInvariant, <1>1, PTL

\* A connection that ended on a regular way out leaves nothing behind.
THEOREM RegularEndIsClean == Spec => []NothingLeftBehind
<1>1. RegistryInv => NothingLeftBehind
  <2> SUFFICES ASSUME RegistryInv PROVE NothingLeftBehind
    OBVIOUS
  <2>1. ASSUME NEW c \in At({"refused", "done"})
        PROVE  c \notin sessions /\ c \in closed /\ link[c] = "down"
    BY <2>1 DEF RegistryInv, RegistryExact, Registered, LifeExact, ClosedPlaces,
                InRegistry, At
  <2>2. ASSUME At({"idle", "rejected", "refused", "done"}) = Conns
        PROVE  active = 0 /\ sessions = {}
    <3>1. \A c \in Conns : pc[c] \in {"idle", "rejected", "refused", "done"}
      BY <2>2 DEF At
    <3>2. Gauged = {} /\ Registered = {}
      BY <3>1 DEF Gauged, Registered, At, InGauge, InRegistry
    <3>3. QED
      BY <3>2, FS_EmptySet DEF RegistryInv, RegistryExact, GaugeExact
  <2>3. QED
    BY <2>1, <2>2 DEF NothingLeftBehind
<1>2. QED
  BY RegistryInvariant, <1>1, PTL

\* The hooks of a session run in their order, each at most once, and a session
\* that was mounted and has ended has had its disconnect hook.
THEOREM HooksInOrder == Spec => []HookProtocol
<1>1. RegistryInv => HookProtocol
  <2> SUFFICES ASSUME RegistryInv, NEW c \in Conns
               PROVE  /\ hooks[c] \in {<<>>, <<"connect">>, <<"connect", "mount">>, FullLife}
                      /\ hooks[c] = <<"connect", "mount">> => c \in sessions
                      /\ pc[c] = "done" => hooks[c] = FullLife
    BY DEF HookProtocol
  <2>1. hooks[c] = HooksAt(pc[c])
    BY DEF RegistryInv, LifeExact
  <2>2. hooks[c] = <<"connect", "mount">> => pc[c] \in {"reading", "leaving"}
    <3>1. <<"connect", "mount">> # <<>> /\ <<"connect", "mount">> # <<"connect">>
          /\ <<"connect", "mount">> # FullLife
      BY DEF FullLife
    <3>2. QED
      BY <2>1, <3>1 DEF HooksAt
  <2>3. pc[c] \in {"reading", "leaving"} => c \in sessions
    BY DEF RegistryInv, RegistryExact, Registered, At, InRegistry
  <2>4. pc[c] = "done" => hooks[c] = FullLife
    BY <2>1 DEF HooksAt, NotCounted
  <2>5. QED
    BY <2>1, <2>2, <2>3, <2>4 DEF HooksAt
<1>2. QED
  BY RegistryInvariant, <1>1, PTL

(***************************************************************************)
(* SessionRegistry implements the steps of SessionLife, for every finite   *)
(* set of connections and every size of the pool.                          *)
(***************************************************************************)

Cut     == {c \in Conns : link[c] = "down"}
Refused == At(RefusedPlaces)
Lost    == At(LostPlaces)

\* The abstract variables that the server changes itself.
LifeUnchanged == UNCHANGED <<sessions, hooks, Refused, Lost>>

\* Only PeerLeaves, CheckPool, Session.Close and the shutdown touch a link,
\* and each of them takes it down.
LEMMA CutGrows ==
  ASSUME TypeOK, [Next]_vars
  PROVE  Cut \subseteq Cut'
<1> USE DEF Cut, TypeOK
<1>1. CASE UNCHANGED link
  BY <1>1
<1>2. ASSUME NEW c \in Conns, link' = [link EXCEPT ![c] = "down"]
      PROVE  Cut \subseteq Cut'
  BY <1>2
<1>3. ASSUME NEW S, link' = [c \in Conns |-> IF c \in S THEN "down" ELSE link[c]]
      PROVE  Cut \subseteq Cut'
  BY <1>3
<1>4. \/ UNCHANGED link
      \/ \E c \in Conns : link' = [link EXCEPT ![c] = "down"]
      \/ \E S : link' = [c \in Conns |-> IF c \in S THEN "down" ELSE link[c]]
  <2>1. ASSUME NEW c \in Conns, Handler(c)
        PROVE  UNCHANGED link \/ link' = [link EXCEPT ![c] = "down"]
    BY <2>1 DEF Handler, CheckPool, Register, CountIn, ConnectHook, Refuse,
                SendHello, Mount, MountFailed, MountHook, DisconnectHook,
                CleanUp, Unregister, CloseSession, CountOut
  <2>2. ASSUME NEW c \in Conns, Arrive(c) \/ PeerLeaves(c) \/ ReaderEnds(c)
        PROVE  UNCHANGED link \/ link' = [link EXCEPT ![c] = "down"]
    BY <2>2 DEF Arrive, PeerLeaves, ReaderEnds
  <2>3. CASE StopHTTP \/ UNCHANGED vars
    BY <2>3 DEF StopHTTP, vars
  <2>4. CASE Shutdown
    BY <2>4 DEF Shutdown, CloseSessions, CloseWebTransport
  <2>5. QED
    BY <2>1, <2>2, <2>3, <2>4 DEF Next
<1>5. QED
  BY <1>1, <1>2, <1>3, <1>4

\* What the move of one handler does to the refused and to the lost.
LEMMA MoveLife ==
  ASSUME pc \in [Conns -> PCs],
         NEW c \in Conns, NEW from, NEW to,
         Goto(c, from, to)
  PROVE  /\ from \in RefusedPlaces <=> c \in Refused
         /\ from \in LostPlaces <=> c \in Lost
         /\ Refused' = IF to \in RefusedPlaces THEN Refused \cup {c} ELSE Refused \ {c}
         /\ Lost' = IF to \in LostPlaces THEN Lost \cup {c} ELSE Lost \ {c}
<1>1. pc' \in [Conns -> PCs \cup {to}] /\ pc[c] = from /\ pc'[c] = to
      /\ \A d \in Conns \ {c} : pc'[d] = pc[d]
  BY DEF Goto
<1>2. /\ from \in RefusedPlaces <=> c \in Refused
      /\ Refused' = IF to \in RefusedPlaces THEN Refused \cup {c} ELSE Refused \ {c}
  BY <1>1 DEF Refused, At
<1>3. /\ from \in LostPlaces <=> c \in Lost
      /\ Lost' = IF to \in LostPlaces THEN Lost \cup {c} ELSE Lost \ {c}
  BY <1>1 DEF Lost, At
<1>4. QED
  BY <1>2, <1>3

\* A move between two places that are refused both or neither, and lost both
\* or neither, is no step in the life of a session.
LEMMA Rest ==
  ASSUME TypeOK,
         NEW c \in Conns, NEW from, NEW to,
         Goto(c, from, to),
         from \in RefusedPlaces <=> to \in RefusedPlaces,
         from \in LostPlaces <=> to \in LostPlaces,
         UNCHANGED <<sessions, hooks>>
  PROVE  LifeUnchanged
<1>1. Refused' = Refused /\ Lost' = Lost
  BY MoveLife DEF TypeOK
<1>2. QED
  BY <1>1 DEF LifeUnchanged

\* The steps of a handler that are steps in the life of its session.
LifeStepOf(c) == Life!Open(c) \/ Life!Connect(c) \/ Life!Mount(c) \/ Life!Lose(c)
                 \/ Life!Disconnect(c) \/ Life!Leave(c)

\* What the inductive invariant says of one session.
LEMMA Standing ==
  ASSUME RegistryInv, NEW c \in Conns
  PROVE  /\ c \in sessions <=> pc[c] \in InRegistry
         /\ hooks[c] = HooksAt(pc[c])
         /\ c \in Refused <=> pc[c] \in RefusedPlaces
         /\ c \in Lost <=> pc[c] \in LostPlaces
         /\ pc \in [Conns -> PCs]
         /\ hooks \in [Conns -> Seq(HookNames)]
  BY DEF RegistryInv, TypeOK, RegistryExact, Registered, LifeExact, At, Refused, Lost

\* Registration opens the session.
LEMMA RegisterOpens ==
  ASSUME RegistryInv, NEW c \in Conns, Register(c)
  PROVE  Life!Open(c)
<1>0. pc \in [Conns -> PCs]
  BY DEF RegistryInv, TypeOK
<1>1. Goto(c, "admitted", "registered") /\ sessions' = sessions \cup {c}
      /\ UNCHANGED hooks
  BY DEF Register
<1>2. pc[c] = "admitted"
  BY <1>1 DEF Goto
<1>3. c \notin sessions /\ hooks[c] = <<>>
  BY <1>2, Standing DEF InRegistry, HooksAt, NotCounted
<1>4. Refused' = Refused /\ Lost' = Lost
  BY <1>0, <1>1, MoveLife DEF RefusedPlaces, LostPlaces
<1>5. QED
  BY <1>1, <1>3, <1>4 DEF Life!Open, Refused, Lost

\* The connect hook is told once, to a session that is registered.
LEMMA ConnectConnects ==
  ASSUME RegistryInv, NEW c \in Conns, ConnectHook(c)
  PROVE  Life!Connect(c)
<1>0. pc \in [Conns -> PCs]
  BY DEF RegistryInv, TypeOK
<1>1. /\ Goto(c, "counted", "accepted") \/ Goto(c, "counted", "refusing")
      /\ hooks' = [hooks EXCEPT ![c] = Append(@, "connect")]
      /\ UNCHANGED sessions
  BY DEF ConnectHook, RunHook
<1>2. pc[c] = "counted"
  BY <1>1 DEF Goto
<1>3. c \in sessions /\ hooks[c] = <<>>
  BY <1>2, Standing DEF InRegistry, HooksAt, NotCounted
<1>4. hooks' = [hooks EXCEPT ![c] = <<"connect">>]
  <2>1. Append(<<>>, "connect") = <<"connect">>
    OBVIOUS
  <2>2. QED
    BY <1>1, <1>3, <2>1, Standing
<1>5. Refused' \in {Refused, Refused \cup {c}} /\ Lost' = Lost
  <2>1. Goto(c, "counted", "accepted") \/ Goto(c, "counted", "refusing")
    BY DEF ConnectHook
  <2>2. QED
    BY <1>0, <2>1, MoveLife DEF RefusedPlaces, LostPlaces
<1>6. QED
  BY <1>1, <1>3, <1>4, <1>5 DEF Life!Connect, Life!Connected, Refused, Lost

\* A session whose rendering was written is mounted.
LEMMA MountMounts ==
  ASSUME RegistryInv, NEW c \in Conns, MountHook(c)
  PROVE  Life!Mount(c)
<1>0. pc \in [Conns -> PCs]
  BY DEF RegistryInv, TypeOK
<1>1. /\ Goto(c, "rendered", "reading")
      /\ hooks' = [hooks EXCEPT ![c] = Append(@, "mount")]
      /\ UNCHANGED sessions
  BY DEF MountHook, RunHook
<1>2. pc[c] = "rendered"
  BY <1>1 DEF Goto
<1>3. c \in sessions /\ hooks[c] = <<"connect">> /\ c \notin Refused \cup Lost
  BY <1>2, Standing DEF InRegistry, HooksAt, NotCounted, RefusedPlaces, LostPlaces
<1>4. hooks' = [hooks EXCEPT ![c] = <<"connect", "mount">>]
  BY <1>1, <1>3, AppendToOne, Standing
<1>5. Refused' = Refused /\ Lost' = Lost
  <2>1. Goto(c, "rendered", "reading")
    BY DEF MountHook
  <2>2. QED
    BY <1>0, <2>1, MoveLife DEF RefusedPlaces, LostPlaces
<1>6. QED
  BY <1>1, <1>3, <1>4, <1>5
  DEF Life!Mount, Life!Mounted, Life!Pending, Life!Connected, Refused, Lost

\* A session whose hello or rendering could not be written is lost.
LEMMA FailureLoses ==
  ASSUME RegistryInv, NEW c \in Conns,
         Goto(c, "accepted", "helloFailed") \/ Goto(c, "greeted", "mountClosed"),
         UNCHANGED <<sessions, hooks>>
  PROVE  Life!Lose(c)
<1>0. pc \in [Conns -> PCs]
  BY DEF RegistryInv, TypeOK
<1>1. pc[c] \in {"accepted", "greeted"}
  BY DEF Goto
<1>2. c \in sessions /\ hooks[c] = <<"connect">> /\ c \notin Refused \cup Lost
  BY <1>1, Standing DEF InRegistry, HooksAt, NotCounted, RefusedPlaces, LostPlaces
<1>3. Refused' = Refused /\ Lost' = Lost \cup {c}
  BY <1>0, MoveLife DEF RefusedPlaces, LostPlaces
<1>4. QED
  BY <1>2, <1>3 DEF Life!Lose, Life!Pending, Life!Connected, Refused, Lost

\* The disconnect hook is told once, to a session that was mounted.
LEMMA DisconnectEnds ==
  ASSUME RegistryInv, NEW c \in Conns, DisconnectHook(c)
  PROVE  Life!Disconnect(c)
<1>0. pc \in [Conns -> PCs]
  BY DEF RegistryInv, TypeOK
<1>1. /\ Goto(c, "leaving", "leftHook")
      /\ hooks' = [hooks EXCEPT ![c] = Append(@, "disconnect")]
      /\ UNCHANGED sessions
  BY DEF DisconnectHook, RunHook
<1>2. pc[c] = "leaving"
  BY <1>1 DEF Goto
<1>3. c \in sessions /\ hooks[c] = <<"connect", "mount">>
  BY <1>2, Standing DEF InRegistry, HooksAt, NotCounted
<1>4. hooks' = [hooks EXCEPT ![c] = <<"connect", "mount", "disconnect">>]
  BY <1>1, <1>3, AppendToTwo, Standing
<1>5. Refused' = Refused /\ Lost' = Lost
  <2>1. Goto(c, "leaving", "leftHook")
    BY DEF DisconnectHook
  <2>2. QED
    BY <1>0, <2>1, MoveLife DEF RefusedPlaces, LostPlaces
<1>6. QED
  BY <1>1, <1>3, <1>4, <1>5
  DEF Life!Disconnect, Life!Mounted, Life!Ended, Refused, Lost

\* A session leaves the registry after its refusal or its disconnect hook.
LEMMA UnregisterLeaves ==
  ASSUME RegistryInv, NEW c \in Conns,
         \/ Unregister(c, "refusing", "refusedUnregistered")
         \/ Unregister(c, "leftHook", "leftRegistry")
  PROVE  Life!Leave(c)
<1>0. pc \in [Conns -> PCs]
  BY DEF RegistryInv, TypeOK
<1>1. /\ Goto(c, "refusing", "refusedUnregistered") \/ Goto(c, "leftHook", "leftRegistry")
      /\ sessions' = sessions \ {c}
      /\ UNCHANGED hooks
  BY DEF Unregister
<1>2. pc[c] \in {"refusing", "leftHook"}
  BY <1>1 DEF Goto
<1>3. c \in sessions /\ (c \in Refused \/ hooks[c] = FullLife)
  BY <1>2, Standing DEF InRegistry, HooksAt, NotCounted, RefusedPlaces
<1>4. Refused' = Refused /\ Lost' = Lost
  BY <1>0, <1>1, MoveLife DEF RefusedPlaces, LostPlaces
<1>5. QED
  BY <1>1, <1>3, <1>4
  DEF Life!Leave, Life!Over, Life!Ended, FullLife, Refused, Lost

\* Each step of a handler is a step in the life of its session or none.
LEMMA HandlerStep ==
  ASSUME RegistryInv, NEW c \in Conns, Handler(c)
  PROVE  LifeUnchanged \/ LifeStepOf(c)
<1> USE DEF RefusedPlaces, LostPlaces
<1>0. TypeOK
  BY DEF RegistryInv
<1>1. CASE CheckPool(c)
  BY <1>0, <1>1, Rest DEF CheckPool
<1>2. CASE Register(c)
  BY <1>2, RegisterOpens DEF LifeStepOf
<1>3. CASE CountIn(c)
  BY <1>0, <1>3, Rest DEF CountIn
<1>4. CASE ConnectHook(c)
  BY <1>4, ConnectConnects DEF LifeStepOf
<1>5. CASE Refuse(c)
  <2>1. CASE Unregister(c, "refusing", "refusedUnregistered")
    BY <2>1, UnregisterLeaves DEF LifeStepOf
  <2>2. CASE CloseSession(c, "refusedUnregistered", "refusedClosed")
    BY <1>0, <2>2, Rest DEF CloseSession
  <2>3. CASE CountOut(c, "refusedClosed", "refused")
    BY <1>0, <2>3, Rest DEF CountOut
  <2>4. QED
    BY <1>5, <2>1, <2>2, <2>3 DEF Refuse
<1>6. CASE SendHello(c)
  <2>1. UNCHANGED <<sessions, hooks>>
    BY <1>6 DEF SendHello
  <2>2. CASE Goto(c, "accepted", "greeted")
    BY <1>0, <2>1, <2>2, Rest
  <2>3. CASE Goto(c, "accepted", "helloFailed")
    BY <2>1, <2>3, FailureLoses DEF LifeStepOf
  <2>4. QED
    BY <1>6, <2>2, <2>3 DEF SendHello
<1>7. CASE Mount(c)
  <2>1. CASE Goto(c, "greeted", "rendered") /\ UNCHANGED <<sessions, hooks>>
    BY <1>0, <2>1, Rest
  <2>2. CASE CloseSession(c, "greeted", "mountClosed")
    BY <2>2, FailureLoses DEF LifeStepOf, CloseSession
  <2>3. QED
    BY <1>7, <2>1, <2>2 DEF Mount
<1>8. CASE MountFailed(c)
  BY <1>0, <1>8, Rest DEF MountFailed, CountOut
<1>9. CASE MountHook(c)
  BY <1>9, MountMounts DEF LifeStepOf
<1>10. CASE DisconnectHook(c)
  BY <1>10, DisconnectEnds DEF LifeStepOf
<1>11. CASE CleanUp(c)
  <2>1. CASE Unregister(c, "leftHook", "leftRegistry")
    BY <2>1, UnregisterLeaves DEF LifeStepOf
  <2>2. CASE CloseSession(c, "leftRegistry", "leftClosed")
    BY <1>0, <2>2, Rest DEF CloseSession
  <2>3. CASE CountOut(c, "leftClosed", "done")
    BY <1>0, <2>3, Rest DEF CountOut
  <2>4. QED
    BY <1>11, <2>1, <2>2, <2>3 DEF CleanUp
<1>12. QED
  BY <1>1, <1>2, <1>3, <1>4, <1>5, <1>6, <1>7, <1>8, <1>9, <1>10, <1>11 DEF Handler

\* Every step of the server, with its peers and its shutdown, is a step of the
\* abstract specification or leaves its variables alone.
LEMMA LifeStepSimulated ==
  ASSUME RegistryInv, [Next]_vars
  PROVE  [Life!Next]_(Life!vars)
<1>0. TypeOK
  BY DEF RegistryInv
<1>1. Cut \subseteq Cut'
  BY <1>0, CutGrows
<1>2. LifeUnchanged \/ \E c \in Conns : LifeStepOf(c)
  <2> USE DEF RefusedPlaces, LostPlaces
  <2>1. ASSUME NEW c \in Conns, Handler(c) PROVE LifeUnchanged \/ LifeStepOf(c)
    BY <2>1, HandlerStep
  <2>2. ASSUME NEW c \in Conns, Arrive(c) PROVE LifeUnchanged
    BY <1>0, <2>2, Rest DEF Arrive
  <2>3. ASSUME NEW c \in Conns, ReaderEnds(c) PROVE LifeUnchanged
    BY <1>0, <2>3, Rest DEF ReaderEnds
  <2>4. ASSUME UNCHANGED <<pc, sessions, hooks>> PROVE LifeUnchanged
    BY <2>4 DEF LifeUnchanged, Refused, Lost, At
  <2>5. ASSUME NEW c \in Conns, PeerLeaves(c) PROVE LifeUnchanged
    BY <2>4, <2>5 DEF PeerLeaves
  <2>6. CASE StopHTTP \/ Shutdown \/ UNCHANGED vars
    BY <2>4, <2>6 DEF StopHTTP, Shutdown, CloseSessions, CloseWebTransport, vars
  <2>7. QED
    BY <2>1, <2>2, <2>3, <2>5, <2>6 DEF Next
<1>3. QED
  BY <1>1, <1>2 DEF Life!Next, LifeStepOf, LifeUnchanged, Cut, Refused, Lost

\* The initial state is one of the abstract specification.
LEMMA LifeInit == Init => Life!Init
<1> SUFFICES ASSUME Init PROVE Life!Init
  OBVIOUS
<1>1. Refused = {} /\ Lost = {} /\ Cut = {}
  BY DEF Init, Refused, Lost, Cut, At, RefusedPlaces, LostPlaces
<1>2. QED
  BY <1>1 DEF Init, Life!Init, Refused, Lost, Cut

\* The server implements the steps of SessionLife: however its handlers, peers
\* and the shutdown interleave, a session is opened once, sees its hooks in
\* their order while it is registered, and leaves only when it is over.
THEOREM RegistryImplementsLife == Spec => LifeSteps
<1>1. RegistryInv /\ [Next]_vars => [Life!Next]_(Life!vars)
  BY LifeStepSimulated
<1>2. QED
  BY RegistryInvariant, LifeInit, <1>1, PTL DEF Spec, LifeSteps, Life!Steps
=============================================================================
