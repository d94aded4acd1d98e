-------------------------- MODULE ConnectionsProofs --------------------------
(***************************************************************************)
(* Proofs about the connection layer, for every set of connections, any    *)
(* assignment of addresses and any cap.                                    *)
(***************************************************************************)
EXTENDS Connections, FiniteSetTheorems, TLAPS

\* An admitted socket is past the upgrade, a torn one has not emitted 'close',
\* and only admitted sockets are ever evicted.
Shape ==
  /\ \A s \in admitted : ready[s] # "new"
  /\ \A s \in torn : Live(s)
  /\ evictTimer \subseteq admitted /\ evicted \subseteq admitted

\* The admitted connections of an address that have not emitted 'close'.
Holding(a) == {s \in admitted : IpOf[s] = a /\ ready[s] # "closed"}

\* How far the heartbeat is with a socket whose client has vanished.
Progress ==
  /\ \A s \in Sockets : link[s] = "up" \/ ready[s] = "new" => blind[s] = 0
  /\ \A s \in admitted : Live(s) /\ s \notin torn =>
       \/ blind[s] = 0 /\ alive[s] # "untracked"
       \/ blind[s] = 1 /\ alive[s] = "pinged"

ConnInv ==
  /\ ConnTypeOK
  /\ Shape
  /\ SlotsBalanced
  /\ Progress
  /\ EvictionNeedsNoHandshake

\* The invariant holds before the first connection.
LEMMA ConnInitInv == ConnInit => ConnInv
<1> SUFFICES ASSUME ConnInit PROVE ConnInv
  OBVIOUS
<1> USE DEF ConnInit
<1>1. ConnTypeOK
  BY ConnectionsAssumption DEF ConnTypeOK, ReadyStates, Pulses
<1>2. Shape
  BY DEF Shape
<1>3. SlotsBalanced
  <2>1. \A a \in Addresses : Holding(a) = {}
    BY DEF Holding
  <2>2. QED
    BY <2>1, FS_EmptySet, ConnectionsAssumption DEF SlotsBalanced, Holding
<1>4. Progress
  BY DEF Progress
<1>5. EvictionNeedsNoHandshake
  BY DEF EvictionNeedsNoHandshake
<1>6. QED
  BY <1>1, <1>2, <1>3, <1>4, <1>5 DEF ConnInv

\* A connection-layer step keeps every variable in its type.
LEMMA ConnTypeStep == ConnTypeOK /\ [ConnNext]_connVars => ConnTypeOK'
<1> SUFFICES ASSUME ConnTypeOK, [ConnNext]_connVars PROVE ConnTypeOK'
  OBVIOUS
<1> USE ConnectionsAssumption DEF ConnTypeOK, ReadyStates, Pulses, Bump
<1>1. CASE Sweep
  BY <1>1 DEF Sweep, SilentSockets, SweptPulse
<1>2. ASSUME NEW s \in Sockets, Admit(s) PROVE ConnTypeOK'
  BY <1>2 DEF Admit, historyVars
<1>3. ASSUME NEW s \in Sockets, Reject(s) PROVE ConnTypeOK'
  BY <1>3 DEF Reject, historyVars
<1>4. ASSUME NEW s \in Sockets, SignOfLife(s) PROVE ConnTypeOK'
  BY <1>4 DEF SignOfLife, Inbound, MarkAlive
<1>5. ASSUME NEW s \in Sockets, NEW gone \in SUBSET Sockets, Takeover(s, gone)
      PROVE ConnTypeOK'
  BY <1>5 DEF Takeover, BeginEvict, Inbound, MarkAlive
<1>6. ASSUME NEW s \in Sockets, EvictTimeout(s) PROVE ConnTypeOK'
  BY <1>6 DEF EvictTimeout, historyVars
<1>7. ASSUME NEW s \in Sockets, ClientCloses(s) PROVE ConnTypeOK'
  BY <1>7 DEF ClientCloses, historyVars
<1>8. ASSUME NEW s \in Sockets, CloseTimeout(s) PROVE ConnTypeOK'
  BY <1>8 DEF CloseTimeout, historyVars
<1>9. ASSUME NEW s \in Sockets, Vanish(s) PROVE ConnTypeOK'
  BY <1>9 DEF Vanish, historyVars
<1>10. ASSUME NEW s \in Sockets, CloseEvent(s) PROVE ConnTypeOK'
  BY <1>10 DEF CloseEvent, Release, historyVars
<1>11. CASE UNCHANGED connVars
  BY <1>11 DEF connVars
<1>12. QED
  BY <1>1, <1>2, <1>3, <1>4, <1>5, <1>6, <1>7, <1>8, <1>9, <1>10, <1>11 DEF ConnNext

\* A step keeps the shape, and an evicted socket's end needs no handshake.
LEMMA ShapeStep ==
  ConnTypeOK /\ Shape /\ EvictionNeedsNoHandshake /\ [ConnNext]_connVars
    => Shape' /\ EvictionNeedsNoHandshake'
<1> SUFFICES ASSUME ConnTypeOK, Shape, EvictionNeedsNoHandshake, [ConnNext]_connVars
             PROVE  Shape' /\ EvictionNeedsNoHandshake'
  OBVIOUS
<1> USE DEF ConnTypeOK, Shape, EvictionNeedsNoHandshake, Live, ReadyStates
<1>1. CASE Sweep
  BY <1>1 DEF Sweep, SilentSockets
<1>2. ASSUME NEW s \in Sockets, Admit(s) PROVE Shape' /\ EvictionNeedsNoHandshake'
  BY <1>2 DEF Admit, historyVars
<1>3. ASSUME NEW s \in Sockets, Reject(s) PROVE Shape' /\ EvictionNeedsNoHandshake'
  BY <1>3 DEF Reject, historyVars
<1>4. ASSUME NEW s \in Sockets, SignOfLife(s) PROVE Shape' /\ EvictionNeedsNoHandshake'
  BY <1>4 DEF SignOfLife, Inbound
<1>5. ASSUME NEW s \in Sockets, NEW gone \in SUBSET Sockets, Takeover(s, gone)
      PROVE Shape' /\ EvictionNeedsNoHandshake'
  BY <1>5 DEF Takeover, BeginEvict, Inbound
<1>6. ASSUME NEW s \in Sockets, EvictTimeout(s) PROVE Shape' /\ EvictionNeedsNoHandshake'
  BY <1>6 DEF EvictTimeout, historyVars
<1>7. ASSUME NEW s \in Sockets, ClientCloses(s) PROVE Shape' /\ EvictionNeedsNoHandshake'
  BY <1>7 DEF ClientCloses, historyVars
<1>8. ASSUME NEW s \in Sockets, CloseTimeout(s) PROVE Shape' /\ EvictionNeedsNoHandshake'
  BY <1>8 DEF CloseTimeout, historyVars
<1>9. ASSUME NEW s \in Sockets, Vanish(s) PROVE Shape' /\ EvictionNeedsNoHandshake'
  BY <1>9 DEF Vanish, historyVars
<1>10. ASSUME NEW s \in Sockets, CloseEvent(s) PROVE Shape' /\ EvictionNeedsNoHandshake'
  BY <1>10 DEF CloseEvent, historyVars
<1>11. CASE UNCHANGED connVars
  BY <1>11 DEF connVars
<1>12. QED
  BY <1>1, <1>2, <1>3, <1>4, <1>5, <1>6, <1>7, <1>8, <1>9, <1>10, <1>11 DEF ConnNext

\* Sets of connections are finite, so their cardinalities are numbers.
LEMMA HoldingFinite ==
  ASSUME ConnTypeOK, NEW a
  PROVE  IsFiniteSet(Holding(a)) /\ Cardinality(Holding(a)) \in Nat
<1>1. Holding(a) \subseteq Sockets
  BY DEF Holding, ConnTypeOK
<1>2. QED
  BY <1>1, ConnectionsAssumption, FS_Subset, FS_CardinalityType

\* A step that admits nothing and closes nothing leaves the slots balanced.
LEMMA SlotsUntouched ==
  ASSUME ConnTypeOK, SlotsBalanced, UNCHANGED <<admitted, counts>>,
         \A s \in Sockets : (ready[s] = "closed") <=> (ready'[s] = "closed")
  PROVE  SlotsBalanced'
<1>1. ASSUME NEW a \in Addresses PROVE Holding(a)' = Holding(a)
  BY DEF Holding, ConnTypeOK
<1>2. QED
  BY <1>1 DEF SlotsBalanced, Holding

\* A step keeps the slots balanced: only Admit takes one and only CloseEvent
\* gives one back.
LEMMA SlotsStep ==
  ConnTypeOK /\ Shape /\ SlotsBalanced /\ [ConnNext]_connVars => SlotsBalanced'
<1> SUFFICES ASSUME ConnTypeOK, Shape, SlotsBalanced, [ConnNext]_connVars
             PROVE  SlotsBalanced'
  OBVIOUS
<1> USE DEF ConnTypeOK, ReadyStates
<1>1. CASE Sweep
  BY <1>1, SlotsUntouched DEF Sweep, SilentSockets, Live
<1>2. ASSUME NEW s \in Sockets, Admit(s) PROVE SlotsBalanced'
  <2>1. ASSUME NEW a \in Addresses, a # IpOf[s]
        PROVE  Holding(a)' = Holding(a) /\ counts'[a] = counts[a]
    BY <1>2, <2>1 DEF Admit, Holding
  <2>2. Holding(IpOf[s])' = Holding(IpOf[s]) \cup {s} /\ s \notin Holding(IpOf[s])
    BY <1>2 DEF Admit, Holding, Shape
  <2>3. Cardinality(Holding(IpOf[s])') = Cardinality(Holding(IpOf[s])) + 1
    BY <2>2, HoldingFinite, FS_AddElement
  <2>4. IpOf[s] \in Addresses /\ counts[IpOf[s]] < MaxPerIp
        /\ counts'[IpOf[s]] = counts[IpOf[s]] + 1
    BY <1>2, ConnectionsAssumption DEF Admit, HasSlot
  <2>5. ASSUME NEW a \in Addresses
        PROVE  counts'[a] = Cardinality(Holding(a)') /\ counts'[a] <= MaxPerIp
    <3>1. counts[a] = Cardinality(Holding(a)) /\ counts[a] <= MaxPerIp
      BY DEF SlotsBalanced, Holding
    <3>2. CASE a = IpOf[s]
      BY <2>3, <2>4, <3>1, <3>2, ConnectionsAssumption
    <3>3. CASE a # IpOf[s]
      BY <2>1, <3>1, <3>3
    <3>4. QED
      BY <3>2, <3>3
  <2>6. QED
    BY <2>5 DEF SlotsBalanced, Holding
<1>3. ASSUME NEW s \in Sockets, Reject(s) PROVE SlotsBalanced'
  BY <1>3, SlotsUntouched DEF Reject
<1>4. ASSUME NEW s \in Sockets, SignOfLife(s) PROVE SlotsBalanced'
  BY <1>4, SlotsUntouched DEF SignOfLife, Inbound
<1>5. ASSUME NEW s \in Sockets, NEW gone \in SUBSET Sockets, Takeover(s, gone)
      PROVE SlotsBalanced'
  BY <1>5, SlotsUntouched DEF Takeover, BeginEvict, Inbound
<1>6. ASSUME NEW s \in Sockets, EvictTimeout(s) PROVE SlotsBalanced'
  BY <1>6, SlotsUntouched DEF EvictTimeout
<1>7. ASSUME NEW s \in Sockets, ClientCloses(s) PROVE SlotsBalanced'
  BY <1>7, SlotsUntouched DEF ClientCloses, Live
<1>8. ASSUME NEW s \in Sockets, CloseTimeout(s) PROVE SlotsBalanced'
  BY <1>8, SlotsUntouched DEF CloseTimeout
<1>9. ASSUME NEW s \in Sockets, Vanish(s) PROVE SlotsBalanced'
  BY <1>9, SlotsUntouched DEF Vanish
<1>10. ASSUME NEW s \in Sockets, CloseEvent(s) PROVE SlotsBalanced'
  <2>1. ready[s] # "closed" /\ ready' = [ready EXCEPT ![s] = "closed"]
        /\ admitted' = admitted
    BY <1>10 DEF CloseEvent, Shape, Live
  <2>2. CASE s \notin admitted
    <3>1. ASSUME NEW a \in Addresses PROVE Holding(a)' = Holding(a) /\ counts'[a] = counts[a]
      BY <1>10, <2>1, <2>2 DEF CloseEvent, Holding
    <3>2. QED
      BY <3>1 DEF SlotsBalanced, Holding
  <2>3. CASE s \in admitted
    <3>1. ASSUME NEW a \in Addresses, a # IpOf[s]
          PROVE  Holding(a)' = Holding(a) /\ counts'[a] = counts[a]
      BY <1>10, <2>1, <2>3, <3>1 DEF CloseEvent, Release, Holding
    <3>2. Holding(IpOf[s])' = Holding(IpOf[s]) \ {s} /\ s \in Holding(IpOf[s])
      BY <2>1, <2>3 DEF Holding
    <3>3. /\ IsFiniteSet(Holding(IpOf[s]) \ {s})
          /\ Cardinality(Holding(IpOf[s]) \ {s}) = Cardinality(Holding(IpOf[s])) - 1
      <4>1. IsFiniteSet(Holding(IpOf[s]))
        BY HoldingFinite
      <4>2. QED
        BY <3>2, <4>1, FS_RemoveElement, Zenon
    <3>4. Cardinality(Holding(IpOf[s])') \in Nat
      BY <3>2, <3>3, FS_CardinalityType
    <3>5. IpOf[s] \in Addresses
      BY ConnectionsAssumption
    <3>6. counts'[IpOf[s]] = IF counts[IpOf[s]] <= 1 THEN 0 ELSE counts[IpOf[s]] - 1
      BY <1>10, <2>3, <3>5 DEF CloseEvent, Release
    <3>7. ASSUME NEW a \in Addresses
          PROVE  counts'[a] = Cardinality(Holding(a)') /\ counts'[a] <= MaxPerIp
      <4>1. counts[a] = Cardinality(Holding(a)) /\ counts[a] <= MaxPerIp
        BY DEF SlotsBalanced, Holding
      <4>2. CASE a = IpOf[s]
        <5> DEFINE before == Cardinality(Holding(IpOf[s]))
        <5> DEFINE after == Cardinality(Holding(IpOf[s])')
        <5>1. after \in Nat /\ after = before - 1 /\ counts[IpOf[s]] = before
              /\ before <= MaxPerIp /\ MaxPerIp \in Nat
          BY <3>2, <3>3, <3>4, <4>1, <4>2, ConnectionsAssumption
        <5> HIDE DEF before, after
        <5>2. counts'[IpOf[s]] = after /\ after <= MaxPerIp
          <6>1. before \in Int /\ before = after + 1
            BY <3>3, <3>4, <5>1, HoldingFinite, FS_CardinalityType DEF before
          <6>2. QED
            BY <3>6, <5>1, <6>1
        <5>3. QED
          BY <4>2, <5>2 DEF after
      <4>3. CASE a # IpOf[s]
        BY <3>1, <4>1, <4>3
      <4>4. QED
        BY <4>2, <4>3
    <3>8. QED
      BY <3>7 DEF SlotsBalanced, Holding
  <2>4. QED
    BY <2>2, <2>3
<1>11. CASE UNCHANGED connVars
  BY <1>11, SlotsUntouched DEF connVars
<1>12. QED
  BY <1>1, <1>2, <1>3, <1>4, <1>5, <1>6, <1>7, <1>8, <1>9, <1>10, <1>11 DEF ConnNext

\* A step keeps the heartbeat's progress with a vanished client: the first sweep
\* after it pings, the second finds the ping unanswered.
LEMMA ProgressStep ==
  ConnTypeOK /\ Shape /\ Progress /\ [ConnNext]_connVars => Progress'
<1> SUFFICES ASSUME ConnTypeOK, Shape, Progress, [ConnNext]_connVars PROVE Progress'
  OBVIOUS
<1> USE DEF ConnTypeOK, ReadyStates, Progress, Live
<1>1. CASE Sweep
  BY <1>1, ConnectionsAssumption DEF Sweep, SilentSockets, SweptPulse, Bump, Pulses
<1>2. ASSUME NEW s \in Sockets, Admit(s) PROVE Progress'
  BY <1>2 DEF Admit, historyVars
<1>3. ASSUME NEW s \in Sockets, Reject(s) PROVE Progress'
  BY <1>3 DEF Reject, historyVars, Shape
<1>4. ASSUME NEW s \in Sockets, SignOfLife(s) PROVE Progress'
  BY <1>4 DEF SignOfLife, Inbound, CanReceive, MarkAlive
<1>5. ASSUME NEW s \in Sockets, NEW gone \in SUBSET Sockets, Takeover(s, gone)
      PROVE Progress'
  BY <1>5 DEF Takeover, BeginEvict, Inbound, CanReceive, MarkAlive
<1>6. ASSUME NEW s \in Sockets, EvictTimeout(s) PROVE Progress'
  BY <1>6 DEF EvictTimeout, historyVars
<1>7. ASSUME NEW s \in Sockets, ClientCloses(s) PROVE Progress'
  BY <1>7 DEF ClientCloses, historyVars
<1>8. ASSUME NEW s \in Sockets, CloseTimeout(s) PROVE Progress'
  BY <1>8 DEF CloseTimeout, historyVars
<1>9. ASSUME NEW s \in Sockets, Vanish(s) PROVE Progress'
  BY <1>9 DEF Vanish, historyVars
<1>10. ASSUME NEW s \in Sockets, CloseEvent(s) PROVE Progress'
  BY <1>10 DEF CloseEvent, historyVars
<1>11. CASE UNCHANGED connVars
  BY <1>11 DEF connVars
<1>12. QED
  BY <1>1, <1>2, <1>3, <1>4, <1>5, <1>6, <1>7, <1>8, <1>9, <1>10, <1>11 DEF ConnNext

\* The inductive invariant of the connection layer.
THEOREM ConnInvariant == ConnSpec => []ConnInv
<1>1. ConnInit => ConnInv
  BY ConnInitInv
<1>2. ConnInv /\ [ConnNext]_connVars => ConnInv'
  BY ConnTypeStep, ShapeStep, SlotsStep, ProgressStep DEF ConnInv
<1>3. QED
  BY <1>1, <1>2, PTL DEF ConnSpec

\* Every variable of the connection layer stays in its type.
THEOREM ConnTypeCorrect == ConnSpec => []ConnTypeOK
<1>1. ConnInv => ConnTypeOK
  BY DEF ConnInv
<1>2. QED
  BY <1>1, ConnInvariant, PTL

\* ConcurrencyLimiter: the slots counted for an address are exactly its open
\* connections, and never more than the cap, however connections are rejected,
\* taken over, reaped and closed.
THEOREM SlotsAlwaysBalanced == ConnSpec => []SlotsBalanced
<1>1. ConnInv => SlotsBalanced
  BY DEF ConnInv
<1>2. QED
  BY <1>1, ConnInvariant, PTL

\* Heartbeat: a vanished client's socket is destroyed by the second sweep.
THEOREM DetectionInTwoSweeps == ConnSpec => []DetectedWithinTwoSweeps
<1>1. ConnInv => DetectedWithinTwoSweeps
  BY DEF ConnInv, ConnTypeOK, Progress, DetectedWithinTwoSweeps, Live
<1>2. QED
  BY <1>1, ConnInvariant, PTL

\* evict(): once its timer has run, an evicted socket is gone without the client.
THEOREM EvictionNeedsNobody == ConnSpec => []EvictionNeedsNoHandshake
<1>1. ConnInv => EvictionNeedsNoHandshake
  BY DEF ConnInv
<1>2. QED
  BY <1>1, ConnInvariant, PTL

\* Heartbeat and evict together: no connection that fell silent is kept for long.
THEOREM SilenceAlwaysNoticed == ConnSpec => []SilenceIsNoticed
<1>1. ConnTypeOK /\ DetectedWithinTwoSweeps /\ EvictionNeedsNoHandshake => SilenceIsNoticed
  BY DEF SilenceIsNoticed
<1>2. QED
  BY <1>1, ConnTypeCorrect, DetectionInTwoSweeps, EvictionNeedsNobody, PTL

-----------------------------------------------------------------------------
(* The heartbeat's caution.                                                *)

\* A socket waiting for its pong has been pinged since it last spoke.
PingsCounted == \A s \in Sockets : alive[s] = "pinged" => unanswered[s] > 0

\* A step keeps the pings counted: only a sweep makes a socket wait, and whatever
\* takes a count back takes the waiting back.
LEMMA PingsStep ==
  ASSUME HistoryCap > 0, ConnTypeOK, PingsCounted, [ConnNext]_connVars
  PROVE  PingsCounted'
<1> USE DEF ConnTypeOK, PingsCounted
<1>1. CASE Sweep
  BY <1>1, ConnectionsAssumption DEF Sweep, SweptPulse, Bump, Pulses
<1>2. ASSUME NEW s \in Sockets, Admit(s) PROVE PingsCounted'
  BY <1>2 DEF Admit, historyVars
<1>3. ASSUME NEW s \in Sockets, Inbound(s) PROVE PingsCounted'
  BY <1>3 DEF Inbound, MarkAlive
<1>4. ASSUME UNCHANGED <<alive, unanswered>> PROVE PingsCounted'
  BY <1>4
<1>5. QED
  BY <1>1, <1>2, <1>3, <1>4
  DEF ConnNext, Reject, SignOfLife, Takeover, EvictTimeout, ClientCloses, CloseTimeout, Vanish,
      CloseEvent, connVars, historyVars

\* Heartbeat.sweep: whoever gave a sign of life since its last ping is spared.
THEOREM OnlyTheSilentAreReaped ==
  ASSUME HistoryCap > 0
  PROVE  ConnSpec => ReapsOnlySilent
<1>1. ConnInit => PingsCounted
  BY DEF ConnInit, PingsCounted
<1>2. ConnInv /\ PingsCounted /\ [ConnNext]_connVars => PingsCounted'
  BY PingsStep DEF ConnInv
<1>3. ConnInv /\ PingsCounted /\ [ConnNext]_connVars
        => [Sweep => \A s \in torn' \ torn : unanswered[s] > 0]_connVars
  BY DEF PingsCounted, Sweep, SilentSockets
<1>4. QED
  BY <1>1, <1>2, <1>3, ConnInvariant, PTL DEF ConnSpec, ReapsOnlySilent

=============================================================================
