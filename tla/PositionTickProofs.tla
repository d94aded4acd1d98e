------------------------- MODULE PositionTickProofs -------------------------
(***************************************************************************)
(* What the position tick tells the server of us, and what it plays, for any *)
(* number of places, sessions and ticks in flight and any limits.            *)
(***************************************************************************)
EXTENDS PositionTick, FiniteSetTheorems, SequenceTheorems, TLAPS

TrackerType == [state : {"scanning", "locked", "dead"}, at : Places \cup {NoPlace},
                hold : Times \cup {NoHold}, reason : Reasons \cup {"none"}, seen : Sighting]

-----------------------------------------------------------------------------
(* Types.                                                                    *)

LEMMA TickNumbers ==
  /\ MaxNow \in Nat /\ MaxSessions \in Nat /\ MaxUplink \in Nat
  /\ StaleMs \in Nat /\ AnchorMs \in Nat
  /\ NoPlace \notin Places
  /\ NoPoint \notin [at : Places, ms : Int]
BY TickAssumption, PromiseAssumption

\* NoPoint is no sighting, so a sighting that is not NoPoint has a place and a time.
LEMMA Sightings ==
  ASSUME NEW p \in Sighting, p # NoPoint
  PROVE  p.at \in Places /\ p.ms \in Times /\ p.ms \in Int
BY TickNumbers DEF Sighting, Times

LEMMA LastSeenType == ASSUME PositionTypeOK PROVE LastSeen \in Sighting
BY DEF LastSeen, PositionTypeOK, Sighting

LEMMA MoveType ==
  ASSUME trk \in TrackerType, trk.hold # NoHold => trk.state = "locked", now \in Times, Move
  PROVE  trk' \in TrackerType /\ (trk'.hold # NoHold => trk'.state = "locked")
<1> USE DEF TrackerType, Reasons
<1>1. NoPoint \in Sighting /\ \A p \in Places : [at |-> p, ms |-> now] \in Sighting
  BY DEF Sighting
<1>2. CASE See
  <2>1. PICK p \in Places, h \in Times \cup {NoHold}, r \in Reasons \cup {"none"} :
          trk' = Sighted(p, h, r)
    BY <1>2 DEF See
  <2>. QED BY <1>1, <2>1 DEF Sighted
<1>3. CASE Ride
  BY <1>3 DEF Ride
<1>4. CASE Hold
  BY <1>4 DEF Hold
<1>5. CASE Rescan
  BY <1>5 DEF Rescan, Scanning
<1>6. CASE ResetPosition
  BY <1>1, <1>6 DEF ResetPosition, Scanning
<1>7. CASE NewRegion
  BY <1>1, <1>7 DEF NewRegion, Scanning
<1>8. CASE Restart
  BY <1>8 DEF Restart
<1>9. CASE OnDeath
  <2>1. trk.seen # NoPoint => trk.seen.at \in Places
    BY Sightings
  <2>. QED BY <1>9, <2>1 DEF OnDeath
<1>10. CASE OnRespawn
  BY <1>1, <1>10 DEF OnRespawn
<1>. QED BY <1>2, <1>3, <1>4, <1>5, <1>6, <1>7, <1>8, <1>9, <1>10 DEF Move

\* A message, told as this tick tells it.
LEMMA SendType ==
  ASSUME PositionTypeOK, NEW m \in Message, Send(m)
  PROVE  /\ uplink' \in Seq(Message) /\ Len(uplink') <= MaxUplink
         /\ gap' \in BOOLEAN
BY TickNumbers DEF Send, PositionTypeOK

LEMMA ReportType ==
  ASSUME PositionTypeOK, Report, trk.at # NoPlace
  PROVE  /\ uplink' \in Seq(Message) /\ Len(uplink') <= MaxUplink
         /\ {coordsDisowned', gap'} \subseteq BOOLEAN
         /\ disownedWith' \in Sighting /\ standsBy' \in Sighting /\ vouchedAt' \in Times \cup {-1}
<1>1. [stale |-> FALSE, at |-> trk.at, seen |-> NoPoint] \in Message
  BY DEF PositionTypeOK, Message
<1>. QED BY <1>1, SendType DEF Report, PositionTypeOK, Sighting

LEMMA DisownType ==
  ASSUME PositionTypeOK, Disown
  PROVE  /\ uplink' \in Seq(Message) /\ Len(uplink') <= MaxUplink
         /\ {coordsDisowned', gap'} \subseteq BOOLEAN
         /\ disownedWith' \in Sighting /\ standsBy' \in Sighting /\ vouchedAt' \in Times \cup {-1}
<1>1. LastSeen \in Sighting
  BY LastSeenType
<1>2. [stale |-> TRUE, at |-> NoPlace, seen |-> LastSeen] \in Message
  BY <1>1 DEF Message
<1>. QED BY <1>1, <1>2, SendType DEF Disown, PositionTypeOK

WaitingType == [Slots -> [of : 0..MaxSessions, kind : {"none", "main", "lost"}]]
AppliedType == [of : 0..MaxSessions, kind : {"none", "main", "lost", "own"}]

LEMMA AskType ==
  ASSUME PositionTypeOK, NEW kind \in {"main", "lost"}, Ask(kind)
  PROVE  waiting' \in WaitingType /\ running' = TRUE /\ applied' = applied
<1>1. [of |-> session, kind |-> kind] \in [of : 0..MaxSessions, kind : {"none", "main", "lost"}]
  BY DEF PositionTypeOK
<1>. QED BY <1>1 DEF Ask, PositionTypeOK, WaitingType

LEMMA TickType == PositionTypeOK /\ PositionTick => PositionTypeOK'
<1> SUFFICES ASSUME PositionTypeOK, PositionTick PROVE PositionTypeOK'
  OBVIOUS
<1>1. UNCHANGED <<now, session, made, trk, link, entry, crossed>>
  BY DEF PositionTick
<1>2. ASSUME Apply(session, "own") PROVE applied' \in AppliedType
  BY <1>2 DEF Apply, AppliedType, PositionTypeOK
<1>3. CASE CameraTick
  <2>1. applied' \in AppliedType /\ UNCHANGED <<running, waiting>>
    BY <1>2, <1>3 DEF CameraTick
  <2>2. Disown
    BY <1>3 DEF CameraTick
  <2>. QED BY <1>1, <2>1, <2>2, DisownType DEF PositionTypeOK, AppliedType
<1>4. CASE LostTick
  <2>1. waiting' \in WaitingType /\ running' \in BOOLEAN /\ applied' \in AppliedType
    BY <1>2, <1>4, AskType DEF LostTick, LostVolumes, PositionTypeOK, WaitingType, AppliedType
  <2>2. Disown
    BY <1>4 DEF LostTick
  <2>. QED BY <1>1, <2>1, <2>2, DisownType DEF PositionTypeOK, WaitingType, AppliedType
<1>5. CASE VouchingTick
  <2>1. waiting' \in WaitingType /\ running' \in BOOLEAN /\ applied' \in AppliedType
    BY <1>5, AskType DEF VouchingTick, PositionTypeOK, AppliedType
  <2>2. Report /\ trk.at # NoPlace
    BY <1>5 DEF VouchingTick, Lost
  <2>. QED BY <1>1, <2>1, <2>2, ReportType DEF PositionTypeOK, WaitingType, AppliedType
<1>. QED BY <1>3, <1>4, <1>5 DEF PositionTick

LEMMA ResumeType ==
  ASSUME PositionTypeOK, NEW s \in Slots, Resume(s), applied' \in AppliedType
  PROVE  PositionTypeOK'
<1>1. waiting' \in WaitingType
  BY TickNumbers DEF Resume, PositionTypeOK, WaitingType, Free
<1>2. crossed' \in Nat /\ running' = FALSE
  BY DEF Resume, PositionTypeOK
<1>. QED BY <1>1, <1>2 DEF Resume, PositionTypeOK, tellVars, WaitingType, AppliedType

LEMMA DeliverType == PositionTypeOK /\ Deliver => PositionTypeOK'
<1> SUFFICES ASSUME PositionTypeOK, Deliver PROVE PositionTypeOK'
  OBVIOUS
<1>1. uplink' \in Seq(Message) /\ Len(uplink') <= MaxUplink /\ Head(uplink) \in Message
  BY TickNumbers DEF Deliver, PositionTypeOK
<1>2. entry' \in [position : Sighting, lastSeen : Sighting]
  BY <1>1 DEF Deliver, PositionTypeOK, Sighting, Message
<1>. QED BY <1>1, <1>2 DEF Deliver, PositionTypeOK

LEMMA StepType == PositionTypeOK /\ [Next]_vars => PositionTypeOK'
<1> SUFFICES ASSUME PositionTypeOK, [Next]_vars PROVE PositionTypeOK'
  OBVIOUS
<1> USE TickNumbers
<1>1. /\ NoPoint \in Sighting /\ FreshTracker \in TrackerType /\ Free \in AppliedType
      /\ <<>> \in Seq(Message) /\ Len(<<>>) <= MaxUplink
  BY DEF FreshTracker, TrackerType, Reasons, Sighting, Free, AppliedType
<1>2. CASE Tracker
  <2>1. trk' \in TrackerType /\ (trk'.hold # NoHold => trk'.state = "locked")
    BY <1>2, MoveType DEF Tracker, PositionTypeOK, TrackerType
  <2>. QED BY <1>2, <2>1 DEF Tracker, PositionTypeOK, TrackerType, tellVars
<1>3. CASE PositionTick
  BY <1>3, TickType
<1>4. ASSUME NEW s \in Slots, Answered(s) PROVE PositionTypeOK'
  <2>1. applied' \in AppliedType
    BY <1>4 DEF Answered, Apply, PositionTypeOK, AppliedType
  <2>. QED BY <1>4, <2>1, ResumeType DEF Answered
<1>5. ASSUME NEW s \in Slots, Failed(s) PROVE PositionTypeOK'
  <2>1. applied' \in AppliedType
    BY <1>5 DEF Failed, Apply, PositionTypeOK, AppliedType
  <2>. QED BY <1>5, <2>1, ResumeType DEF Failed
<1>6. CASE StartSession
  BY <1>1, <1>6 DEF StartSession, PositionTypeOK, TrackerType, FreshTracker, AppliedType, NoEntry,
          tellVars
<1>7. CASE EndSession
  <2>1. trk' \in TrackerType /\ trk'.hold = NoHold
    BY <1>1, <1>7 DEF EndSession, FreshTracker
  <2>2. {running', coordsDisowned', link', gap'} \subseteq BOOLEAN
    BY <1>7 DEF EndSession
  <2>3. entry' \in [position : Sighting, lastSeen : Sighting] /\ session' \in 0..MaxSessions
    BY <1>1, <1>7 DEF EndSession, NoEntry
  <2>. QED BY <1>1, <1>7, <2>1, <2>2, <2>3 DEF EndSession, PositionTypeOK, TrackerType, AppliedType
<1>8. CASE LinkDown
  <2>1. gap' \in BOOLEAN
    BY <1>8 DEF LinkDown, PositionTypeOK
  <2>. QED BY <1>1, <1>8, <2>1 DEF LinkDown, PositionTypeOK
<1>9. CASE Rejoin
  BY <1>1, <1>9 DEF Rejoin, PositionTypeOK, NoEntry, tellVars
<1>10. CASE Deliver
  BY <1>10, DeliverType
<1>11. CASE Tick
  BY <1>11 DEF Tick, PositionTypeOK, Times, tellVars
<1>12. CASE UNCHANGED vars
  BY <1>12 DEF vars, PositionTypeOK
<1>. QED BY <1>2, <1>3, <1>4, <1>5, <1>6, <1>7, <1>8, <1>9, <1>10, <1>11, <1>12 DEF Next

LEMMA InitType == Init => PositionTypeOK
<1> SUFFICES ASSUME Init PROVE PositionTypeOK
  OBVIOUS
<1> USE TickNumbers
<1>1. /\ NoPoint \in Sighting /\ FreshTracker \in TrackerType /\ Free \in AppliedType
      /\ <<>> \in Seq(Message) /\ Len(<<>>) <= MaxUplink
  BY DEF FreshTracker, TrackerType, Reasons, Sighting, Free, AppliedType
<1>2. trk.hold = NoHold
  BY DEF Init, FreshTracker
<1>3. waiting \in WaitingType
  BY DEF Init, WaitingType, Free
<1>4. {running, coordsDisowned, link, gap} \subseteq BOOLEAN
  BY DEF Init
<1>5. entry \in [position : Sighting, lastSeen : Sighting] /\ session = 0 /\ made = 0
        /\ now \in Times
  BY <1>1 DEF Init, NoEntry, Times
<1>. QED
  BY <1>1, <1>2, <1>3, <1>4, <1>5 DEF Init, PositionTypeOK, TrackerType, AppliedType, WaitingType

-----------------------------------------------------------------------------
(* What the server holds of us was vouched for.                              *)

\* What is on its way was said at this very moment, and a position the server
\* keeps was vouched for no earlier than it arrived.
Vouched ==
  /\ \A i \in DOMAIN uplink : ~uplink[i].stale => vouchedAt = now
  /\ entry.position # NoPoint => vouchedAt >= entry.position.ms
  /\ vouchedAt <= now

\* Each tick reports now, or leaves what it vouched for as it is.
LEMMA Tells ==
  ASSUME PositionTypeOK, PositionTick
  PROVE  /\ UNCHANGED <<now, session, made, trk, link, entry, crossed>>
         /\ Report \/ (Disown /\ vouchedAt' = vouchedAt)
BY DEF PositionTick, CameraTick, LostTick, VouchingTick, Disown

LEMMA VouchedTick == PositionTypeOK /\ Vouched /\ PositionTick => Vouched'
<1> SUFFICES ASSUME PositionTypeOK, Vouched, PositionTick PROVE Vouched'
  OBVIOUS
<1>1. UNCHANGED <<now, entry>> /\ (Report \/ (Disown /\ vouchedAt' = vouchedAt))
  BY Tells
<1>2. now \in Nat /\ vouchedAt \in Int /\ uplink \in Seq(Message)
  BY DEF PositionTypeOK, Times
<1>3. entry.position # NoPoint => entry.position.ms \in Int
  BY Sightings DEF PositionTypeOK
<1>4. CASE Report
  <2>1. vouchedAt' = now
    BY <1>4 DEF Report
  <2>2. entry.position # NoPoint => now >= entry.position.ms
    BY <1>2, <1>3 DEF Vouched
  <2>. QED BY <1>1, <1>2, <2>1, <2>2 DEF Vouched
<1>5. CASE Disown /\ vouchedAt' = vouchedAt
  <2>1. uplink' \in {uplink, Append(uplink, [stale |-> TRUE, at |-> NoPlace, seen |-> LastSeen])}
    BY <1>5 DEF Disown, Send
  <2>2. ASSUME NEW i \in DOMAIN uplink', ~uplink'[i].stale
        PROVE  i \in DOMAIN uplink /\ uplink'[i] = uplink[i]
    BY <1>2, <2>1, <2>2
  <2>. QED BY <1>1, <1>5, <2>2 DEF Vouched
<1>. QED BY <1>1, <1>4, <1>5

LEMMA VouchedStep == PositionTypeOK /\ PositionTypeOK' /\ Vouched /\ [Next]_vars => Vouched'
<1> SUFFICES ASSUME PositionTypeOK, PositionTypeOK', Vouched, [Next]_vars PROVE Vouched'
  OBVIOUS
<1>1. now \in Nat /\ vouchedAt \in Int /\ uplink \in Seq(Message) /\ uplink' \in Seq(Message)
  BY DEF PositionTypeOK, Times
<1>2. CASE UNCHANGED <<now, vouchedAt, uplink>> /\ entry' \in {entry, NoEntry}
  BY <1>2 DEF Vouched, NoEntry
<1>3. CASE PositionTick
  BY <1>3, VouchedTick
<1>4. CASE StartSession
  BY <1>2, <1>4 DEF StartSession, tellVars
<1>5. CASE EndSession
  BY <1>1, <1>5 DEF EndSession, Vouched, NoEntry
<1>6. CASE LinkDown
  BY <1>6 DEF LinkDown, Vouched
<1>7. CASE Deliver
  <2>1. UNCHANGED <<now, vouchedAt>> /\ uplink # <<>> /\ uplink' = Tail(uplink)
    BY <1>7 DEF Deliver
  <2>2. \A i \in DOMAIN uplink' : i + 1 \in DOMAIN uplink /\ uplink'[i] = uplink[i + 1]
    BY <1>1, <2>1
  <2>3. entry'.position # NoPoint => vouchedAt = now /\ entry'.position.ms = now
    <3>1. 1 \in DOMAIN uplink /\ Head(uplink) = uplink[1]
      BY <1>1, <2>1
    <3>. QED BY <1>7, <3>1 DEF Deliver, Vouched
  <2>. QED BY <1>1, <2>1, <2>2, <2>3 DEF Vouched
<1>8. CASE Tick
  <2>1. now' = now + 1 /\ uplink' = <<>> /\ UNCHANGED <<vouchedAt, entry>>
    BY <1>8 DEF Tick, tellVars
  <2>. QED BY <1>1, <2>1 DEF Vouched
<1>9. CASE Rejoin
  BY <1>2, <1>9 DEF Rejoin, tellVars
<1>10. CASE Tracker
  BY <1>2, <1>10 DEF Tracker, tellVars
<1>11. CASE \E s \in Slots : Answered(s) \/ Failed(s)
  BY <1>2, <1>11 DEF Answered, Failed, Resume, tellVars
<1>12. CASE UNCHANGED vars
  BY <1>2, <1>12 DEF vars
<1>. QED
  BY <1>3, <1>4, <1>5, <1>6, <1>7, <1>8, <1>9, <1>10, <1>11, <1>12 DEF Next

LEMMA VouchedSuffices == PositionTypeOK /\ Vouched => HeardOnlyIfVouched
<1> SUFFICES ASSUME PositionTypeOK, Vouched PROVE HeardOnlyIfVouched
  OBVIOUS
<1>1. now \in Nat /\ vouchedAt \in Int /\ StaleMs \in Nat /\ AnchorMs \in Nat
  BY TickNumbers DEF PositionTypeOK, Times
<1>2. entry.position # NoPoint => entry.position.ms \in Nat /\ vouchedAt >= entry.position.ms
  BY Sightings DEF PositionTypeOK, Vouched, Times
<1>3. EnemyHears => vouchedAt >= 0 /\ now - vouchedAt <= StaleMs
  BY <1>1, <1>2 DEF EnemyHears
<1>4. CASE entry.position # NoPoint
  <2>1. AllyAnchor # NoPoint => entry.position.ms >= now - AnchorMs
    BY <1>4 DEF AllyAnchor
  <2>. QED BY <1>1, <1>2, <1>3, <1>4, <2>1 DEF HeardOnlyIfVouched
<1>5. CASE entry.position = NoPoint
  <2>1. AllyAnchor # NoPoint => AllyAnchor = entry.lastSeen /\ entry.lastSeen.ms >= now - AnchorMs
    BY <1>5 DEF AllyAnchor
  <2>2. entry.lastSeen # NoPoint => entry.lastSeen.ms \in Int
    BY Sightings DEF PositionTypeOK
  <2>. QED BY <1>1, <1>3, <2>1, <2>2 DEF HeardOnlyIfVouched
<1>. QED BY <1>4, <1>5

-----------------------------------------------------------------------------
(* What was disowned is forgotten.                                           *)

\* While we disown our position, and nothing we said was lost, the last thing on
\* its way - or what the server holds, when nothing is - says so.
Withdrawn ==
  coordsDisowned =>
    /\ disownedWith = standsBy
    /\ ~gap => IF uplink = <<>>
               THEN entry.position = NoPoint /\ entry.lastSeen \in {disownedWith, NoPoint}
               ELSE uplink[Len(uplink)].stale /\ uplink[Len(uplink)].seen = disownedWith

LEMMA WithdrawnTick == PositionTypeOK /\ Withdrawn /\ PositionTick => Withdrawn'
<1> SUFFICES ASSUME PositionTypeOK, Withdrawn, PositionTick, coordsDisowned' PROVE Withdrawn'
  BY DEF Withdrawn
<1>1. UNCHANGED entry /\ Disown
  BY Tells DEF Report
<1>2. uplink \in Seq(Message)
  BY DEF PositionTypeOK
<1>3. CASE coordsDisowned /\ LastSeen = disownedWith
  BY <1>1, <1>3 DEF Disown, Withdrawn
<1>4. CASE ~(coordsDisowned /\ LastSeen = disownedWith)
  <2> DEFINE m == [stale |-> TRUE, at |-> NoPlace, seen |-> LastSeen]
  <2>1. Send(m) /\ disownedWith' = LastSeen /\ standsBy' = LastSeen
    BY <1>1, <1>4 DEF Disown
  <2>2. ~gap' => uplink' = Append(uplink, m)
    BY <2>1 DEF Send
  <2>3. m \in Message
    BY LastSeenType DEF Message
  <2>4. ~gap' => uplink' # <<>> /\ uplink'[Len(uplink')] = m
    BY <1>2, <2>2, <2>3
  <2>. QED BY <2>1, <2>4 DEF Withdrawn
<1>. QED BY <1>3, <1>4

LEMMA OneLeft ==
  ASSUME NEW S, NEW s \in Seq(S), s # <<>>, Tail(s) = <<>>
  PROVE  Head(s) = s[Len(s)]
<1>1. Len(s) \in Nat \ {0} /\ Len(Tail(s)) = Len(s) - 1
  BY EmptySeq, HeadTailProperties
<1>2. Len(Tail(s)) = 0
  BY EmptySeq
<1>3. Len(s) = 1
  BY <1>1, <1>2
<1>. QED BY <1>3

LEMMA WithdrawnStep == PositionTypeOK /\ Withdrawn /\ [Next]_vars => Withdrawn'
<1> SUFFICES ASSUME PositionTypeOK, Withdrawn, [Next]_vars PROVE Withdrawn'
  OBVIOUS
<1>1. uplink \in Seq(Message)
  BY DEF PositionTypeOK
<1>2. CASE UNCHANGED tellVars /\ entry' \in {entry, NoEntry}
  BY <1>2 DEF Withdrawn, NoEntry, tellVars
<1>3. CASE PositionTick
  BY <1>3, WithdrawnTick
<1>4. CASE StartSession
  BY <1>2, <1>4 DEF StartSession
<1>5. CASE EndSession
  BY <1>5 DEF EndSession, Withdrawn
<1>6. CASE LinkDown
  <2>1. ~gap' => uplink = <<>> /\ ~gap
    BY <1>6 DEF LinkDown
  <2>. QED BY <1>6, <2>1 DEF LinkDown, Withdrawn
<1>7. CASE Deliver
  <2>1. uplink # <<>> /\ uplink' = Tail(uplink)
          /\ UNCHANGED <<coordsDisowned, disownedWith, standsBy, gap>>
    BY <1>7 DEF Deliver
  <2>2. CASE Tail(uplink) = <<>>
    <3>2. Head(uplink) = uplink[Len(uplink)]
      BY <1>1, <2>1, <2>2, OneLeft
    <3>. QED BY <1>7, <2>1, <2>2, <3>2 DEF Deliver, Withdrawn
  <2>3. CASE Tail(uplink) # <<>>
    <3>1. uplink'[Len(uplink')] = uplink[Len(uplink)]
      BY <1>1, <2>1, <2>3
    <3>. QED BY <2>1, <2>3, <3>1 DEF Withdrawn
  <2>. QED BY <2>2, <2>3
<1>8. CASE Tick
  BY <1>2, <1>8 DEF Tick
<1>9. CASE Rejoin
  BY <1>2, <1>9 DEF Rejoin
<1>10. CASE Tracker
  BY <1>2, <1>10 DEF Tracker
<1>11. CASE \E s \in Slots : Answered(s) \/ Failed(s)
  BY <1>2, <1>11 DEF Answered, Failed, Resume
<1>12. CASE UNCHANGED vars
  BY <1>2, <1>12 DEF vars, tellVars
<1>. QED
  BY <1>3, <1>4, <1>5, <1>6, <1>7, <1>8, <1>9, <1>10, <1>11, <1>12 DEF Next

-----------------------------------------------------------------------------
(* Answers of other sessions.                                                *)

LEMMA AnswersStep == LostAnswersStayInSession /\ [Next]_vars => LostAnswersStayInSession'
<1> SUFFICES ASSUME LostAnswersStayInSession, [Next]_vars PROVE LostAnswersStayInSession'
  OBVIOUS
<1> USE DEF LostAnswersStayInSession
<1>1. CASE UNCHANGED <<session, applied>>
  BY <1>1
<1>2. CASE PositionTick
  <2>1. UNCHANGED session /\ (applied' = applied \/ applied' = [of |-> session, kind |-> "own"])
    BY <1>2 DEF PositionTick, CameraTick, LostTick, LostVolumes, VouchingTick, Ask, Apply
  <2>. QED BY <2>1
<1>3. ASSUME NEW s \in Slots, Answered(s) PROVE LostAnswersStayInSession'
  BY <1>3 DEF Answered, Resume, Apply
<1>4. ASSUME NEW s \in Slots, Failed(s) PROVE LostAnswersStayInSession'
  BY <1>4 DEF Failed, Resume, Apply
<1>5. CASE StartSession
  BY <1>5 DEF StartSession, Free
<1>6. CASE EndSession
  BY <1>6 DEF EndSession, Free
<1>. QED
  BY <1>1, <1>2, <1>3, <1>4, <1>5, <1>6 DEF Next, Tracker, LinkDown, Rejoin, Deliver, Tick, vars

-----------------------------------------------------------------------------
(* Ticks that overlap.                                                       *)

\* The ticks of the session there is that still wait for an answer.
Under == {s \in Slots : waiting[s].of = session /\ session # 0}

\* A session is among those made, and so is every tick's; a tick that may start
\* finds one waiting for each that came back late, and no more.
Overlaps ==
  /\ session <= made /\ \A s \in Slots : waiting[s].of <= made
  /\ Cardinality(Under) <= IF running THEN 1 + crossed ELSE crossed

LEMMA UnderFinite == IsFiniteSet(Under) /\ Cardinality(Under) \in Nat
BY TickAssumption, FS_Subset, FS_CardinalityType DEF Under

LEMMA NobodyUnder == ASSUME Under' = {}, PositionTypeOK' PROVE Cardinality(Under') <= crossed'
BY FS_EmptySet DEF PositionTypeOK

LEMMA OverlapsAsk ==
  ASSUME PositionTypeOK, Overlaps, NEW kind \in {"main", "lost"}, Ask(kind), session # 0, ~running,
         UNCHANGED <<session, made, crossed>>
  PROVE  Overlaps'
<1>1. PICK s \in Slots : waiting[s] = Free
        /\ waiting' = [waiting EXCEPT ![s] = [of |-> session, kind |-> kind]]
  BY DEF Ask
<1>2. running' = TRUE
        /\ waiting \in [Slots -> [of : 0..MaxSessions, kind : {"none", "main", "lost"}]]
      /\ session \in Nat /\ crossed \in Nat /\ made \in Nat
  BY DEF Ask, PositionTypeOK
<1>3. Under' = Under \cup {s} /\ s \notin Under
  BY <1>1, <1>2 DEF Under, Free
<1>4. Cardinality(Under') = Cardinality(Under) + 1
  BY <1>3, UnderFinite, FS_AddElement
<1>5. \A r \in Slots : waiting'[r].of <= made
  BY <1>1, <1>2 DEF Overlaps
<1>. QED BY <1>2, <1>4, <1>5, UnderFinite DEF Overlaps

LEMMA OverlapsResume ==
  ASSUME PositionTypeOK, Overlaps, NEW s \in Slots, Resume(s)
  PROVE  Overlaps'
<1>1. /\ waiting' = [waiting EXCEPT ![s] = Free] /\ running' = FALSE /\ UNCHANGED <<session, made>>
      /\ crossed' = IF session # 0 /\ session # waiting[s].of THEN crossed + 1 ELSE crossed
  BY DEF Resume
<1>2. waiting \in [Slots -> [of : 0..MaxSessions, kind : {"none", "main", "lost"}]]
      /\ session \in Nat /\ crossed \in Nat /\ made \in Nat
  BY DEF PositionTypeOK
<1>3. \A r \in Slots : waiting'[r].of <= made
  BY <1>1, <1>2 DEF Overlaps, Free
<1>4. CASE session # 0 /\ waiting[s].of = session
  <2>1. Under' = Under \ {s} /\ s \in Under
    BY <1>1, <1>2, <1>4 DEF Under, Free
  <2>2. Cardinality(Under') = Cardinality(Under) - 1
    BY <2>1, UnderFinite, FS_RemoveElement
  <2>. QED BY <1>1, <1>2, <1>3, <1>4, <2>2, UnderFinite DEF Overlaps
<1>5. CASE session # 0 /\ waiting[s].of # session
  <2>1. Under' = Under
    BY <1>1, <1>2, <1>5 DEF Under, Free
  <2>. QED BY <1>1, <1>2, <1>3, <1>5, <2>1, UnderFinite DEF Overlaps
<1>6. CASE session = 0
  <2>1. Under' = {}
    BY <1>1, <1>6 DEF Under
  <2>. QED BY <1>1, <1>2, <1>3, <1>6, <2>1, FS_EmptySet DEF Overlaps
<1>. QED BY <1>4, <1>5, <1>6

LEMMA OverlapsStep == PositionTypeOK /\ PositionTypeOK' /\ Overlaps /\ [Next]_vars => Overlaps'
<1> SUFFICES ASSUME PositionTypeOK, PositionTypeOK', Overlaps, [Next]_vars PROVE Overlaps'
  OBVIOUS
<1>1. CASE UNCHANGED <<session, made, waiting, running, crossed>>
  BY <1>1 DEF Overlaps, Under
<1>2. CASE PositionTick
  <2>1. ~running /\ session # 0 /\ UNCHANGED <<session, made, crossed>>
    BY <1>2 DEF PositionTick
  <2>2. UNCHANGED <<running, waiting>> \/ \E kind \in {"main", "lost"} : Ask(kind)
    BY <1>2 DEF PositionTick, CameraTick, LostTick, LostVolumes, VouchingTick
  <2>. QED BY <1>1, <2>1, <2>2, OverlapsAsk
<1>3. CASE \E s \in Slots : Answered(s) \/ Failed(s)
  BY <1>3, OverlapsResume DEF Answered, Failed
<1>4. CASE StartSession
  <2>1. made' = made + 1 /\ session' = made' /\ UNCHANGED <<waiting, running>> /\ made \in Nat
    BY <1>4 DEF StartSession, PositionTypeOK
  <2>2. \A s \in Slots : waiting[s].of \in Nat /\ waiting[s].of <= made
    BY DEF PositionTypeOK, Overlaps
  <2>3. Under' = {}
    BY <2>1, <2>2 DEF Under
  <2>4. crossed' \in Nat
    BY DEF PositionTypeOK
  <2>. QED BY <2>1, <2>2, <2>3, <2>4, FS_EmptySet DEF Overlaps
<1>5. CASE EndSession
  <2>1. session' = 0 /\ running' = FALSE /\ UNCHANGED <<made, waiting, crossed>>
    BY <1>5 DEF EndSession
  <2>2. Under' = {} /\ crossed' \in Nat /\ made \in Nat
    BY <2>1 DEF Under, PositionTypeOK
  <2>. QED BY <2>1, <2>2, FS_EmptySet DEF Overlaps
<1>. QED
  BY <1>1, <1>2, <1>3, <1>4, <1>5 DEF Next, Tracker, LinkDown, Rejoin, Deliver, Tick, vars

-----------------------------------------------------------------------------
(* The results.                                                              *)

TickInv == PositionTypeOK /\ Vouched /\ Withdrawn /\ LostAnswersStayInSession /\ Overlaps

LEMMA TickInvInit == Init => TickInv
<1> SUFFICES ASSUME Init PROVE TickInv
  OBVIOUS
<1>1. PositionTypeOK
  BY InitType
<1>2. Vouched
  BY DEF Init, Vouched, NoEntry
<1>3. Withdrawn /\ LostAnswersStayInSession
  BY DEF Init, Withdrawn, LostAnswersStayInSession, Free
<1>4. Overlaps
  <2>1. Under = {} /\ \A s \in Slots : waiting[s].of = 0
    BY DEF Init, Under, Free
  <2>. QED BY <2>1, FS_EmptySet DEF Init, Overlaps
<1>. QED BY <1>1, <1>2, <1>3, <1>4 DEF TickInv

LEMMA TickInvStep == TickInv /\ [Next]_vars => TickInv'
BY StepType, VouchedStep, WithdrawnStep, AnswersStep, OverlapsStep DEF TickInv

\* The four facts hold throughout, whatever the order of ticks, answers and losses.
THEOREM TickStays == Spec => []TickInv
BY TickInvInit, TickInvStep, PTL DEF Spec

\* Enemies hear us only where we said we were within the staleness window, and
\* teammates only there or at a last sighting (positionTick, computeTieredVolumes).
THEOREM OnlyVouchedIsHeard == Spec => []HeardOnlyIfVouched
<1>1. TickInv => HeardOnlyIfVouched
  BY VouchedSuffices DEF TickInv
<1>. QED BY <1>1, TickStays, PTL

\* A disowning that arrived leaves nothing at the server but the sighting we
\* stand by (disownCoords, clearPosition).
THEOREM DisowningSticks == Spec => []DisownedIsForgotten
<1>1. TickInv => DisownedIsForgotten
  BY DEF TickInv, Withdrawn, DisownedIsForgotten
<1>. QED BY <1>1, TickStays, PTL

\* applyLostVolumes plays no answer of a session that is over.
THEOREM LostAnswersAreOfThisSession == Spec => []LostAnswersStayInSession
<1>1. TickInv => LostAnswersStayInSession
  BY DEF TickInv
<1>. QED BY <1>1, TickStays, PTL

\* positionTickRunning keeps ticks apart but for those of ended sessions.
THEOREM OverlapIsBounded == Spec => []TicksAreBounded
<1>1. TickInv => TicksAreBounded
  <2> SUFFICES ASSUME TickInv PROVE TicksAreBounded
    OBVIOUS
  <2>1. Cardinality(Under) <= 1 + crossed
    BY UnderFinite DEF TickInv, Overlaps, PositionTypeOK
  <2>. QED BY <2>1 DEF TickInv, TicksAreBounded, Under
<1>. QED BY <1>1, TickStays, PTL
=============================================================================
