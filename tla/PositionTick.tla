---------------------------- MODULE PositionTick ----------------------------
(***************************************************************************)
(* The orchestrator's position tick (services/orchestrator.ts): what it     *)
(* tells the server of where we are, when it takes that back, what it asks  *)
(* the server for and what it does with the answer, across sessions.        *)
(*                                                                         *)
(* The tracker is seen through what the tick reads of it: its state, its    *)
(* position, how long it has been holding and where it last saw us.  The    *)
(* server keeps one entry for us (setPosition, clearPosition and the        *)
(* takeover in join, rooms.ts), and Heard* is how computeTieredVolumes      *)
(* reads it for another player.  Coordinates travel on the WebSocket, in    *)
(* order, and are lost with it; volume requests travel on their own.        *)
(***************************************************************************)
EXTENDS TrackerPromise, Sequences, FiniteSets

CONSTANTS
  StaleMs,        \* STALE_POSITION_MS
  AnchorMs,       \* LOST_ALLY_ANCHOR_MS
  DisownAfter,    \* disownAfterSec: hold reason -> how long we go on vouching
  Slots,          \* identities of the ticks that wait for an answer
  MaxSessions,    \* bound on the sessions
  MaxUplink       \* bound on the coordinates in transit

ASSUME TickAssumption ==
  /\ StaleMs \in Nat /\ AnchorMs \in Nat
  /\ StaleMs < AnchorMs
  /\ DisownAfter \in [Reasons -> Nat]
  /\ IsFiniteSet(Slots)
  /\ MaxSessions \in Nat /\ MaxUplink \in Nat

VARIABLES
  session, made,   \* this.session, or 0, and how many there have been
  running,         \* positionTickRunning
  waiting,         \* slot -> the tick suspended there: [of, kind], or Free
  coordsDisowned, disownedWith,
  applied,         \* what this session's AudioService last played: [of, kind]
  link,            \* the WebSocket is open and joined
  uplink,          \* coords messages on it
  entry,           \* our entry in room state: position, lastSeen
  vouchedAt,       \* history: when a tick last reported a position as ours, or -1
  standsBy,        \* history: the sighting the last tick of this episode stood by
  gap,             \* history: the last message was lost
  crossed          \* history: ticks of an ended session that came back in this one

tellVars == <<coordsDisowned, disownedWith, uplink, vouchedAt, standsBy, gap>>
vars == <<now, session, made, trk, running, waiting, coordsDisowned, disownedWith,
          applied, link, uplink, entry, vouchedAt, standsBy, gap, crossed>>

Free    == [of |-> 0, kind |-> "none"]
Message == [stale : {FALSE}, at : Places, seen : {NoPoint}]
             \cup [stale : {TRUE}, at : {NoPlace}, seen : Sighting]

NoEntry == [position |-> NoPoint, lastSeen |-> NoPoint]

\* Only a tracker that is locked holds: the clock after which we stop vouching
\* does not run on through a death or a rescan.
PositionTypeOK ==
  /\ now \in Times
  /\ session \in 0..MaxSessions /\ made \in 0..MaxSessions
  /\ {running, coordsDisowned, link, gap} \subseteq BOOLEAN
  /\ trk \in [state : {"scanning", "locked", "dead"}, at : Places \cup {NoPlace},
              hold : Times \cup {NoHold}, reason : Reasons \cup {"none"}, seen : Sighting]
  /\ trk.hold # NoHold => trk.state = "locked"
  /\ waiting \in [Slots -> [of : 0..MaxSessions, kind : {"none", "main", "lost"}]]
  /\ disownedWith \in Sighting /\ standsBy \in Sighting
  /\ applied \in [of : 0..MaxSessions, kind : {"none", "main", "lost", "own"}]
  /\ uplink \in Seq(Message) /\ Len(uplink) <= MaxUplink
  /\ entry \in [position : Sighting, lastSeen : Sighting]
  /\ vouchedAt \in Times \cup {-1}
  /\ crossed \in Nat

Init ==
  /\ now = 0
  /\ session = 0 /\ made = 0
  /\ trk = FreshTracker
  /\ running = FALSE /\ waiting = [s \in Slots |-> Free]
  /\ coordsDisowned = FALSE /\ disownedWith = NoPoint
  /\ applied = Free
  /\ link = FALSE /\ uplink = <<>> /\ entry = NoEntry
  /\ vouchedAt = -1 /\ standsBy = NoPoint /\ gap = FALSE /\ crossed = 0

-----------------------------------------------------------------------------
(* What the tick reads of the tracker, and its moves.                       *)

\* getLastSeenPosition(LOST_ALLY_ANCHOR_MS)
LastSeen ==
  IF trk.state # "dead" /\ trk.seen # NoPoint /\ now - trk.seen.ms <= AnchorMs
    THEN trk.seen ELSE NoPoint

Tracker ==
  /\ session # 0
  /\ Move
  /\ UNCHANGED <<now, session, made, running, waiting, tellVars, applied, link,
                 entry, crossed>>

-----------------------------------------------------------------------------
(* What a tick tells the server.                                            *)

\* sendCoords: dropped in silence unless the socket is open.
Send(m) ==
  /\ Len(uplink) < MaxUplink
  /\ uplink' = IF link THEN Append(uplink, m) ELSE uplink
  /\ gap' = ~link

Report ==
  /\ Send([stale |-> FALSE, at |-> trk.at, seen |-> NoPoint])
  /\ coordsDisowned' = FALSE /\ disownedWith' = NoPoint
  /\ vouchedAt' = now /\ standsBy' = NoPoint

\* Wrong variant of Disown: told once, whatever the tracker forgets later.
DisownOnce ==
  /\ standsBy' = LastSeen
  /\ IF coordsDisowned \/ trk.at = NoPlace
    THEN UNCHANGED <<coordsDisowned, disownedWith, uplink, vouchedAt, gap>>
    ELSE /\ Send([stale |-> TRUE, at |-> NoPlace, seen |-> LastSeen])
         /\ coordsDisowned' = TRUE /\ disownedWith' = LastSeen
         /\ UNCHANGED vouchedAt

\* disownCoords: once per episode, and again when what we stand by changes.  A
\* first disown needs a position to name.
Disown ==
  /\ standsBy' = LastSeen
  /\ IF \/ coordsDisowned /\ LastSeen = disownedWith
        \/ ~coordsDisowned /\ trk.at = NoPlace
    THEN UNCHANGED <<coordsDisowned, disownedWith, uplink, vouchedAt, gap>>
    ELSE /\ Send([stale |-> TRUE, at |-> NoPlace, seen |-> LastSeen])
         /\ coordsDisowned' = TRUE /\ disownedWith' = LastSeen
         /\ UNCHANGED vouchedAt

(* What it asks for and plays.                                              *)

\* applyPeerVolumes: the volumes are worked out here ("own": our team, or the
\* camera box) or are the answer to a tick of session `of`.
Apply(of, kind) == applied' = [of |-> of, kind |-> kind]

\* The tick is suspended at computeVolumes.
Ask(kind) == \E s \in Slots :
  /\ waiting[s] = Free
  /\ waiting' = [waiting EXCEPT ![s] = [of |-> session, kind |-> kind]]
  /\ running' = TRUE
  /\ UNCHANGED applied

\* applyLostVolumes: our team only, by distance from where we were last seen.
LostVolumes ==
  IF LastSeen # NoPoint THEN Ask("lost")
  ELSE Apply(session, "own") /\ UNCHANGED <<running, waiting>>

Lost ==
  \/ trk.state = "scanning"
  \/ trk.at = NoPlace
  \/ trk.hold # NoHold /\ HoldDuration > DisownAfter[trk.reason]

\* Camera mode, with every player's icon in: whoever is in the camera box, read
\* off our own minimap.
CameraTick   == Disown /\ Apply(session, "own") /\ UNCHANGED <<running, waiting>>
LostTick     == Lost /\ Disown /\ LostVolumes
VouchingTick == ~Lost /\ Report /\ Ask("main")

\* Wrong variant of PositionTick: ticks overlap.
OverlappingTick ==
  /\ session # 0
  /\ CameraTick \/ LostTick \/ VouchingTick
  /\ UNCHANGED <<now, session, made, trk, link, entry, crossed>>

\* positionTick up to its first await, or its end.  The user may have turned
\* camera mode on or off since the last one.
PositionTick ==
  /\ ~running /\ session # 0
  /\ CameraTick \/ LostTick \/ VouchingTick
  /\ UNCHANGED <<now, session, made, trk, link, entry, crossed>>

\* The answer, and the `finally` that ends the tick whichever session it is of.
Resume(s) ==
  /\ waiting[s] # Free
  /\ waiting' = [waiting EXCEPT ![s] = Free]
  /\ running' = FALSE
  /\ crossed' = IF session # 0 /\ session # waiting[s].of THEN crossed + 1 ELSE crossed
  /\ UNCHANGED <<now, session, made, trk, link, entry, tellVars>>

\* Wrong variant of Answered: the lost path does not look at the session either.
AnsweredAnyone(s) ==
  /\ Resume(s)
  /\ IF session # 0 THEN Apply(waiting[s].of, waiting[s].kind) ELSE UNCHANGED applied

\* The lost path checks that its session is still the one; the other plays the
\* answer on whichever AudioService there is.  With no session the last one's,
\* already cleaned up, has nobody left to play it for.
Answered(s) ==
  /\ Resume(s)
  /\ IF session # 0 /\ (waiting[s].kind = "main" \/ waiting[s].of = session)
       THEN Apply(waiting[s].of, waiting[s].kind) ELSE UNCHANGED applied

\* The request failed or was aborted after 3 s.
Failed(s) ==
  /\ Resume(s)
  /\ IF session # 0 /\ waiting[s].kind = "lost" THEN Apply(session, "own")
                                                ELSE UNCHANGED applied

-----------------------------------------------------------------------------
(* Sessions and the link.                                                   *)

StartSession ==
  /\ session = 0 /\ made < MaxSessions
  /\ session' = made + 1 /\ made' = made + 1
  /\ trk' = FreshTracker
  /\ link' = TRUE /\ entry' = NoEntry
  /\ crossed' = 0 /\ applied' = Free
  /\ UNCHANGED <<now, running, waiting, tellVars>>

\* endSession, and leaveRoom within it: the server drops our entry.
EndSession ==
  /\ session # 0
  /\ session' = 0 /\ running' = FALSE
  /\ trk' = FreshTracker
  /\ coordsDisowned' = FALSE /\ disownedWith' = NoPoint
  /\ link' = FALSE /\ uplink' = <<>> /\ entry' = NoEntry
  /\ vouchedAt' = -1 /\ standsBy' = NoPoint /\ gap' = FALSE /\ applied' = Free
  /\ UNCHANGED <<now, made, waiting, crossed>>

\* The connection drops, with what was on it.
LinkDown ==
  /\ session # 0 /\ link
  /\ link' = FALSE /\ uplink' = <<>>
  /\ gap' = (gap \/ uplink # <<>>)
  /\ UNCHANGED <<now, session, made, trk, running, waiting, coordsDisowned,
                 disownedWith, applied, entry, vouchedAt, standsBy, crossed>>

\* Wrong variant of Rejoin: the carried position is stamped anew.
RejoinRestamped ==
  /\ session # 0 /\ ~link
  /\ link' = TRUE
  /\ entry' = [entry EXCEPT !.position = IF @ = NoPoint THEN @ ELSE [@ EXCEPT !.ms = now]]
  /\ UNCHANGED <<now, session, made, trk, running, waiting, tellVars, applied, crossed>>

\* The reconnect joins under our name: the old entry's state is carried over,
\* unless the server had already seen the old socket close.
Rejoin ==
  /\ session # 0 /\ ~link
  /\ link' = TRUE
  /\ entry' \in {entry, NoEntry}
  /\ UNCHANGED <<now, session, made, trk, running, waiting, tellVars, applied, crossed>>

\* 'coords' at the server.
Deliver ==
  /\ uplink # <<>>
  /\ uplink' = Tail(uplink)
  /\ entry' = IF Head(uplink).stale
                THEN [position |-> NoPoint, lastSeen |-> Head(uplink).seen]
                ELSE [position |-> [at |-> Head(uplink).at, ms |-> now], lastSeen |-> NoPoint]
  /\ UNCHANGED <<now, session, made, trk, running, waiting, coordsDisowned,
                 disownedWith, applied, link, vouchedAt, standsBy, gap, crossed>>

\* A unit of the clock is seconds: messages do not take that long.
Tick ==
  /\ now < MaxNow /\ uplink = <<>>
  /\ now' = now + 1
  /\ UNCHANGED <<session, made, trk, running, waiting, tellVars, applied, link,
                 entry, crossed>>

Next ==
  \/ Tracker \/ PositionTick
  \/ \E s \in Slots : Answered(s) \/ Failed(s)
  \/ StartSession \/ EndSession
  \/ LinkDown \/ Rejoin \/ Deliver
  \/ Tick

Spec == Init /\ [][Next]_vars

-----------------------------------------------------------------------------
(* computeTieredVolumes, of us, for another player close enough.            *)

EnemyHears == entry.position # NoPoint /\ entry.position.ms >= now - StaleMs

\* allyAnchor: the later of the two, within the window.
AllyAnchor ==
  LET latest == IF entry.position # NoPoint THEN entry.position ELSE entry.lastSeen
  IN IF latest # NoPoint /\ latest.ms >= now - AnchorMs THEN latest ELSE NoPoint

-----------------------------------------------------------------------------
(* Properties.                                                              *)

\* An enemy hears us only where a tick of this session reported us within the
\* staleness window, however the connection came and went in between, and a
\* teammate scores us only at such a report or a sighting within the window of
\* lost allies.
HeardOnlyIfVouched ==
  /\ EnemyHears => vouchedAt >= 0 /\ now - vouchedAt <= StaleMs
  /\ AllyAnchor # NoPoint =>
       \/ vouchedAt >= 0 /\ now - vouchedAt <= AnchorMs
       \/ AllyAnchor = entry.lastSeen /\ now - AllyAnchor.ms <= AnchorMs

\* Once the disowning messages have arrived the server holds no position of
\* ours, and the last sighting it keeps for our teammates is the one we stood
\* by at the last tick: a RESET or a respawn takes it away there too.
DisownedIsForgotten ==
  coordsDisowned /\ uplink = <<>> /\ ~gap =>
    /\ entry.position = NoPoint
    /\ entry.lastSeen \in {standsBy, NoPoint}

\* What an answer asked for while lost says of our teammates is played only in
\* the session it was asked in (applyLostVolumes: the game ended while we
\* waited).
LostAnswersStayInSession == applied.kind = "lost" => applied.of = session

\* Ticks of a session overlap only because a tick of an ended session came back
\* and cleared the flag: one more for each that did.
TicksAreBounded == PositionTypeOK /\
  Cardinality({s \in Slots : waiting[s].of = session /\ session # 0}) <= 1 + crossed

\* "Tell the server to forget our position, once per lost-tracking episode":
\* a tick that finds us lost leaves nothing vouched for at the server.
LossIsWithdrawn ==
  [][PositionTick /\ Lost /\ link /\ vouchedAt >= 0 => coordsDisowned']_vars
=============================================================================
