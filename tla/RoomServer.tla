----------------------------- MODULE RoomServer -----------------------------
(***************************************************************************)
(* The rooms of the signaling server: RoomManager (server/src/rooms.ts)    *)
(* and the message and close handlers that drive it (ws-handler.ts), on    *)
(* top of the connection layer.  Handlers run to completion one at a time  *)
(* (Node's event loop), so each is one action.                             *)
(*                                                                         *)
(* The registry is two maps, kept apart as in the code: `rooms` (roomId to *)
(* the entries in it) and `clients` (socket to its entry).  The mutable    *)
(* part of a ClientInfo is `info`.  `told` adds up what a socket has been  *)
(* sent about who is in its room.                                          *)
(***************************************************************************)
EXTENDS Connections

CONSTANTS
  Rooms, Names, Teams,
  Places,             \* map coordinates, as far as they are told apart
  ConsentChoices,     \* values of the shared-RESET opt-in a client may send
  AnchorMs,           \* LOST_ALLY_ANCHOR_MS
  RoomCooldown,       \* SHARED_RESET_ROOM_MS
  SenderCooldown,     \* SHARED_RESET_SENDER_MS
  MaxNow,             \* bound on the clock
  NoSeat, NoTeam, NoPoint

ASSUME RoomAssumption ==
  /\ ConsentChoices \subseteq BOOLEAN
  /\ RoomCooldown \in Nat /\ SenderCooldown \in Nat /\ AnchorMs \in Nat /\ MaxNow \in Nat
  /\ NoTeam \notin Teams
  /\ NoSeat \notin [room : Rooms, name : Names]
  /\ NoPoint \notin Places \cup [at : Places, ms : Int]

VARIABLES
  rooms,          \* roomId -> entries [name, ws]; an absent key is the empty set
  clients,        \* ws -> its seat [room, name], or NoSeat
  info,           \* ws -> team, position, camera, lastSeen, sharedReset
  roomResetMs,    \* roomId -> when a shared RESET was last relayed there, or Never
  senderResetMs,  \* roomId -> name -> the same per sender
  now,            \* Date.now()
  told,           \* history: ws -> the names it has been told are in its room
  said,           \* history: ws -> the opt-in its client last sent on this socket
  relayed,        \* history: roomId -> name -> its last relay that reached anyone
  vacated         \* history: roomId -> the names whose last relay there is from
                  \* before the room last stood empty

registryVars == <<rooms, clients, info>>
stampVars    == <<roomResetMs, senderResetMs>>
roomHistory  == <<told, said, relayed, vacated>>
roomVars     == <<rooms, clients, info, roomResetMs, senderResetMs, now,
                  told, said, relayed, vacated>>
vars         == <<connVars, roomVars>>

Seat   == [room : Rooms, name : Names]
Entry  == [name : Names, ws : Sockets]
Point  == [at : Places, ms : Int]
Points == Point \cup {NoPoint}
Info   == [team : Teams \cup {NoTeam}, position : Points, camera : Points,
           lastSeen : Points, sharedReset : BOOLEAN]
Never  == -SenderCooldown - RoomCooldown - 1    \* older than any cooldown

Blank == [team |-> NoTeam, position |-> NoPoint, camera |-> NoPoint,
          lastSeen |-> NoPoint, sharedReset |-> FALSE]

RoomTypeOK ==
  /\ rooms \in [Rooms -> SUBSET Entry]
  /\ clients \in [Sockets -> Seat \cup {NoSeat}]
  /\ info \in [Sockets -> Info]
  /\ roomResetMs \in [Rooms -> Int]
  /\ senderResetMs \in [Rooms -> [Names -> Int]]
  /\ now \in Nat
  /\ told \in [Sockets -> SUBSET Names]
  /\ said \in [Sockets -> BOOLEAN]
  /\ relayed \in [Rooms -> [Names -> Int]]
  /\ vacated \in [Rooms -> SUBSET Names]

TypeOK == ConnTypeOK /\ RoomTypeOK

Init ==
  /\ ConnInit
  /\ rooms = [r \in Rooms |-> {}]
  /\ clients = [s \in Sockets |-> NoSeat]
  /\ info = [s \in Sockets |-> Blank]
  /\ roomResetMs = [r \in Rooms |-> Never]
  /\ senderResetMs = [r \in Rooms |-> [n \in Names |-> Never]]
  /\ now = 0
  /\ told = [s \in Sockets |-> {}]
  /\ said = [s \in Sockets |-> FALSE]
  /\ relayed = [r \in Rooms |-> [n \in Names |-> Never]]
  /\ vacated = [r \in Rooms |-> {}]

-----------------------------------------------------------------------------
(* Reading the registry.                                                   *)

Seated(s) == clients[s] # NoSeat

\* getOthersInRoom, as entries
Others(s) ==
  IF Seated(s) THEN {e \in rooms[clients[s].room] : e.ws # s} ELSE {}

NamesOf(entries) == {e.name : e \in entries}

-----------------------------------------------------------------------------
(* Outgoing messages, by what they do to what their readers know of the    *)
(* room.  send() drops a message unless the socket is open.                *)

RoomState(names) == [type |-> "room_state", names |-> names]
PeerJoined(n)    == [type |-> "peer_joined", names |-> {n}]
PeerLeft(n)      == [type |-> "peer_left", names |-> {n}]

Hear(names, m) ==
  CASE m.type = "room_state"  -> m.names
    [] m.type = "peer_joined" -> names \cup m.names
    [] m.type = "peer_left"   -> names \ m.names

\* The knowledge `known`, after m was sent to the sockets of `entries`.
Sent(known, entries, m) ==
  [w \in Sockets |-> IF ready[w] = "open" /\ \E e \in entries : e.ws = w
                     THEN Hear(known[w], m) ELSE known[w]]

\* Written after clients': what a socket heard is kept while it has a seat.
Deliver(known) ==
  told' = [w \in Sockets |-> IF clients'[w] = NoSeat THEN {} ELSE known[w]]

-----------------------------------------------------------------------------
(* leave(): drop the entry; the last one out takes the room and its        *)
(* cooldown stamps along.                                                  *)

RoomsWithout(s) ==
  IF Seated(s) THEN [rooms EXCEPT ![clients[s].room] = @ \ {[name |-> clients[s].name, ws |-> s]}]
               ELSE rooms

Emptied(s) == {r \in Rooms : Seated(s) /\ r = clients[s].room /\ RoomsWithout(s)[r] = {}}

ForgetStamps(gone) ==
  /\ roomResetMs' = [r \in Rooms |-> IF r \in gone THEN Never ELSE roomResetMs[r]]
  /\ senderResetMs' = [r \in Rooms |->
       IF r \in gone THEN [n \in Names |-> Never] ELSE senderResetMs[r]]
  /\ vacated' = [r \in Rooms |-> IF r \in gone THEN Names ELSE vacated[r]]

LeaveMail(s) == IF Seated(s) THEN Sent(told, Others(s), PeerLeft(clients[s].name)) ELSE told

-----------------------------------------------------------------------------
(* 'join'.  A repeated join refreshes team and opt-in and re-reads the      *)
(* room; any other join leaves the old seat first and then takes the new    *)
(* one, evicting whoever holds the name there.                             *)

\* Wrong variant of Declared: the opt-in of the entry taken over lives on.
DeclaredOnTop(i, team, on) ==
  [i EXCEPT !.team = IF team = NoTeam THEN @ ELSE team, !.sharedReset = @ \/ on]

\* What a join declares: an omitted team keeps the one known, the opt-in is as said.
Declared(i, team, on) ==
  [i EXCEPT !.team = IF team = NoTeam THEN @ ELSE team, !.sharedReset = on]

RepeatJoin(s, seat, team, on) ==
  /\ Inbound(s)
  /\ clients[s] = seat
  /\ info' = [info EXCEPT ![s] = Declared(info[s], team, on)]
  /\ said' = [said EXCEPT ![s] = on]
  /\ UNCHANGED <<ready, evictTimer, evicted, rooms, clients, stampVars, now, relayed, vacated>>
  /\ Deliver(Sent(told, {[name |-> seat.name, ws |-> s]}, RoomState(NamesOf(Others(s)))))

\* Wrong variant of Duplicates: an entry whose socket is closing is overlooked.
OpenDuplicates(s, seat) ==
  {e \in RoomsWithout(s)[seat.room] : e.name = seat.name /\ ready[e.ws] = "open"}

\* The entries under the wanted name, once s has left its old seat.
Duplicates(s, seat) == {e \in RoomsWithout(s)[seat.room] : e.name = seat.name}
Displaced(s, seat)  == {e.ws : e \in Duplicates(s, seat)}
Staying(s, seat)    == RoomsWithout(s)[seat.room] \ Duplicates(s, seat)

\* Wrong variant of TakenOver: the newer connection starts from nothing.
TakenOverBlank(s, seat, team, on) == Declared(Blank, team, on)

\* Position, camera, last-seen place and team carry over from an evicted entry;
\* the opt-in does not.
TakenOver(s, seat, team, on) ==
  LET old == IF Displaced(s, seat) = {} THEN Blank
                                        ELSE info[CHOOSE w \in Displaced(s, seat) : TRUE]
  IN  Declared(old, team, on)

\* Wrong variant of JoinMail: a move tells the new room and forgets the old one.
JoinMailOnly(s, seat) ==
  LET welcomed == Sent(told, {[name |-> seat.name, ws |-> s]},
                       RoomState(NamesOf(Staying(s, seat))))
  IN  Sent(welcomed, Staying(s, seat), PeerJoined(seat.name))

JoinMail(s, seat) ==
  LET welcomed == Sent(LeaveMail(s), {[name |-> seat.name, ws |-> s]},
                       RoomState(NamesOf(Staying(s, seat))))
  IN  Sent(welcomed, Staying(s, seat), PeerJoined(seat.name))

TakeSeat(s, seat, team, on) ==
  /\ Inbound(s)
  /\ clients[s] # seat
  /\ rooms' = [RoomsWithout(s) EXCEPT ![seat.room] =
                 Staying(s, seat) \cup {[name |-> seat.name, ws |-> s]}]
  /\ clients' = [w \in Sockets |-> IF w = s THEN seat
                                   ELSE IF w \in Displaced(s, seat) THEN NoSeat
                                   ELSE clients[w]]
  /\ info' = [w \in Sockets |-> IF w = s THEN TakenOver(s, seat, team, on)
                                ELSE IF w \in Displaced(s, seat) THEN Blank
                                ELSE info[w]]
  /\ said' = [w \in Sockets |-> IF w = s THEN on ELSE IF w \in Displaced(s, seat) THEN FALSE
                                ELSE said[w]]
  /\ BeginEvict(Displaced(s, seat))
  /\ ForgetStamps(Emptied(s))
  /\ Deliver(JoinMail(s, seat))
  /\ UNCHANGED <<now, relayed>>

-----------------------------------------------------------------------------
(* Shared RESET.                                                           *)

SetSharedReset(s, on) ==
  /\ Inbound(s) /\ Seated(s)
  /\ info' = [info EXCEPT ![s].sharedReset = on]
  /\ said' = [said EXCEPT ![s] = on]
  /\ UNCHANGED <<ready, evictTimer, evicted, rooms, clients, stampVars, now, told, relayed, vacated>>

\* Wrong variant of MayRelayReset: only the sender's own cooldown is looked at.
MayRelayOwn(s) ==
  /\ info[s].sharedReset
  /\ now - senderResetMs[clients[s].room][clients[s].name] >= SenderCooldown

MayRelayReset(s) ==
  LET seat == clients[s] IN
  /\ info[s].sharedReset
  /\ now - senderResetMs[seat.room][seat.name] >= SenderCooldown
  /\ now - roomResetMs[seat.room] >= RoomCooldown

Recipients(s) == {e \in Others(s) : info[e.ws].sharedReset /\ ready[e.ws] = "open"}

\* 'reset_all', relayed: both stamps are set.  A request that may not be relayed
\* is dropped without an answer (SignOfLife).
RelayReset(s) ==
  LET seat == clients[s] IN
  /\ Inbound(s) /\ Seated(s)
  /\ MayRelayReset(s)
  /\ roomResetMs' = [roomResetMs EXCEPT ![seat.room] = now]
  /\ senderResetMs' = [senderResetMs EXCEPT ![seat.room][seat.name] = now]
  /\ relayed' = [relayed EXCEPT ![seat.room][seat.name] = IF Recipients(s) = {} THEN @ ELSE now]
  /\ vacated' = [vacated EXCEPT ![seat.room] = IF Recipients(s) = {} THEN @ ELSE @ \ {seat.name}]
  /\ UNCHANGED <<ready, evictTimer, evicted, rooms, clients, info, now, told, said>>

-----------------------------------------------------------------------------
(* 'coords'.                                                               *)

Stamped(at, ms) == IF at = NoPoint THEN NoPoint ELSE [at |-> at, ms |-> ms]

\* A position, with a camera or (its setting off) without.
ReportCoords(s, at, camera) ==
  /\ Inbound(s) /\ Seated(s)
  /\ info' = [info EXCEPT ![s] = [@ EXCEPT !.position = Stamped(at, now),
                                           !.lastSeen = NoPoint,
                                           !.camera = Stamped(camera, now)]]
  /\ UNCHANGED <<ready, evictTimer, evicted, rooms, clients, stampVars, now, roomHistory>>

\* Wrong variant of DisownCoords: the camera stays behind.
DisownKeepingCamera(s, seen, ago) ==
  /\ Inbound(s) /\ Seated(s)
  /\ info' = [info EXCEPT ![s].lastSeen = Stamped(seen, now), ![s].position = NoPoint]
  /\ UNCHANGED <<ready, evictTimer, evicted, rooms, clients, stampVars, now, roomHistory>>

\* stale: the position is disowned; `seen`, if the client stands by one, is
\* where it last saw itself, `ago` clamped to the ally-anchor window.
DisownCoords(s, seen, ago) ==
  /\ Inbound(s) /\ Seated(s)
  /\ info' = [info EXCEPT ![s] = [@ EXCEPT
       !.lastSeen = Stamped(seen, now - (IF ago < AnchorMs THEN ago ELSE AnchorMs)),
       !.position = NoPoint,
       !.camera = NoPoint]]
  /\ UNCHANGED <<ready, evictTimer, evicted, rooms, clients, stampVars, now, roomHistory>>

-----------------------------------------------------------------------------
(* ws 'close': whoever is left in the room is told.  A socket evicted by a  *)
(* later join has no entry any more and nobody hears of its end.            *)

Close(s) ==
  /\ CloseEvent(s)
  /\ rooms' = RoomsWithout(s)
  /\ clients' = [clients EXCEPT ![s] = NoSeat]
  /\ info' = [info EXCEPT ![s] = Blank]
  /\ ForgetStamps(Emptied(s))
  /\ Deliver(LeaveMail(s))
  /\ said' = [said EXCEPT ![s] = FALSE]
  /\ UNCHANGED <<now, relayed>>

Tick ==
  /\ now < MaxNow
  /\ now' = now + 1
  /\ UNCHANGED <<connVars, rooms, clients, info, stampVars, roomHistory>>

\* The connection-layer steps that leave the rooms alone.
Transport ==
  /\ \/ Sweep
     \/ \E s \in Sockets :
          \/ Admit(s) \/ Reject(s) \/ SignOfLife(s)
          \/ EvictTimeout(s) \/ ClientCloses(s) \/ CloseTimeout(s) \/ Vanish(s)
  /\ UNCHANGED roomVars

Join(s) ==
  \E seat \in Seat, team \in Teams \cup {NoTeam}, on \in ConsentChoices :
    RepeatJoin(s, seat, team, on) \/ TakeSeat(s, seat, team, on)

Coords(s) ==
  \/ \E at \in Places, camera \in Places \cup {NoPoint} : ReportCoords(s, at, camera)
  \/ \E seen \in Places, ago \in 0..AnchorMs + 1 : DisownCoords(s, seen, ago)
  \/ DisownCoords(s, NoPoint, 0)

Reset(s) == RelayReset(s) \/ \E on \in ConsentChoices : SetSharedReset(s, on)

Next ==
  \/ Tick
  \/ Transport
  \/ \E s \in Sockets : Join(s) \/ Coords(s) \/ Reset(s) \/ Close(s)

Spec == Init /\ [][Next]_vars

\* Only the server's own timers and event loop; see ConnFairness.
RoomFairness ==
  /\ WF_vars(Sweep /\ UNCHANGED roomVars)
  /\ \A s \in Sockets : WF_vars(EvictTimeout(s) /\ UNCHANGED roomVars) /\ WF_vars(Close(s))

-----------------------------------------------------------------------------
(* Properties.                                                             *)

\* "One entry per name per room is an invariant the rest of this file relies
\* on" (rooms.ts): a second entry would black-hole signals to that name.
UniqueNames ==
  \A r \in Rooms : \A e, f \in rooms[r] : e.name = f.name => e = f

\* The two maps describe one registry: an entry is in a room's list exactly
\* when its socket maps to that seat, through joins, moves, renames, takeovers
\* and closes in any order.
RegistryAgrees ==
  \A r \in Rooms, n \in Names, s \in Sockets :
    [name |-> n, ws |-> s] \in rooms[r] <=> clients[s] = [room |-> r, name |-> n]

\* A seat is only ever held by an admitted socket that has not closed: leave
\* runs on every path out.
SeatsAreLive ==
  \A s \in Sockets : Seated(s) => s \in admitted /\ Live(s)

\* Through joins, moves, renames, takeovers and closes in any order, the registry is
\* one: an entry per name and room, known from both maps, held by a live connection.
Seating == TypeOK /\ UniqueNames /\ RegistryAgrees /\ SeatsAreLive

\* What a member has been sent about its room adds up to who is in it: no
\* takeover, move or close leaves it believing in someone who is gone, or
\* missing someone who is there.
ViewsAgree ==
  \A s \in Sockets :
    Seated(s) /\ ready[s] = "open" => told[s] = NamesOf(Others(s))

\* A place the server holds is either live or last seen, never both, and a
\* camera is held only beside a live position: disowning a position leaves
\* nothing of it behind, also across a takeover.
OnePlaceAtMost ==
  \A s \in Sockets :
    LET i == info[s] IN
    /\ i.position = NoPoint \/ i.lastSeen = NoPoint
    /\ i.camera # NoPoint => i.position # NoPoint
    /\ i.position # NoPoint \/ i.lastSeen # NoPoint => Seated(s)

\* A takeover moves a name to another socket with its place, and never moves the
\* opt-in: consent is what was said on this very connection.
ConsentIsOwn ==
  \A s \in Sockets : Seated(s) => info[s].sharedReset = said[s]

TakeoverKeepsPlace ==
  [][\A r \in Rooms : \A e \in rooms[r], f \in rooms'[r] :
       e.name = f.name /\ e.ws # f.ws =>
         /\ info'[f.ws].position = info[e.ws].position
         /\ info'[f.ws].camera = info[e.ws].camera
         /\ info'[f.ws].lastSeen = info[e.ws].lastSeen
         /\ info[e.ws].team # NoTeam => info'[f.ws].team # NoTeam]_vars

\* A RESET that reaches someone in room r comes RoomCooldown after every earlier
\* one by the names in `since`, and SenderCooldown after its own sender's.
SpacedIn(r, since) ==
  relayed'[r] # relayed[r] =>
    \A n \in since :
      /\ now - relayed[r][n] >= RoomCooldown
      /\ relayed'[r][n] # relayed[r][n] => now - relayed[r][n] >= SenderCooldown

\* While a room stays occupied, a RESET is relayed in it at most once per
\* RoomCooldown, and at most once per SenderCooldown for one name, whatever
\* reconnects and takeovers happen in between.
RelaysAreSpaced == [][\A r \in Rooms : SpacedIn(r, Names \ vacated[r])]_vars

\* A half-open client does not stay in its room: its name, its voice at full
\* volume for allies and the signals addressed to it are gone after the reaping.
GhostsLeave ==
  \A s \in Sockets : (Seated(s) /\ link[s] = "down") ~> ~Seated(s)

=============================================================================
