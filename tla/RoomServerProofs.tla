-------------------------- MODULE RoomServerProofs ---------------------------
(***************************************************************************)
(* Proofs about the rooms, for every set of sockets, names and rooms.      *)
(***************************************************************************)
EXTENDS RoomServer, ConnectionsProofs

-----------------------------------------------------------------------------
(* Types.                                                                  *)

\* The record an entry starts from is a well-formed one.
LEMMA BlankType == Blank \in Info
BY RoomAssumption DEF Blank, Info, Points

\* A stamped place is a point, or the absence of one.
LEMMA StampedType ==
  ASSUME NEW at \in Places \cup {NoPoint}, NEW ms \in Int
  PROVE  Stamped(at, ms) \in Points
BY DEF Stamped, Points, Point

\* What a message makes a socket know stays a set of names.
LEMMA SentType ==
  ASSUME NEW known \in [Sockets -> SUBSET Names], NEW entries, NEW m,
         m \in [type : {"room_state", "peer_joined", "peer_left"}, names : SUBSET Names]
  PROVE  Sent(known, entries, m) \in [Sockets -> SUBSET Names]
BY DEF Sent, Hear

\* The outgoing messages carry names.
LEMMA MessageTypes ==
  ASSUME NEW names \in SUBSET Names, NEW n \in Names
  PROVE  /\ RoomState(names) \in [type : {"room_state", "peer_joined", "peer_left"}, names : SUBSET Names]
         /\ PeerJoined(n) \in [type : {"room_state", "peer_joined", "peer_left"}, names : SUBSET Names]
         /\ PeerLeft(n) \in [type : {"room_state", "peer_joined", "peer_left"}, names : SUBSET Names]
BY DEF RoomState, PeerJoined, PeerLeft

\* The seat of a seated socket has a room and a name.
LEMMA SeatType ==
  ASSUME RoomTypeOK, NEW s \in Sockets, Seated(s)
  PROVE  clients[s] \in Seat /\ clients[s].room \in Rooms /\ clients[s].name \in Names
BY DEF RoomTypeOK, Seated, Seat

\* Leaving keeps the registry and the members' knowledge well typed.
LEMMA LeaveTypes ==
  ASSUME RoomTypeOK, NEW s \in Sockets
  PROVE  /\ RoomsWithout(s) \in [Rooms -> SUBSET Entry]
         /\ LeaveMail(s) \in [Sockets -> SUBSET Names]
         /\ Others(s) \in SUBSET Entry
<1>1. RoomsWithout(s) \in [Rooms -> SUBSET Entry]
  BY SeatType DEF RoomsWithout, RoomTypeOK
<1>2. Others(s) \in SUBSET Entry
  BY SeatType DEF Others, RoomTypeOK
<1>3. LeaveMail(s) \in [Sockets -> SUBSET Names]
  <2>1. CASE Seated(s)
    <3>1. Sent(told, Others(s), PeerLeft(clients[s].name)) \in [Sockets -> SUBSET Names]
      BY <2>1, SeatType, SentType, MessageTypes DEF RoomTypeOK
    <3>2. QED
      BY <2>1, <3>1 DEF LeaveMail
  <2>2. CASE ~Seated(s)
    BY <2>2 DEF LeaveMail, RoomTypeOK
  <2>3. QED
    BY <2>1, <2>2
<1>4. QED
  BY <1>1, <1>2, <1>3

\* Forgetting a room's stamps keeps them well typed.
LEMMA ForgetTypes ==
  ASSUME RoomTypeOK, NEW gone, ForgetStamps(gone)
  PROVE  /\ roomResetMs' \in [Rooms -> Int]
         /\ senderResetMs' \in [Rooms -> [Names -> Int]]
         /\ vacated' \in [Rooms -> SUBSET Names]
<1>1. Never \in Int
  BY RoomAssumption DEF Never
<1>2. QED
  BY <1>1 DEF ForgetStamps, RoomTypeOK

\* The initial registry is well typed.
LEMMA RoomInitType == Init => RoomTypeOK
<1>1. Never \in Int
  BY RoomAssumption DEF Never
<1>2. QED
  BY <1>1, BlankType DEF Init, RoomTypeOK

\* What a joiner takes over is a well-formed record.
LEMMA TakenOverType ==
  ASSUME RoomTypeOK, NEW s \in Sockets, NEW seat \in Seat,
         NEW team \in Teams \cup {NoTeam}, NEW on \in ConsentChoices
  PROVE  TakenOver(s, seat, team, on) \in Info
<1>1. Displaced(s, seat) \subseteq Sockets
  BY LeaveTypes DEF Displaced, Duplicates, Entry, Seat
<1>2. Displaced(s, seat) # {} => (CHOOSE w \in Displaced(s, seat) : TRUE) \in Sockets
  BY <1>1
<1>3. on \in BOOLEAN
  BY RoomAssumption
<1>4. QED
  BY <1>2, <1>3, BlankType DEF TakenOver, Declared, Info, RoomTypeOK

\* Taking a seat keeps the registry well typed.
LEMMA TakeSeatType ==
  ASSUME RoomTypeOK, NEW s \in Sockets, NEW seat \in Seat,
         NEW team \in Teams \cup {NoTeam}, NEW on \in ConsentChoices,
         TakeSeat(s, seat, team, on)
  PROVE  RoomTypeOK'
<1>1. seat.room \in Rooms /\ seat.name \in Names /\ on \in BOOLEAN
  BY RoomAssumption DEF Seat
<1>2. Staying(s, seat) \in SUBSET Entry /\ NamesOf(Staying(s, seat)) \in SUBSET Names
  BY <1>1, LeaveTypes DEF Staying, NamesOf, Entry
<1>3. rooms' \in [Rooms -> SUBSET Entry]
  BY <1>1, <1>2, LeaveTypes DEF TakeSeat, Entry
<1>4. clients' \in [Sockets -> Seat \cup {NoSeat}]
  BY DEF TakeSeat, RoomTypeOK
<1>5. info' \in [Sockets -> Info]
  BY TakenOverType, BlankType DEF TakeSeat, RoomTypeOK
<1>6. said' \in [Sockets -> BOOLEAN]
  BY <1>1 DEF TakeSeat, RoomTypeOK
<1>7. JoinMail(s, seat) \in [Sockets -> SUBSET Names]
  <2> DEFINE welcomed == Sent(LeaveMail(s), {[name |-> seat.name, ws |-> s]},
                              RoomState(NamesOf(Staying(s, seat))))
  <2>1. welcomed \in [Sockets -> SUBSET Names]
    BY <1>1, <1>2, LeaveTypes, SentType, MessageTypes
  <2> HIDE DEF welcomed
  <2>2. Sent(welcomed, Staying(s, seat), PeerJoined(seat.name)) \in [Sockets -> SUBSET Names]
    BY <1>1, <2>1, SentType, MessageTypes
  <2>3. QED
    BY <2>2 DEF JoinMail, welcomed
<1>8. told' \in [Sockets -> SUBSET Names]
  BY <1>7 DEF TakeSeat, Deliver
<1>9. /\ roomResetMs' \in [Rooms -> Int]
      /\ senderResetMs' \in [Rooms -> [Names -> Int]]
      /\ vacated' \in [Rooms -> SUBSET Names]
  BY ForgetTypes DEF TakeSeat
<1>10. now' \in Nat /\ relayed' \in [Rooms -> [Names -> Int]]
  BY DEF TakeSeat, RoomTypeOK
<1>11. QED
  BY <1>3, <1>4, <1>5, <1>6, <1>8, <1>9, <1>10 DEF RoomTypeOK

\* Updates of an entry's record keep it well formed.
LEMMA InfoUpdates ==
  ASSUME NEW i \in Info, NEW team \in Teams \cup {NoTeam}, NEW on \in BOOLEAN,
         NEW p \in Points, NEW q \in Points, NEW l \in Points
  PROVE  /\ Declared(i, team, on) \in Info
         /\ [i EXCEPT !.position = p, !.lastSeen = l, !.camera = q] \in Info
         /\ [i EXCEPT !.lastSeen = l, !.position = p, !.camera = q] \in Info
BY DEF Info, Declared

\* Refreshing a seat keeps the registry well typed.
LEMMA RepeatJoinType ==
  ASSUME RoomTypeOK, NEW s \in Sockets, NEW seat \in Seat,
         NEW team \in Teams \cup {NoTeam}, NEW on \in ConsentChoices,
         RepeatJoin(s, seat, team, on)
  PROVE  RoomTypeOK'
<1>1. on \in BOOLEAN /\ seat.name \in Names
  BY RoomAssumption DEF Seat
<1>2. NamesOf(Others(s)) \in SUBSET Names
  BY LeaveTypes DEF NamesOf, Entry
<1>3. Sent(told, {[name |-> seat.name, ws |-> s]}, RoomState(NamesOf(Others(s))))
        \in [Sockets -> SUBSET Names]
  BY <1>1, <1>2, SentType, MessageTypes DEF RoomTypeOK
<1>4. told' \in [Sockets -> SUBSET Names]
  BY <1>3 DEF RepeatJoin, Deliver
<1>5. Declared(info[s], team, on) \in Info
  <2>1. info[s] \in Info /\ NoPoint \in Points
    BY DEF RoomTypeOK, Points
  <2>2. QED
    BY <1>1, <2>1, InfoUpdates
<1>6. info' \in [Sockets -> Info] /\ said' \in [Sockets -> BOOLEAN]
  <2>1. info' = [info EXCEPT ![s] = Declared(info[s], team, on)]
        /\ said' = [said EXCEPT ![s] = on]
    BY DEF RepeatJoin
  <2>2. QED
    BY <1>1, <1>5, <2>1 DEF RoomTypeOK
<1>7. QED
  BY <1>4, <1>6 DEF RepeatJoin, RoomTypeOK, stampVars

\* Closing keeps the registry well typed.
LEMMA CloseType ==
  ASSUME RoomTypeOK, NEW s \in Sockets, Close(s)
  PROVE  RoomTypeOK'
<1>1. rooms' \in [Rooms -> SUBSET Entry] /\ told' \in [Sockets -> SUBSET Names]
  BY LeaveTypes DEF Close, Deliver
<1>2. /\ roomResetMs' \in [Rooms -> Int]
      /\ senderResetMs' \in [Rooms -> [Names -> Int]]
      /\ vacated' \in [Rooms -> SUBSET Names]
  BY ForgetTypes DEF Close
<1>3. info' \in [Sockets -> Info] /\ said' \in [Sockets -> BOOLEAN]
      /\ clients' \in [Sockets -> Seat \cup {NoSeat}]
  BY BlankType DEF Close, RoomTypeOK
<1>4. QED
  BY <1>1, <1>2, <1>3 DEF Close, RoomTypeOK

\* Every step keeps the registry well typed.
LEMMA RoomTypeStep == RoomTypeOK /\ [Next]_vars => RoomTypeOK'
<1> SUFFICES ASSUME RoomTypeOK, [Next]_vars PROVE RoomTypeOK'
  OBVIOUS
<1>1. CASE Tick
  BY <1>1 DEF Tick, RoomTypeOK, stampVars, roomHistory
<1>2. CASE Transport
  BY <1>2 DEF Transport, RoomTypeOK, roomVars
<1>3. ASSUME NEW s \in Sockets, Join(s) PROVE RoomTypeOK'
  BY <1>3, RepeatJoinType, TakeSeatType DEF Join
<1>4. ASSUME NEW s \in Sockets, Coords(s) PROVE RoomTypeOK'
  <2>1. ASSUME NEW at \in Places, NEW camera \in Places \cup {NoPoint},
               ReportCoords(s, at, camera)
        PROVE  RoomTypeOK'
    <3>1. Stamped(at, now) \in Points /\ Stamped(camera, now) \in Points /\ NoPoint \in Points
      BY StampedType DEF RoomTypeOK, Points
    <3>2. [info[s] EXCEPT !.position = Stamped(at, now), !.lastSeen = NoPoint,
                          !.camera = Stamped(camera, now)] \in Info
      <4> DEFINE p == Stamped(at, now)
      <4> DEFINE q == Stamped(camera, now)
      <4>1. info[s] \in Info /\ NoTeam \in Teams \cup {NoTeam} /\ TRUE \in BOOLEAN
        BY DEF RoomTypeOK
      <4>2. p \in Points /\ q \in Points /\ NoPoint \in Points
        BY <3>1
      <4> HIDE DEF p, q
      <4>3. [info[s] EXCEPT !.position = p, !.lastSeen = NoPoint, !.camera = q] \in Info
        BY <4>1, <4>2, InfoUpdates
      <4>4. QED
        BY <4>3 DEF p, q
    <3>3. info' \in [Sockets -> Info]
      BY <2>1, <3>2 DEF ReportCoords, RoomTypeOK
    <3>4. QED
      BY <2>1, <3>3 DEF ReportCoords, RoomTypeOK, stampVars, roomHistory
  <2>2. ASSUME NEW seen \in Places \cup {NoPoint}, NEW ago \in Int, DisownCoords(s, seen, ago)
        PROVE  RoomTypeOK'
    <3>1. now - (IF ago < AnchorMs THEN ago ELSE AnchorMs) \in Int
      BY RoomAssumption DEF RoomTypeOK
    <3>2. Stamped(seen, now - (IF ago < AnchorMs THEN ago ELSE AnchorMs)) \in Points
          /\ NoPoint \in Points
      BY <3>1, StampedType DEF Points
    <3>3. [info[s] EXCEPT
             !.lastSeen = Stamped(seen, now - (IF ago < AnchorMs THEN ago ELSE AnchorMs)),
             !.position = NoPoint, !.camera = NoPoint] \in Info
      <4> DEFINE l == Stamped(seen, now - (IF ago < AnchorMs THEN ago ELSE AnchorMs))
      <4>1. info[s] \in Info /\ NoTeam \in Teams \cup {NoTeam} /\ TRUE \in BOOLEAN
        BY DEF RoomTypeOK
      <4>2. l \in Points
        BY <3>2
      <4> HIDE DEF l
      <4>3. [info[s] EXCEPT !.lastSeen = l, !.position = NoPoint, !.camera = NoPoint] \in Info
        BY <3>2, <4>1, <4>2, InfoUpdates
      <4>4. QED
        BY <4>3 DEF l
    <3>4. info' \in [Sockets -> Info]
      BY <2>2, <3>3 DEF DisownCoords, RoomTypeOK
    <3>5. QED
      BY <2>2, <3>4 DEF DisownCoords, RoomTypeOK, stampVars, roomHistory
  <2>3. QED
    BY <1>4, <2>1, <2>2, RoomAssumption DEF Coords
<1>5. ASSUME NEW s \in Sockets, Reset(s) PROVE RoomTypeOK'
  <2>1. CASE RelayReset(s)
    <3>1. clients[s].room \in Rooms /\ clients[s].name \in Names
      BY <2>1, SeatType DEF RelayReset
    <3>2. QED
      BY <2>1, <3>1 DEF RelayReset, RoomTypeOK
  <2>2. ASSUME NEW on \in ConsentChoices, SetSharedReset(s, on) PROVE RoomTypeOK'
    <3>1. on \in BOOLEAN
      BY RoomAssumption
    <3>2. info' \in [Sockets -> Info] /\ said' \in [Sockets -> BOOLEAN]
      BY <2>2, <3>1 DEF SetSharedReset, RoomTypeOK, Info
    <3>3. QED
      BY <2>2, <3>2 DEF SetSharedReset, RoomTypeOK, stampVars
  <2>3. QED
    BY <1>5, <2>1, <2>2 DEF Reset
<1>6. ASSUME NEW s \in Sockets, Close(s) PROVE RoomTypeOK'
  BY <1>6, CloseType
<1>7. CASE UNCHANGED vars
  BY <1>7 DEF vars, roomVars, RoomTypeOK
<1>8. QED
  BY <1>1, <1>2, <1>3, <1>4, <1>5, <1>6, <1>7 DEF Next

-----------------------------------------------------------------------------
(* The registry.                                                           *)

Registry == UniqueNames /\ RegistryAgrees /\ SeatsAreLive

\* What leave() does to the room lists.
LEMMA LeaveEntries ==
  ASSUME RoomTypeOK, Registry, NEW s \in Sockets, NEW r \in Rooms
  PROVE  RoomsWithout(s)[r] = {e \in rooms[r] : e.ws # s}
<1>1. ASSUME NEW e \in rooms[r]
      PROVE  /\ e = [name |-> e.name, ws |-> e.ws]
             /\ clients[e.ws] = [room |-> r, name |-> e.name]
             /\ Seated(e.ws)
  BY RoomAssumption DEF RoomTypeOK, Registry, RegistryAgrees, Entry, Seated
<1>2. CASE ~Seated(s)
  BY <1>1, <1>2 DEF RoomsWithout
<1>3. CASE Seated(s)
  <2>1. RoomsWithout(s)[r] = IF r = clients[s].room
                             THEN rooms[r] \ {[name |-> clients[s].name, ws |-> s]} ELSE rooms[r]
    BY <1>3, SeatType DEF RoomsWithout, RoomTypeOK
  <2>2. ASSUME NEW e \in rooms[r], e.ws = s
        PROVE  r = clients[s].room /\ e = [name |-> clients[s].name, ws |-> s]
    <3>1. clients[s] = [room |-> r, name |-> e.name] /\ e = [name |-> e.name, ws |-> s]
      BY <1>1, <2>2
    <3>2. QED
      BY <3>1
  <2>3. QED
    BY <2>1, <2>2
<1>4. QED
  BY <1>2, <1>3

\* Taking a seat: who is in which room afterwards.
LEMMA TakeSeatEntries ==
  ASSUME RoomTypeOK, Registry, NEW s \in Sockets, NEW seat \in Seat,
         NEW team \in Teams \cup {NoTeam}, NEW on \in ConsentChoices,
         TakeSeat(s, seat, team, on), NEW r \in Rooms
  PROVE  /\ Displaced(s, seat) \subseteq Sockets \ {s}
         /\ \A w \in Displaced(s, seat) : clients[w] = seat
         /\ \A w \in Sockets \ {s} : clients[w] = seat => w \in Displaced(s, seat)
         /\ rooms'[r] = IF r = seat.room
                        THEN {e \in rooms[r] : e.ws # s /\ e.name # seat.name}
                               \cup {[name |-> seat.name, ws |-> s]}
                        ELSE {e \in rooms[r] : e.ws # s}
<1>1. seat.room \in Rooms /\ seat.name \in Names /\ seat = [room |-> seat.room, name |-> seat.name]
  BY DEF Seat
<1>2. RoomsWithout(s)[seat.room] = {e \in rooms[seat.room] : e.ws # s}
  BY <1>1, LeaveEntries
<1>3. Duplicates(s, seat) = {e \in rooms[seat.room] : e.ws # s /\ e.name = seat.name}
  BY <1>2 DEF Duplicates
<1>4. ASSUME NEW w \in Displaced(s, seat)
      PROVE  w \in Sockets \ {s} /\ clients[w] = seat
  <2>1. PICK e \in Duplicates(s, seat) : w = e.ws
    BY DEF Displaced
  <2>2. e = [name |-> seat.name, ws |-> w] /\ w \in Sockets /\ w # s
    BY <1>1, <1>3, <2>1 DEF RoomTypeOK, Entry
  <2>3. QED
    BY <1>1, <1>3, <2>1, <2>2 DEF Registry, RegistryAgrees
<1>5. ASSUME NEW w \in Sockets \ {s}, clients[w] = seat PROVE w \in Displaced(s, seat)
  <2>1. [name |-> seat.name, ws |-> w] \in rooms[seat.room]
    BY <1>1, <1>5 DEF Registry, RegistryAgrees
  <2>2. QED
    BY <1>3, <2>1 DEF Displaced
<1>6. rooms'[r] = IF r = seat.room THEN Staying(s, seat) \cup {[name |-> seat.name, ws |-> s]}
                                  ELSE RoomsWithout(s)[r]
  BY <1>1, LeaveTypes DEF TakeSeat
<1>7. Staying(s, seat) = {e \in rooms[seat.room] : e.ws # s /\ e.name # seat.name}
  BY <1>2, <1>3 DEF Staying
<1>8. QED
  BY <1>4, <1>5, <1>6, <1>7, LeaveEntries

\* A join keeps one entry per name, the two maps in agreement, and every seat on
\* a live connection.
LEMMA TakeSeatRegistry ==
  ASSUME TypeOK, Registry, NEW s \in Sockets, NEW seat \in Seat,
         NEW team \in Teams \cup {NoTeam}, NEW on \in ConsentChoices,
         TakeSeat(s, seat, team, on)
  PROVE  Registry'
<1> USE DEF TypeOK
<1> DEFINE gone == Displaced(s, seat)
<1>1. /\ gone \subseteq Sockets \ {s}
      /\ \A w \in Sockets : w \in gone => clients[w] = seat
      /\ \A w \in Sockets \ {s} : clients[w] = seat => w \in gone
  BY TakeSeatEntries DEF Seat
<1>2. \A w \in Sockets : clients'[w] = IF w = s THEN seat
                                        ELSE IF w \in gone THEN NoSeat ELSE clients[w]
  BY DEF TakeSeat
<1> DEFINE mine == [name |-> seat.name, ws |-> s]
<1>3. ASSUME NEW r \in Rooms, NEW x
      PROVE  x \in rooms'[r] <=> \/ r = seat.room /\ x = mine
                                \/ /\ x \in rooms[r] /\ x.ws # s
                                   /\ r = seat.room => x.name # seat.name
  <2>1. rooms'[r] = IF r = seat.room
                    THEN {e \in rooms[r] : e.ws # s /\ e.name # seat.name} \cup {mine}
                    ELSE {e \in rooms[r] : e.ws # s}
    BY TakeSeatEntries
  <2> HIDE DEF mine
  <2>2. CASE r = seat.room
    BY <2>1, <2>2
  <2>3. CASE r # seat.room
    BY <2>1, <2>3
  <2>4. QED
    BY <2>2, <2>3
<1>4. mine.name = seat.name /\ mine.ws = s
  OBVIOUS
<1> HIDE DEF gone, mine
<1>5. UniqueNames'
  <2> SUFFICES ASSUME NEW r \in Rooms, NEW e \in rooms'[r], NEW f \in rooms'[r], e.name = f.name
               PROVE  e = f
    BY DEF UniqueNames
  <2>1. \A x, y \in rooms[r] : x.name = y.name => x = y
    BY DEF Registry, UniqueNames
  <2>2. QED
    BY <1>3, <1>4, <2>1
<1>6. RegistryAgrees'
  <2> SUFFICES ASSUME NEW r \in Rooms, NEW n \in Names, NEW w \in Sockets
               PROVE  [name |-> n, ws |-> w] \in rooms'[r]
                        <=> clients'[w] = [room |-> r, name |-> n]
    BY DEF RegistryAgrees
  <2>1. seat = [room |-> seat.room, name |-> seat.name] /\ seat.name \in Names
    BY DEF Seat
  <2>2. [name |-> n, ws |-> w] \in rooms[r] <=> clients[w] = [room |-> r, name |-> n]
    BY DEF Registry, RegistryAgrees
  <2>3. [name |-> n, ws |-> w] \in rooms'[r]
          <=> \/ w = s /\ r = seat.room /\ n = seat.name
              \/ w # s /\ [name |-> n, ws |-> w] \in rooms[r] /\ ~(r = seat.room /\ n = seat.name)
    <3> DEFINE e == [name |-> n, ws |-> w]
    <3>1. e.name = n /\ e.ws = w
      OBVIOUS
    <3>2. e = mine <=> n = seat.name /\ w = s
      BY DEF mine
    <3> HIDE DEF e
    <3>3. e \in rooms'[r] <=> \/ w = s /\ r = seat.room /\ n = seat.name
                              \/ w # s /\ e \in rooms[r] /\ ~(r = seat.room /\ n = seat.name)
      BY <1>3, <3>1, <3>2
    <3>4. QED
      BY <3>3 DEF e
  <2>4. NoSeat # [room |-> r, name |-> n]
    BY RoomAssumption
  <2>5. CASE w = s
    BY <1>2, <2>1, <2>3, <2>5
  <2>6. CASE w # s
    BY <1>1, <1>2, <2>1, <2>2, <2>3, <2>4, <2>6
  <2>7. QED
    BY <2>5, <2>6
<1>7. SeatsAreLive'
  <2>1. s \in admitted /\ Live(s) /\ admitted' = admitted
    BY DEF TakeSeat, Inbound, CanReceive
  <2>2. \A w \in Sockets : Live(w) => Live(w)'
    BY DEF TakeSeat, BeginEvict, Live, ConnTypeOK
  <2>3. QED
    BY <1>2, <2>1, <2>2 DEF Registry, SeatsAreLive, Seated
<1>8. QED
  BY <1>5, <1>6, <1>7 DEF Registry

\* A step that moves nobody and lets no connection end keeps the registry.
LEMMA RegistryUntouched ==
  ASSUME Registry, UNCHANGED <<rooms, clients>>,
         \A s \in Sockets : s \in admitted /\ Live(s) => s \in admitted' /\ Live(s)'
  PROVE  Registry'
BY DEF Registry, UniqueNames, RegistryAgrees, SeatsAreLive, Seated

\* A close takes its entry out of both maps.
LEMMA CloseRegistry ==
  ASSUME TypeOK, Registry, NEW s \in Sockets, Close(s)
  PROVE  Registry'
<1> USE DEF TypeOK
<1>1. ASSUME NEW r \in Rooms, NEW x
      PROVE  x \in rooms'[r] <=> x \in rooms[r] /\ x.ws # s
  BY LeaveEntries DEF Close
<1>2. \A w \in Sockets : clients'[w] = IF w = s THEN NoSeat ELSE clients[w]
  BY DEF Close, RoomTypeOK
<1>3. UniqueNames'
  BY <1>1 DEF Registry, UniqueNames
<1>4. RegistryAgrees'
  <2> SUFFICES ASSUME NEW r \in Rooms, NEW n \in Names, NEW w \in Sockets
               PROVE  [name |-> n, ws |-> w] \in rooms'[r]
                        <=> clients'[w] = [room |-> r, name |-> n]
    BY DEF RegistryAgrees
  <2>1. [name |-> n, ws |-> w] \in rooms'[r] <=> [name |-> n, ws |-> w] \in rooms[r] /\ w # s
    BY <1>1
  <2>2. NoSeat # [room |-> r, name |-> n]
    BY RoomAssumption
  <2>3. QED
    BY <1>2, <2>1, <2>2 DEF Registry, RegistryAgrees
<1>5. SeatsAreLive'
  BY <1>2 DEF Registry, SeatsAreLive, Seated, Close, CloseEvent, Live, ConnTypeOK
<1>6. QED
  BY <1>3, <1>4, <1>5 DEF Registry

\* Every step keeps the registry.
LEMMA RegistryStep == TypeOK /\ Registry /\ [Next]_vars => Registry'
<1> SUFFICES ASSUME TypeOK, Registry, [Next]_vars PROVE Registry'
  OBVIOUS
<1> USE DEF TypeOK
<1>1. CASE Tick
  BY <1>1, RegistryUntouched DEF Tick, connVars, Live
<1>2. CASE Transport
  <2> SUFFICES \A s \in Sockets : s \in admitted /\ Live(s) => s \in admitted' /\ Live(s)'
    BY <1>2, RegistryUntouched DEF Transport, roomVars
  <2>1. CASE Sweep
    BY <2>1 DEF Sweep, SilentSockets, Live, ConnTypeOK
  <2>2. ASSUME NEW s \in Sockets,
               \/ Admit(s) \/ Reject(s) \/ SignOfLife(s)
               \/ EvictTimeout(s) \/ ClientCloses(s) \/ CloseTimeout(s) \/ Vanish(s)
        PROVE  \A w \in Sockets : w \in admitted /\ Live(w) => w \in admitted' /\ Live(w)'
    BY <2>2 DEF Admit, Reject, SignOfLife, Inbound, EvictTimeout, ClientCloses, CloseTimeout,
               Vanish, Live, ConnTypeOK
  <2>3. QED
    BY <1>2, <2>1, <2>2 DEF Transport
<1>3. ASSUME NEW s \in Sockets, Join(s) PROVE Registry'
  <2>1. ASSUME NEW seat \in Seat, NEW team \in Teams \cup {NoTeam}, NEW on \in ConsentChoices,
               RepeatJoin(s, seat, team, on)
        PROVE  Registry'
    BY <2>1, RegistryUntouched DEF RepeatJoin, Inbound, Live
  <2>2. QED
    BY <1>3, <2>1, TakeSeatRegistry DEF Join
<1>4. ASSUME NEW s \in Sockets, Coords(s) PROVE Registry'
  <2>1. UNCHANGED <<rooms, clients, ready, admitted>>
    BY <1>4 DEF Coords, ReportCoords, DisownCoords, Inbound
  <2>2. QED
    BY <2>1, RegistryUntouched DEF Live
<1>5. ASSUME NEW s \in Sockets, Reset(s) PROVE Registry'
  <2>1. UNCHANGED <<rooms, clients, ready, admitted>>
    BY <1>5 DEF Reset, RelayReset, SetSharedReset, Inbound
  <2>2. QED
    BY <2>1, RegistryUntouched DEF Live
<1>6. ASSUME NEW s \in Sockets, Close(s) PROVE Registry'
  BY <1>6, CloseRegistry
<1>7. CASE UNCHANGED vars
  BY <1>7, RegistryUntouched DEF vars, roomVars, connVars, Live
<1>8. QED
  BY <1>1, <1>2, <1>3, <1>4, <1>5, <1>6, <1>7 DEF Next

-----------------------------------------------------------------------------
(* The rooms use the connection layer as it is meant to be used.           *)

\* Every step of the server is a step of the connection layer, or leaves it alone.
LEMMA ConnRefinementStep == TypeOK /\ Registry /\ [Next]_vars => [ConnNext]_connVars
<1> SUFFICES ASSUME TypeOK, Registry, [Next]_vars PROVE [ConnNext]_connVars
  OBVIOUS
<1>1. CASE Tick
  BY <1>1 DEF Tick
<1>2. CASE Transport
  BY <1>2 DEF Transport, ConnNext
<1>3. ASSUME NEW s \in Sockets, Join(s) PROVE ConnNext
  <2>1. ASSUME NEW seat \in Seat, NEW team \in Teams \cup {NoTeam}, NEW on \in ConsentChoices,
               RepeatJoin(s, seat, team, on)
        PROVE  SignOfLife(s)
    BY <2>1 DEF RepeatJoin, SignOfLife
  <2>2. ASSUME NEW seat \in Seat, NEW team \in Teams \cup {NoTeam}, NEW on \in ConsentChoices,
               TakeSeat(s, seat, team, on)
        PROVE  Takeover(s, Displaced(s, seat)) /\ Displaced(s, seat) \in SUBSET Sockets
    <3>1. /\ Displaced(s, seat) \subseteq Sockets \ {s}
          /\ \A w \in Displaced(s, seat) : clients[w] = seat
      BY <2>2, TakeSeatEntries DEF TypeOK, Seat
    <3>2. seat # NoSeat
      BY RoomAssumption DEF Seat
    <3>3. \A w \in Displaced(s, seat) : w \in admitted /\ Live(w)
      BY <3>1, <3>2 DEF Registry, SeatsAreLive, Seated
    <3>4. QED
      BY <2>2, <3>1, <3>3 DEF TakeSeat, Takeover
  <2>3. QED
    BY <1>3, <2>1, <2>2 DEF Join, ConnNext
<1>4. ASSUME NEW s \in Sockets, Coords(s) PROVE ConnNext
  BY <1>4 DEF Coords, ReportCoords, DisownCoords, SignOfLife, ConnNext
<1>5. ASSUME NEW s \in Sockets, Reset(s) PROVE ConnNext
  BY <1>5 DEF Reset, RelayReset, SetSharedReset, SignOfLife, ConnNext
<1>6. ASSUME NEW s \in Sockets, Close(s) PROVE ConnNext
  BY <1>6 DEF Close, ConnNext
<1>7. CASE UNCHANGED vars
  BY <1>7 DEF vars
<1>8. QED
  BY <1>1, <1>2, <1>3, <1>4, <1>5, <1>6, <1>7 DEF Next

RoomInv == TypeOK /\ Registry

\* The initial registry is empty.
LEMMA RoomInitInv == Init => RoomInv
<1> SUFFICES ASSUME Init PROVE RoomInv
  OBVIOUS
<1>1. TypeOK
  BY ConnInitInv, RoomInitType DEF Init, ConnInv, TypeOK
<1>2. UniqueNames /\ SeatsAreLive
  BY DEF Init, UniqueNames, SeatsAreLive, Seated
<1>3. RegistryAgrees
  BY RoomAssumption DEF Init, RegistryAgrees
<1>4. QED
  BY <1>1, <1>2, <1>3 DEF RoomInv, Registry

\* The inductive invariant of the rooms.
THEOREM RoomInvariant == Spec => []RoomInv
<1>1. Init => RoomInv
  BY RoomInitInv
<1>2. RoomInv /\ [Next]_vars => RoomInv'
  <2> SUFFICES ASSUME RoomInv, [Next]_vars PROVE RoomInv'
    OBVIOUS
  <2>1. Registry'
    BY RegistryStep DEF RoomInv
  <2>2. ConnTypeOK'
    BY ConnRefinementStep, ConnTypeStep DEF RoomInv, TypeOK
  <2>3. RoomTypeOK'
    BY RoomTypeStep DEF RoomInv, TypeOK
  <2>4. QED
    BY <2>1, <2>2, <2>3 DEF RoomInv, TypeOK
<1>3. QED
  BY <1>1, <1>2, PTL DEF Spec

\* Every variable of the server stays in its type.
THEOREM TypeCorrect == Spec => []TypeOK
<1>1. RoomInv => TypeOK
  BY DEF RoomInv
<1>2. QED
  BY <1>1, RoomInvariant, PTL

\* RoomManager.join: at most one entry per name and room, whatever the order of
\* joins, moves, takeovers and closes.
THEOREM NamesAreUnique == Spec => []UniqueNames
<1>1. RoomInv => UniqueNames
  BY DEF RoomInv, Registry
<1>2. QED
  BY <1>1, RoomInvariant, PTL

\* RoomManager: the room lists and the socket map never drift apart.
THEOREM RegistryStaysInAgreement == Spec => []RegistryAgrees
<1>1. RoomInv => RegistryAgrees
  BY DEF RoomInv, Registry
<1>2. QED
  BY <1>1, RoomInvariant, PTL

\* ws 'close' -> leave: no seat outlives its connection.
THEOREM SeatsStayLive == Spec => []SeatsAreLive
<1>1. RoomInv => SeatsAreLive
  BY DEF RoomInv, Registry
<1>2. QED
  BY <1>1, RoomInvariant, PTL

\* The registry is one and live, whatever the players' connections do.
THEOREM SeatingHolds == Spec => []Seating
<1>1. TypeOK /\ UniqueNames /\ RegistryAgrees /\ SeatsAreLive => Seating
  BY DEF Seating
<1>2. QED
  BY <1>1, TypeCorrect, NamesAreUnique, RegistryStaysInAgreement, SeatsStayLive, PTL

\* The rooms implement the connection layer: what holds of every behaviour of
\* Connections holds of the server.
THEOREM RoomsImplementConnections == Spec => ConnSpec
<1>1. Init => ConnInit
  BY DEF Init
<1>2. RoomInv /\ [Next]_vars => [ConnNext]_connVars
  BY ConnRefinementStep DEF RoomInv
<1>3. QED
  BY <1>1, <1>2, RoomInvariant, PTL DEF Spec, ConnSpec

\* Hence the per-address cap holds of the whole server, takeovers included.
THEOREM ServerSlotsBalanced == Spec => []SlotsBalanced
BY RoomsImplementConnections, SlotsAlwaysBalanced, PTL

\* And silence is noticed in the whole server.
THEOREM ServerNoticesSilence == Spec => []SilenceIsNoticed
BY RoomsImplementConnections, SilenceAlwaysNoticed, PTL

-----------------------------------------------------------------------------
(* What the members of a room are told, what consent they have given and    *)
(* which places the server holds for them.                                  *)

\* The entries of r other than those of the sockets s and w.
Without(r, s, w) == {e \in rooms[r] : e.ws # s /\ e.ws # w}

\* A seated socket has its own entry in its room, and nobody else's name.
LEMMA OwnEntry ==
  ASSUME TypeOK, Registry, NEW w \in Sockets, Seated(w)
  PROVE  /\ clients[w].room \in Rooms /\ clients[w].name \in Names
         /\ [name |-> clients[w].name, ws |-> w] \in rooms[clients[w].room]
         /\ clients[w] = [room |-> clients[w].room, name |-> clients[w].name]
<1>1. clients[w] \in Seat
  BY SeatType DEF TypeOK
<1>2. clients[w].room \in Rooms /\ clients[w].name \in Names
      /\ clients[w] = [room |-> clients[w].room, name |-> clients[w].name]
  BY <1>1 DEF Seat
<1>3. QED
  BY <1>2 DEF Registry, RegistryAgrees

\* What an entry of a room says of its socket.
LEMMA EntrySeat ==
  ASSUME TypeOK, Registry, NEW r \in Rooms, NEW e \in rooms[r]
  PROVE  /\ e.ws \in Sockets /\ e.name \in Names /\ Seated(e.ws)
         /\ clients[e.ws] = [room |-> r, name |-> e.name]
<1>1. e = [name |-> e.name, ws |-> e.ws] /\ e.ws \in Sockets /\ e.name \in Names
  BY DEF TypeOK, RoomTypeOK, Entry
<1>2. clients[e.ws] = [room |-> r, name |-> e.name]
  BY <1>1 DEF Registry, RegistryAgrees
<1>3. QED
  BY <1>1, <1>2, RoomAssumption DEF Seated

\* A member that stays behind when s leaves is told exactly that: what it then
\* believes is who is left.
LEMMA LeaveHeard ==
  ASSUME TypeOK, Registry, ViewsAgree, NEW s \in Sockets, NEW w \in Sockets \ {s},
         Seated(w), ready[w] = "open"
  PROVE  LeaveMail(s)[w] = NamesOf(Without(clients[w].room, s, w))
<1> DEFINE r == clients[w].room
<1>1. r \in Rooms /\ [name |-> clients[w].name, ws |-> w] \in rooms[r]
  BY OwnEntry
<1>2. told[w] = NamesOf({e \in rooms[r] : e.ws # w})
  BY DEF ViewsAgree, Others
<1> HIDE DEF r
<1>3. CASE Seated(s) /\ clients[s].room = r
  <2> DEFINE mine == [name |-> clients[s].name, ws |-> s]
  <2>1. mine \in rooms[r] /\ mine.ws = s /\ mine.name = clients[s].name
    BY <1>3, OwnEntry
  <2>2. \E e \in Others(s) : e.ws = w
    BY <1>1, <1>3 DEF Others
  <2>3. LeaveMail(s)[w] = told[w] \ {clients[s].name}
    BY <1>3, <2>2 DEF LeaveMail, Sent, Hear, PeerLeft
  <2>4. \A e \in rooms[r] : e.name = clients[s].name => e.ws = s
    BY <1>1, <2>1 DEF Registry, UniqueNames
  <2>5. \A e \in rooms[r] : e.ws = s => e.name = clients[s].name
    <3> SUFFICES ASSUME NEW e \in rooms[r], e.ws = s PROVE e.name = clients[s].name
      OBVIOUS
    <3>1. clients[s] = [room |-> r, name |-> e.name]
      BY <1>1, EntrySeat
    <3>2. QED
      BY <3>1
  <2>6. QED
    BY <1>2, <2>3, <2>4, <2>5 DEF NamesOf, Without, r
<1>4. CASE ~(Seated(s) /\ clients[s].room = r)
  <2>1. \A e \in rooms[r] : e.ws # s
    <3> SUFFICES ASSUME NEW e \in rooms[r], e.ws = s PROVE FALSE
      OBVIOUS
    <3>1. Seated(s) /\ clients[s] = [room |-> r, name |-> e.name]
      BY <1>1, EntrySeat
    <3>2. QED
      BY <1>4, <3>1
  <2>2. \A e \in Others(s) : e.ws # w
    <3> SUFFICES ASSUME NEW e \in Others(s), e.ws = w PROVE FALSE
      OBVIOUS
    <3>1. Seated(s) /\ e \in rooms[clients[s].room]
      BY DEF Others
    <3>2. clients[w] = [room |-> clients[s].room, name |-> e.name]
      BY <3>1, OwnEntry, EntrySeat
    <3>3. QED
      BY <1>4, <3>1, <3>2 DEF r
  <2>3. LeaveMail(s)[w] = told[w]
    <3>1. CASE Seated(s)
      BY <2>2, <3>1 DEF LeaveMail, Sent
    <3>2. CASE ~Seated(s)
      BY <3>2 DEF LeaveMail
    <3>3. QED
      BY <3>1, <3>2
  <2>4. QED
    BY <1>2, <2>1, <2>3 DEF NamesOf, Without, r
<1>5. QED
  BY <1>3, <1>4

\* A close tells everyone who stays.
LEMMA CloseViews ==
  ASSUME TypeOK, Registry, ViewsAgree, NEW s \in Sockets, Close(s)
  PROVE  ViewsAgree'
<1> SUFFICES ASSUME NEW w \in Sockets, clients'[w] # NoSeat, ready'[w] = "open"
             PROVE  told'[w] = NamesOf({e \in rooms'[clients'[w].room] : e.ws # w})
  BY DEF ViewsAgree, Seated, Others
<1>1. w # s /\ clients'[w] = clients[w] /\ Seated(w) /\ ready[w] = "open"
  BY DEF Close, CloseEvent, Seated, TypeOK, RoomTypeOK, ConnTypeOK
<1>2. told'[w] = LeaveMail(s)[w]
  BY <1>1 DEF Close, Deliver
<1>3. clients[w].room \in Rooms
  BY <1>1, OwnEntry
<1>4. rooms'[clients[w].room] = {e \in rooms[clients[w].room] : e.ws # s}
  BY <1>3, LeaveEntries DEF Close, TypeOK
<1>5. {e \in rooms'[clients[w].room] : e.ws # w} = Without(clients[w].room, s, w)
  BY <1>4 DEF Without
<1>6. QED
  BY <1>1, <1>2, <1>5, LeaveHeard

\* Who is in which room after s took a seat.
LEMMA TakeSeatRooms ==
  ASSUME TypeOK, Registry, NEW s \in Sockets, NEW seat \in Seat,
         NEW team \in Teams \cup {NoTeam}, NEW on \in ConsentChoices,
         TakeSeat(s, seat, team, on)
  PROVE  /\ Staying(s, seat) = {e \in rooms[seat.room] : e.ws # s /\ e.name # seat.name}
         /\ rooms'[seat.room] = Staying(s, seat) \cup {[name |-> seat.name, ws |-> s]}
         /\ \A r \in Rooms : r # seat.room => rooms'[r] = {e \in rooms[r] : e.ws # s}
<1>1. seat.room \in Rooms
  BY DEF Seat
<1>2. RoomsWithout(s)[seat.room] = {e \in rooms[seat.room] : e.ws # s}
  BY <1>1, LeaveEntries DEF TypeOK
<1>3. Staying(s, seat) = {e \in rooms[seat.room] : e.ws # s /\ e.name # seat.name}
  BY <1>2 DEF Staying, Duplicates
<1>4. rooms'[seat.room] = Staying(s, seat) \cup {[name |-> seat.name, ws |-> s]}
  BY <1>1, LeaveTypes DEF TakeSeat, TypeOK
<1>5. ASSUME NEW r \in Rooms, r # seat.room PROVE rooms'[r] = {e \in rooms[r] : e.ws # s}
  <2>1. rooms'[r] = RoomsWithout(s)[r]
    BY <1>1, <1>5, LeaveTypes DEF TakeSeat, TypeOK
  <2>2. QED
    BY <2>1, LeaveEntries DEF TypeOK
<1>6. QED
  BY <1>3, <1>4, <1>5

\* The joiner is told who is in the room; whoever stays is told of the name that
\* came, and of the one that left.
LEMMA TakeSeatViews ==
  ASSUME TypeOK, Registry, ViewsAgree, NEW s \in Sockets, NEW seat \in Seat,
         NEW team \in Teams \cup {NoTeam}, NEW on \in ConsentChoices,
         TakeSeat(s, seat, team, on)
  PROVE  ViewsAgree'
<1> SUFFICES ASSUME NEW w \in Sockets, clients'[w] # NoSeat, ready'[w] = "open"
             PROVE  told'[w] = NamesOf({e \in rooms'[clients'[w].room] : e.ws # w})
  BY DEF ViewsAgree, Seated, Others
<1> DEFINE welcomed == Sent(LeaveMail(s), {[name |-> seat.name, ws |-> s]},
                            RoomState(NamesOf(Staying(s, seat))))
           mine == [name |-> seat.name, ws |-> s]
           stay == Staying(s, seat)
<1>1. seat.room \in Rooms /\ seat.name \in Names
  BY DEF Seat
<1>2. told'[w] = Sent(welcomed, stay, PeerJoined(seat.name))[w]
  BY DEF TakeSeat, Deliver, JoinMail
<1>3. ready[w] = "open"
  BY DEF TakeSeat, BeginEvict, TypeOK, ConnTypeOK, ReadyStates
<1>4. /\ stay = {e \in rooms[seat.room] : e.ws # s /\ e.name # seat.name}
      /\ rooms'[seat.room] = stay \cup {mine}
      /\ \A r \in Rooms : r # seat.room => rooms'[r] = {e \in rooms[r] : e.ws # s}
  BY TakeSeatRooms
<1>5. mine.ws = s /\ mine.name = seat.name
  OBVIOUS
<1>6. clients'[w] = IF w = s THEN seat ELSE IF w \in Displaced(s, seat) THEN NoSeat ELSE clients[w]
  BY DEF TakeSeat
<1>7. welcomed[w] = IF w = s THEN NamesOf(stay) ELSE LeaveMail(s)[w]
  BY <1>3 DEF Sent, Hear, RoomState
<1> HIDE DEF welcomed, mine, stay
<1>8. Sent(welcomed, stay, PeerJoined(seat.name))[w]
        = IF \E e \in stay : e.ws = w THEN welcomed[w] \cup {seat.name} ELSE welcomed[w]
  BY <1>3 DEF Sent, Hear, PeerJoined
<1>9. CASE w = s
  <2>1. told'[w] = NamesOf(stay)
    BY <1>2, <1>4, <1>7, <1>8, <1>9
  <2>2. {e \in rooms'[seat.room] : e.ws # w} = stay
    BY <1>4, <1>5, <1>9
  <2>3. QED
    BY <1>6, <1>9, <2>1, <2>2
<1>10. CASE w # s
  <2> DEFINE r == clients[w].room
  <2>1. clients'[w] = clients[w] /\ Seated(w) /\ w \notin Displaced(s, seat)
    BY <1>6, <1>10 DEF Seated
  <2>2. r \in Rooms /\ [name |-> clients[w].name, ws |-> w] \in rooms[r]
        /\ clients[w] = [room |-> r, name |-> clients[w].name]
    BY <2>1, OwnEntry
  <2>3. LeaveMail(s)[w] = NamesOf(Without(r, s, w))
    BY <1>3, <1>10, <2>1, LeaveHeard
  <2>4. told'[w] = IF \E e \in stay : e.ws = w THEN NamesOf(Without(r, s, w)) \cup {seat.name}
                                             ELSE NamesOf(Without(r, s, w))
    BY <1>2, <1>7, <1>8, <1>10, <2>3
  <2>5. clients[w] # seat
    <3>1. \A v \in Sockets \ {s} : clients[v] = seat => v \in Displaced(s, seat)
      BY <1>1, TakeSeatEntries DEF TypeOK
    <3>2. QED
      BY <1>10, <2>1, <3>1
  <2> HIDE DEF r
  <2>6. CASE r = seat.room
    <3>1. clients[w].name # seat.name
      BY <2>2, <2>5, <2>6 DEF Seat, r
    <3>2. \E e \in stay : e.ws = w
      BY <1>4, <1>10, <2>2, <2>6, <3>1
    <3>3. {e \in rooms'[r] : e.ws # w}
            = {e \in Without(r, s, w) : e.name # seat.name} \cup {mine}
      BY <1>4, <1>5, <1>10, <2>6 DEF Without
    <3>4. NamesOf({e \in rooms'[r] : e.ws # w}) = NamesOf(Without(r, s, w)) \cup {seat.name}
      BY <1>5, <3>3 DEF NamesOf
    <3>5. QED
      BY <2>1, <2>4, <3>2, <3>4 DEF r
  <2>7. CASE r # seat.room
    <3>1. \A e \in rooms[seat.room] : e.ws # w
      <4> SUFFICES ASSUME NEW e \in rooms[seat.room], e.ws = w PROVE FALSE
        OBVIOUS
      <4>1. clients[w] = [room |-> seat.room, name |-> e.name]
        BY <1>1, EntrySeat
      <4>2. QED
        BY <2>7, <4>1 DEF r
    <3>2. ~\E e \in stay : e.ws = w
      BY <1>4, <3>1
    <3>3. {e \in rooms'[r] : e.ws # w} = Without(r, s, w)
      BY <1>4, <2>2, <2>7 DEF Without
    <3>4. QED
      BY <2>1, <2>4, <3>2, <3>3 DEF r
  <2>8. QED
    BY <2>6, <2>7
<1>11. QED
  BY <1>9, <1>10

\* A repeated join re-reads the room.
LEMMA RepeatJoinViews ==
  ASSUME TypeOK, Registry, ViewsAgree, NEW s \in Sockets, NEW seat \in Seat,
         NEW team \in Teams \cup {NoTeam}, NEW on \in ConsentChoices,
         RepeatJoin(s, seat, team, on)
  PROVE  ViewsAgree'
<1> DEFINE entry == [name |-> seat.name, ws |-> s]
<1>1. UNCHANGED <<rooms, clients, ready>>
  BY DEF RepeatJoin
<1>2. \A w \in Sockets : clients'[w] # NoSeat =>
        told'[w] = Sent(told, {entry}, RoomState(NamesOf(Others(s))))[w]
  BY DEF RepeatJoin, Deliver
<1>3. \A w \in Sockets : ready[w] = "open" =>
        Sent(told, {entry}, RoomState(NamesOf(Others(s))))[w]
          = IF w = s THEN NamesOf(Others(s)) ELSE told[w]
  BY DEF Sent, Hear, RoomState
<1> HIDE DEF entry
<1>4. QED
  BY <1>1, <1>2, <1>3 DEF ViewsAgree, Seated, Others

\* A step that moves nobody and tells nobody anything keeps the views.
LEMMA ViewsUntouched ==
  ASSUME ViewsAgree, UNCHANGED <<rooms, clients, told>>,
         \A s \in Sockets : ready'[s] = "open" => ready[s] = "open" \/ ~Seated(s)
  PROVE  ViewsAgree'
BY DEF ViewsAgree, Others, Seated

\* Every step keeps the views of the members in agreement with the room.
LEMMA ViewsStep == TypeOK /\ Registry /\ ViewsAgree /\ [Next]_vars => ViewsAgree'
<1> SUFFICES ASSUME TypeOK, Registry, ViewsAgree, [Next]_vars PROVE ViewsAgree'
  OBVIOUS
<1>1. CASE Tick
  BY <1>1, ViewsUntouched DEF Tick, connVars, roomHistory
<1>2. CASE Transport
  <2> SUFFICES \A s \in Sockets : ready'[s] = "open" => ready[s] = "open" \/ ~Seated(s)
    BY <1>2, ViewsUntouched DEF Transport, roomVars
  <2>1. CASE Sweep
    BY <2>1 DEF Sweep
  <2>2. ASSUME NEW s \in Sockets, Admit(s)
        PROVE  \A w \in Sockets : ready'[w] = "open" => ready[w] = "open" \/ ~Seated(w)
    BY <2>2 DEF Admit, Registry, SeatsAreLive, Live, TypeOK, ConnTypeOK
  <2>3. ASSUME NEW s \in Sockets,
               \/ Reject(s) \/ SignOfLife(s)
               \/ EvictTimeout(s) \/ ClientCloses(s) \/ CloseTimeout(s) \/ Vanish(s)
        PROVE  \A w \in Sockets : ready'[w] = "open" => ready[w] = "open" \/ ~Seated(w)
    BY <2>3 DEF Reject, SignOfLife, EvictTimeout, ClientCloses, CloseTimeout, Vanish,
               TypeOK, ConnTypeOK
  <2>4. QED
    BY <1>2, <2>1, <2>2, <2>3 DEF Transport
<1>3. ASSUME NEW s \in Sockets, Join(s) PROVE ViewsAgree'
  BY <1>3, RepeatJoinViews, TakeSeatViews DEF Join
<1>4. ASSUME NEW s \in Sockets, Coords(s) PROVE ViewsAgree'
  BY <1>4, ViewsUntouched DEF Coords, ReportCoords, DisownCoords, roomHistory
<1>5. ASSUME NEW s \in Sockets, Reset(s) PROVE ViewsAgree'
  BY <1>5, ViewsUntouched DEF Reset, RelayReset, SetSharedReset
<1>6. ASSUME NEW s \in Sockets, Close(s) PROVE ViewsAgree'
  BY <1>6, CloseViews
<1>7. CASE UNCHANGED vars
  BY <1>7, ViewsUntouched DEF vars, roomVars, connVars
<1>8. QED
  BY <1>1, <1>2, <1>3, <1>4, <1>5, <1>6, <1>7 DEF Next

\* room_state, peer_joined and peer_left add up: whatever joins, moves, takeovers
\* and closes happen, a member believes in exactly the players that are there.
THEOREM ViewsStayInAgreement == Spec => []ViewsAgree
<1>1. Init => ViewsAgree
  BY DEF Init, ViewsAgree, Seated
<1>2. RoomInv /\ ViewsAgree /\ [Next]_vars => ViewsAgree'
  BY ViewsStep DEF RoomInv
<1>3. QED
  BY <1>1, <1>2, RoomInvariant, PTL DEF Spec

-----------------------------------------------------------------------------
(* Consent and places.                                                     *)

\* What a record holds, in order: at most one place, a camera only beside a
\* live position.
PlacesInOrder(i) ==
  /\ i.position = NoPoint \/ i.lastSeen = NoPoint
  /\ i.camera # NoPoint => i.position # NoPoint

\* A record that holds no place at all.
Placeless(i) == i.position = NoPoint /\ i.lastSeen = NoPoint /\ i.camera = NoPoint

\* A new entry holds no place and no consent.
LEMMA BlankIsPlaceless == Placeless(Blank) /\ PlacesInOrder(Blank)
BY DEF Blank, Placeless, PlacesInOrder

\* A join declares a team and an opt-in, and touches nothing else.
LEMMA DeclaredKeeps ==
  ASSUME NEW i \in Info, NEW team, NEW on
  PROVE  /\ Declared(i, team, on).position = i.position
         /\ Declared(i, team, on).lastSeen = i.lastSeen
         /\ Declared(i, team, on).camera = i.camera
         /\ Declared(i, team, on).sharedReset = on
BY DEF Declared, Info

\* What is taken over holds its places in order.
LEMMA TakenOverPlaces ==
  ASSUME TypeOK, Registry, OnePlaceAtMost, NEW s \in Sockets, NEW seat \in Seat,
         NEW team \in Teams \cup {NoTeam}, NEW on \in ConsentChoices,
         TakeSeat(s, seat, team, on)
  PROVE  PlacesInOrder(TakenOver(s, seat, team, on))
<1> DEFINE old == IF Displaced(s, seat) = {} THEN Blank
                  ELSE info[CHOOSE w \in Displaced(s, seat) : TRUE]
<1>1. Displaced(s, seat) \subseteq Sockets
  BY TakeSeatEntries DEF TypeOK, Seat
<1>2. old \in Info /\ PlacesInOrder(old)
  <2>1. CASE Displaced(s, seat) = {}
    BY <2>1, BlankType, BlankIsPlaceless
  <2>2. CASE Displaced(s, seat) # {}
    <3>1. (CHOOSE w \in Displaced(s, seat) : TRUE) \in Sockets
      BY <1>1, <2>2
    <3>2. QED
      BY <2>2, <3>1 DEF OnePlaceAtMost, PlacesInOrder, TypeOK, RoomTypeOK
  <2>3. QED
    BY <2>1, <2>2
<1>3. TakenOver(s, seat, team, on) = Declared(old, team, on)
  BY DEF TakenOver
<1> HIDE DEF old
<1>4. QED
  BY <1>2, <1>3, DeclaredKeeps DEF PlacesInOrder

\* A step that leaves every place and every seat alone keeps the places in order.
LEMMA PlacesUntouched ==
  ASSUME OnePlaceAtMost, UNCHANGED clients,
         \A s \in Sockets : /\ info'[s].position = info[s].position
                            /\ info'[s].lastSeen = info[s].lastSeen
                            /\ info'[s].camera = info[s].camera
  PROVE  OnePlaceAtMost'
BY DEF OnePlaceAtMost, Seated

\* Every step keeps the places in order.
LEMMA PlacesStep == TypeOK /\ Registry /\ OnePlaceAtMost /\ [Next]_vars => OnePlaceAtMost'
<1> SUFFICES ASSUME TypeOK, Registry, OnePlaceAtMost, [Next]_vars PROVE OnePlaceAtMost'
  OBVIOUS
<1>1. CASE Tick
  BY <1>1, PlacesUntouched DEF Tick
<1>2. CASE Transport
  BY <1>2, PlacesUntouched DEF Transport, roomVars
<1>3. ASSUME NEW s \in Sockets, Join(s) PROVE OnePlaceAtMost'
  <2>1. ASSUME NEW seat \in Seat, NEW team \in Teams \cup {NoTeam}, NEW on \in ConsentChoices,
               RepeatJoin(s, seat, team, on)
        PROVE  OnePlaceAtMost'
    <3>1. \A w \in Sockets : info'[w] = IF w = s THEN Declared(info[s], team, on) ELSE info[w]
      BY <2>1 DEF RepeatJoin, TypeOK, RoomTypeOK
    <3>2. info[s] \in Info /\ clients' = clients
      BY <2>1 DEF RepeatJoin, TypeOK, RoomTypeOK
    <3>3. QED
      BY <3>1, <3>2, DeclaredKeeps, PlacesUntouched
  <2>2. ASSUME NEW seat \in Seat, NEW team \in Teams \cup {NoTeam}, NEW on \in ConsentChoices,
               TakeSeat(s, seat, team, on)
        PROVE  OnePlaceAtMost'
    <3>1. PlacesInOrder(TakenOver(s, seat, team, on))
      BY <2>2, TakenOverPlaces
    <3>2. \A w \in Sockets : info'[w] = IF w = s THEN TakenOver(s, seat, team, on)
                                        ELSE IF w \in Displaced(s, seat) THEN Blank ELSE info[w]
      BY <2>2 DEF TakeSeat
    <3>3. \A w \in Sockets : clients'[w] = IF w = s THEN seat
                                           ELSE IF w \in Displaced(s, seat) THEN NoSeat ELSE clients[w]
      BY <2>2 DEF TakeSeat
    <3>4. seat # NoSeat
      BY RoomAssumption DEF Seat
    <3>5. QED
      BY <3>1, <3>2, <3>3, <3>4, BlankIsPlaceless DEF OnePlaceAtMost, PlacesInOrder, Placeless,
              Seated
  <2>3. QED
    BY <1>3, <2>1, <2>2 DEF Join
<1>4. ASSUME NEW s \in Sockets, Coords(s) PROVE OnePlaceAtMost'
  <2>1. ASSUME NEW at \in Places, NEW camera, ReportCoords(s, at, camera) PROVE OnePlaceAtMost'
    <3>1. Stamped(at, now) # NoPoint
      BY RoomAssumption DEF Stamped, TypeOK, RoomTypeOK
    <3>2. /\ info'[s].position = Stamped(at, now) /\ info'[s].lastSeen = NoPoint
          /\ \A w \in Sockets \ {s} : info'[w] = info[w]
          /\ Seated(s) /\ clients' = clients
      BY <2>1 DEF ReportCoords, TypeOK, RoomTypeOK, Info
    <3>3. QED
      BY <3>1, <3>2 DEF OnePlaceAtMost, Seated
  <2>2. ASSUME NEW seen, NEW ago, DisownCoords(s, seen, ago) PROVE OnePlaceAtMost'
    <3>1. /\ info'[s].position = NoPoint /\ info'[s].camera = NoPoint
          /\ \A w \in Sockets \ {s} : info'[w] = info[w]
          /\ Seated(s) /\ clients' = clients
      BY <2>2 DEF DisownCoords, TypeOK, RoomTypeOK, Info
    <3>2. QED
      BY <3>1 DEF OnePlaceAtMost, Seated
  <2>3. QED
    BY <1>4, <2>1, <2>2 DEF Coords
<1>5. ASSUME NEW s \in Sockets, Reset(s) PROVE OnePlaceAtMost'
  <2>1. CASE RelayReset(s)
    BY <2>1, PlacesUntouched DEF RelayReset
  <2>2. ASSUME NEW on, SetSharedReset(s, on) PROVE OnePlaceAtMost'
    <3>1. clients' = clients /\ info' = [info EXCEPT ![s].sharedReset = on]
      BY <2>2 DEF SetSharedReset
    <3>2. \A w \in Sockets : /\ info'[w].position = info[w].position
                             /\ info'[w].lastSeen = info[w].lastSeen
                             /\ info'[w].camera = info[w].camera
      BY <3>1 DEF TypeOK, RoomTypeOK, Info
    <3>3. QED
      BY <3>1, <3>2, PlacesUntouched
  <2>3. QED
    BY <1>5, <2>1, <2>2 DEF Reset
<1>6. ASSUME NEW s \in Sockets, Close(s) PROVE OnePlaceAtMost'
  <2>1. \A w \in Sockets : /\ info'[w] = IF w = s THEN Blank ELSE info[w]
                           /\ clients'[w] = IF w = s THEN NoSeat ELSE clients[w]
    BY <1>6 DEF Close, TypeOK, RoomTypeOK
  <2>2. QED
    BY <2>1, BlankIsPlaceless DEF OnePlaceAtMost, Placeless, Seated
<1>7. CASE UNCHANGED vars
  BY <1>7, PlacesUntouched DEF vars, roomVars
<1>8. QED
  BY <1>1, <1>2, <1>3, <1>4, <1>5, <1>6, <1>7 DEF Next

\* setPosition, clearPosition and the takeover in join: the server holds a player
\* at one place at most, live or last seen, and a camera only beside a live one.
THEOREM OnePlaceEach == Spec => []OnePlaceAtMost
<1>1. Init => OnePlaceAtMost
  BY BlankIsPlaceless DEF Init, OnePlaceAtMost, Placeless
<1>2. RoomInv /\ OnePlaceAtMost /\ [Next]_vars => OnePlaceAtMost'
  BY PlacesStep DEF RoomInv
<1>3. QED
  BY <1>1, <1>2, RoomInvariant, PTL DEF Spec

\* Every step keeps the opt-in what was last said on the connection.
LEMMA ConsentStep == TypeOK /\ Registry /\ ConsentIsOwn /\ [Next]_vars => ConsentIsOwn'
<1> SUFFICES ASSUME TypeOK, Registry, ConsentIsOwn, [Next]_vars PROVE ConsentIsOwn'
  OBVIOUS
<1> USE DEF ConsentIsOwn, Seated
<1>1. CASE Tick
  BY <1>1 DEF Tick, roomHistory
<1>2. CASE Transport
  BY <1>2 DEF Transport, roomVars
<1>3. ASSUME NEW s \in Sockets, Join(s) PROVE ConsentIsOwn'
  <2>1. ASSUME NEW seat \in Seat, NEW team \in Teams \cup {NoTeam}, NEW on \in ConsentChoices,
               RepeatJoin(s, seat, team, on)
        PROVE  ConsentIsOwn'
    <3>1. \A w \in Sockets : /\ info'[w] = IF w = s THEN Declared(info[s], team, on) ELSE info[w]
                             /\ said'[w] = IF w = s THEN on ELSE said[w]
      BY <2>1 DEF RepeatJoin, TypeOK, RoomTypeOK
    <3>2. info[s] \in Info /\ clients' = clients
      BY <2>1 DEF RepeatJoin, TypeOK, RoomTypeOK
    <3>3. QED
      BY <3>1, <3>2, DeclaredKeeps
  <2>2. ASSUME NEW seat \in Seat, NEW team \in Teams \cup {NoTeam}, NEW on \in ConsentChoices,
               TakeSeat(s, seat, team, on)
        PROVE  ConsentIsOwn'
    <3>1. TakenOver(s, seat, team, on).sharedReset = on
      <4> DEFINE old == IF Displaced(s, seat) = {} THEN Blank
                        ELSE info[CHOOSE w \in Displaced(s, seat) : TRUE]
      <4>1. Displaced(s, seat) \subseteq Sockets
        BY <2>2, TakeSeatEntries DEF TypeOK, Seat
      <4>2. old \in Info
        BY <4>1, BlankType DEF TypeOK, RoomTypeOK
      <4>3. TakenOver(s, seat, team, on) = Declared(old, team, on)
        BY DEF TakenOver
      <4> HIDE DEF old
      <4>4. QED
        BY <4>2, <4>3, DeclaredKeeps
    <3>2. \A w \in Sockets :
            /\ info'[w] = IF w = s THEN TakenOver(s, seat, team, on)
                         ELSE IF w \in Displaced(s, seat) THEN Blank ELSE info[w]
            /\ said'[w] = IF w = s THEN on
                         ELSE IF w \in Displaced(s, seat) THEN FALSE ELSE said[w]
            /\ clients'[w] = IF w = s THEN seat
                            ELSE IF w \in Displaced(s, seat) THEN NoSeat ELSE clients[w]
      BY <2>2 DEF TakeSeat
    <3>3. QED
      BY <3>1, <3>2
  <2>3. QED
    BY <1>3, <2>1, <2>2 DEF Join
<1>4. ASSUME NEW s \in Sockets, Coords(s) PROVE ConsentIsOwn'
  <2>1. ASSUME NEW at, NEW camera, ReportCoords(s, at, camera) PROVE ConsentIsOwn'
    <3>1. \A w \in Sockets : info'[w].sharedReset = info[w].sharedReset
      BY <2>1 DEF ReportCoords, TypeOK, RoomTypeOK, Info
    <3>2. QED
      BY <2>1, <3>1 DEF ReportCoords, roomHistory
  <2>2. ASSUME NEW seen, NEW ago, DisownCoords(s, seen, ago) PROVE ConsentIsOwn'
    <3>1. \A w \in Sockets : info'[w].sharedReset = info[w].sharedReset
      BY <2>2 DEF DisownCoords, TypeOK, RoomTypeOK, Info
    <3>2. QED
      BY <2>2, <3>1 DEF DisownCoords, roomHistory
  <2>3. QED
    BY <1>4, <2>1, <2>2 DEF Coords
<1>5. ASSUME NEW s \in Sockets, Reset(s) PROVE ConsentIsOwn'
  BY <1>5 DEF Reset, RelayReset, SetSharedReset, TypeOK, RoomTypeOK, Info
<1>6. ASSUME NEW s \in Sockets, Close(s) PROVE ConsentIsOwn'
  <2>1. \A w \in Sockets : /\ info'[w] = IF w = s THEN Blank ELSE info[w]
                           /\ said'[w] = IF w = s THEN FALSE ELSE said[w]
                           /\ clients'[w] = IF w = s THEN NoSeat ELSE clients[w]
    BY <1>6 DEF Close, TypeOK, RoomTypeOK
  <2>2. QED
    BY <2>1
<1>7. CASE UNCHANGED vars
  BY <1>7 DEF vars, roomVars
<1>8. QED
  BY <1>1, <1>2, <1>3, <1>4, <1>5, <1>6, <1>7 DEF Next

\* A connection's shared-RESET opt-in is what its own client said on it: no
\* takeover carries consent from one connection to another.
THEOREM ConsentStaysOwn == Spec => []ConsentIsOwn
<1>1. Init => ConsentIsOwn
  BY DEF Init, ConsentIsOwn, Seated
<1>2. RoomInv /\ ConsentIsOwn /\ [Next]_vars => ConsentIsOwn'
  BY ConsentStep DEF RoomInv
<1>3. QED
  BY <1>1, <1>2, RoomInvariant, PTL DEF Spec

-----------------------------------------------------------------------------
(* Shared RESET.                                                           *)

\* The cooldown stamps are at least as recent as the relays they stand for, for
\* every name whose relay the room still remembers.
StampsCover ==
  \A r \in Rooms : \A n \in Names \ vacated[r] :
    relayed[r][n] <= senderResetMs[r][n] /\ relayed[r][n] <= roomResetMs[r]

\* A step that relays nothing, or only forgets, keeps the stamps covering.
LEMMA StampsForgotten ==
  ASSUME RoomTypeOK, StampsCover, NEW gone, ForgetStamps(gone), UNCHANGED relayed
  PROVE  StampsCover'
BY DEF StampsCover, ForgetStamps, RoomTypeOK

\* A relayed RESET: both cooldowns have passed since every relay it answers for,
\* and its stamps cover it.
LEMMA RelayStep ==
  ASSUME TypeOK, StampsCover, NEW s \in Sockets, RelayReset(s)
  PROVE  StampsCover' /\ \A r \in Rooms : SpacedIn(r, Names \ vacated[r])
<1> DEFINE room == clients[s].room
           name == clients[s].name
<1>1. room \in Rooms /\ name \in Names
  BY SeatType DEF RelayReset, TypeOK
<1>2. /\ now - senderResetMs[room][name] >= SenderCooldown
      /\ now - roomResetMs[room] >= RoomCooldown
  BY DEF RelayReset, MayRelayReset
<1>3. /\ roomResetMs' = [roomResetMs EXCEPT ![room] = now]
      /\ senderResetMs' = [senderResetMs EXCEPT ![room][name] = now]
      /\ \/ relayed' = [relayed EXCEPT ![room][name] = now]
            /\ vacated' = [vacated EXCEPT ![room] = @ \ {name}]
         \/ relayed' = [relayed EXCEPT ![room][name] = @] /\ vacated' = [vacated EXCEPT ![room] = @]
  BY DEF RelayReset
<1>4. /\ now \in Int /\ RoomCooldown \in Nat /\ SenderCooldown \in Nat
      /\ \A r \in Rooms, n \in Names :
           relayed[r][n] \in Int /\ senderResetMs[r][n] \in Int /\ roomResetMs[r] \in Int
  BY RoomAssumption DEF TypeOK, RoomTypeOK
<1> HIDE DEF room, name
<1>5. \A r \in Rooms, n \in Names :
        /\ roomResetMs'[r] = IF r = room THEN now ELSE roomResetMs[r]
        /\ senderResetMs'[r][n] = IF r = room /\ n = name THEN now ELSE senderResetMs[r][n]
  BY <1>1, <1>3 DEF TypeOK, RoomTypeOK
<1>6. \A r \in Rooms, n \in Names :
        \/ relayed'[r][n] = relayed[r][n] /\ (n \in vacated'[r] <=> n \in vacated[r])
        \/ r = room /\ n = name /\ relayed'[r][n] = now /\ n \notin vacated'[r]
  BY <1>1, <1>3 DEF TypeOK, RoomTypeOK
<1>7. \A r \in Rooms : r # room => relayed'[r] = relayed[r]
  BY <1>1, <1>3 DEF TypeOK, RoomTypeOK
<1>8. StampsCover'
  <2> SUFFICES ASSUME NEW r \in Rooms, NEW n \in Names, n \notin vacated'[r]
               PROVE  relayed'[r][n] <= senderResetMs'[r][n] /\ relayed'[r][n] <= roomResetMs'[r]
    BY DEF StampsCover
  <2>1. CASE r = room /\ n = name /\ relayed'[r][n] = now
    BY <1>4, <1>5, <2>1
  <2>2. CASE relayed'[r][n] = relayed[r][n] /\ n \notin vacated[r]
    BY <1>2, <1>4, <1>5, <2>2 DEF StampsCover
  <2>3. QED
    BY <1>6, <2>1, <2>2
<1>9. ASSUME NEW r \in Rooms PROVE SpacedIn(r, Names \ vacated[r])
  <2> SUFFICES ASSUME r = room, NEW n \in Names, n \notin vacated[r]
               PROVE  /\ now - relayed[r][n] >= RoomCooldown
                      /\ relayed'[r][n] # relayed[r][n] => now - relayed[r][n] >= SenderCooldown
    BY <1>7 DEF SpacedIn
  <2>1. relayed[r][n] <= senderResetMs[r][n] /\ relayed[r][n] <= roomResetMs[r]
    BY DEF StampsCover
  <2>2. relayed'[r][n] # relayed[r][n] => n = name
    BY <1>6
  <2>3. QED
    BY <1>2, <1>4, <2>1, <2>2
<1>10. QED
  BY <1>8, <1>9

\* Every step keeps the stamps covering, and spaces what it relays.
LEMMA StampsStep ==
  TypeOK /\ StampsCover /\ [Next]_vars
    => StampsCover' /\ \A r \in Rooms : SpacedIn(r, Names \ vacated[r])
<1> SUFFICES ASSUME TypeOK, StampsCover, [Next]_vars
             PROVE  StampsCover' /\ \A r \in Rooms : SpacedIn(r, Names \ vacated[r])
  OBVIOUS
<1>1. ASSUME NEW s \in Sockets, RelayReset(s)
      PROVE  StampsCover' /\ \A r \in Rooms : SpacedIn(r, Names \ vacated[r])
  BY <1>1, RelayStep
<1>2. ASSUME UNCHANGED <<stampVars, relayed, vacated>>
      PROVE  StampsCover' /\ \A r \in Rooms : SpacedIn(r, Names \ vacated[r])
  BY <1>2 DEF StampsCover, SpacedIn, stampVars
<1>3. ASSUME NEW gone, ForgetStamps(gone), UNCHANGED relayed
      PROVE  StampsCover' /\ \A r \in Rooms : SpacedIn(r, Names \ vacated[r])
  BY <1>3, StampsForgotten DEF SpacedIn, TypeOK
<1>4. ASSUME NEW s \in Sockets, Join(s) \/ Coords(s) \/ Reset(s) \/ Close(s)
      PROVE  StampsCover' /\ \A r \in Rooms : SpacedIn(r, Names \ vacated[r])
  <2>1. CASE Join(s)
    BY <1>2, <1>3, <2>1 DEF Join, RepeatJoin, TakeSeat
  <2>2. CASE Coords(s)
    BY <1>2, <2>2 DEF Coords, ReportCoords, DisownCoords, roomHistory
  <2>3. CASE Reset(s)
    BY <1>1, <1>2, <2>3 DEF Reset, SetSharedReset
  <2>4. CASE Close(s)
    BY <1>3, <2>4 DEF Close
  <2>5. QED
    BY <1>4, <2>1, <2>2, <2>3, <2>4
<1>5. CASE Tick
  BY <1>2, <1>5 DEF Tick, roomHistory
<1>6. CASE Transport
  BY <1>2, <1>6 DEF Transport, roomVars, stampVars
<1>7. CASE UNCHANGED vars
  BY <1>2, <1>7 DEF vars, roomVars, stampVars
<1>8. QED
  BY <1>4, <1>5, <1>6, <1>7 DEF Next

\* 'reset_all': while a room stays occupied the two cooldowns hold for whatever
\* reaches anyone, whoever reconnects in between.
THEOREM RelaysStaySpaced == Spec => RelaysAreSpaced
<1>1. Init => StampsCover
  BY RoomAssumption DEF Init, StampsCover, Never
<1>2. RoomInv /\ StampsCover /\ [Next]_vars => StampsCover'
  BY StampsStep DEF RoomInv
<1>3. RoomInv /\ StampsCover /\ [Next]_vars
        => [\A r \in Rooms : SpacedIn(r, Names \ vacated[r])]_vars
  BY StampsStep DEF RoomInv
<1>4. QED
  BY <1>1, <1>2, <1>3, RoomInvariant, PTL DEF Spec, RelaysAreSpaced

-----------------------------------------------------------------------------
(* Takeovers.                                                              *)

\* What a takeover hands on: the place as it was, and a team if one was known.
Handed(old, new) ==
  /\ new.position = old.position
  /\ new.camera = old.camera
  /\ new.lastSeen = old.lastSeen
  /\ old.team # NoTeam => new.team # NoTeam

\* Between this state and the next, whoever holds a name after another holds its
\* place.
PlaceFollowsName ==
  \A r \in Rooms : \A e \in rooms[r], f \in rooms'[r] :
    e.name = f.name /\ e.ws # f.ws => Handed(info[e.ws], info'[f.ws])

\* Without a new entry no name changes hands.
LEMMA NobodyTakesOver ==
  ASSUME Registry, \A r \in Rooms : rooms'[r] \subseteq rooms[r]
  PROVE  PlaceFollowsName
BY DEF Registry, UniqueNames, PlaceFollowsName

\* A join takes its name over from one socket, and hands on what that one had.
LEMMA JoinerInherits ==
  ASSUME TypeOK, Registry, NEW s \in Sockets, NEW seat \in Seat,
         NEW team \in Teams \cup {NoTeam}, NEW on \in ConsentChoices,
         TakeSeat(s, seat, team, on), NEW e \in rooms[seat.room],
         e.name = seat.name, e.ws # s
  PROVE  Handed(info[e.ws], info'[s])
<1>1. /\ seat.room \in Rooms /\ seat.name \in Names
      /\ seat = [room |-> seat.room, name |-> seat.name]
  BY DEF Seat
<1>2. e = [name |-> seat.name, ws |-> e.ws] /\ e.ws \in Sockets
  BY <1>1 DEF TypeOK, RoomTypeOK, Entry
<1>3. clients[e.ws] = seat
  BY <1>1, <1>2 DEF Registry, RegistryAgrees
<1>4. e.ws \in Displaced(s, seat)
  BY <1>1, <1>2, <1>3, TakeSeatEntries DEF TypeOK
<1>5. ASSUME NEW w \in Displaced(s, seat) PROVE w = e.ws
  <2>1. w \in Sockets /\ clients[w] = seat
    BY <1>1, TakeSeatEntries DEF TypeOK
  <2>2. [name |-> seat.name, ws |-> w] \in rooms[seat.room]
    BY <1>1, <2>1 DEF Registry, RegistryAgrees
  <2>3. QED
    BY <1>1, <2>2 DEF Registry, UniqueNames
<1>6. (CHOOSE w \in Displaced(s, seat) : TRUE) = e.ws
  BY <1>4, <1>5
<1>7. info'[s] = Declared(info[e.ws], team, on)
  BY <1>4, <1>6 DEF TakeSeat, TakenOver
<1>8. info[e.ws] \in Info
  BY <1>2 DEF TypeOK, RoomTypeOK
<1>9. info[e.ws].team # NoTeam => Declared(info[e.ws], team, on).team # NoTeam
  BY <1>8 DEF Declared, Info
<1>10. QED
  BY <1>7, <1>8, <1>9, DeclaredKeeps DEF Handed

\* A join keeps the places with the names.
LEMMA JoinKeepsPlaces ==
  ASSUME TypeOK, Registry, NEW s \in Sockets, NEW seat \in Seat,
         NEW team \in Teams \cup {NoTeam}, NEW on \in ConsentChoices,
         TakeSeat(s, seat, team, on)
  PROVE  PlaceFollowsName
<1> SUFFICES ASSUME NEW r \in Rooms, NEW e \in rooms[r], NEW f \in rooms'[r],
                    e.name = f.name, e.ws # f.ws
             PROVE  Handed(info[e.ws], info'[f.ws])
  BY DEF PlaceFollowsName
<1>1. f \in rooms[r] \/ (r = seat.room /\ f = [name |-> seat.name, ws |-> s])
  <2>1. RoomTypeOK
    BY DEF TypeOK
  <2>2. rooms'[r] = IF r = seat.room
                    THEN {x \in rooms[r] : x.ws # s /\ x.name # seat.name}
                           \cup {[name |-> seat.name, ws |-> s]}
                    ELSE {x \in rooms[r] : x.ws # s}
    BY <2>1, TakeSeatEntries
  <2>3. QED
    BY <2>2
<1>2. f \notin rooms[r]
  BY DEF Registry, UniqueNames
<1>3. QED
  BY <1>1, <1>2, JoinerInherits

\* Every step keeps the places with the names.
LEMMA PlacesFollowStep == TypeOK /\ Registry /\ [Next]_vars => PlaceFollowsName
<1> SUFFICES ASSUME TypeOK, Registry, [Next]_vars PROVE PlaceFollowsName
  OBVIOUS
<1>1. ASSUME UNCHANGED rooms PROVE PlaceFollowsName
  BY <1>1, NobodyTakesOver
<1>2. ASSUME NEW s \in Sockets, Join(s) PROVE PlaceFollowsName
  BY <1>1, <1>2, JoinKeepsPlaces DEF Join, RepeatJoin
<1>3. ASSUME NEW s \in Sockets, Coords(s) \/ Reset(s) PROVE PlaceFollowsName
  BY <1>1, <1>3 DEF Coords, ReportCoords, DisownCoords, Reset, RelayReset, SetSharedReset
<1>4. ASSUME NEW s \in Sockets, Close(s) PROVE PlaceFollowsName
  <2>1. \A r \in Rooms : rooms'[r] \subseteq rooms[r]
    BY <1>4, LeaveEntries DEF Close, TypeOK
  <2>2. QED
    BY <2>1, NobodyTakesOver
<1>5. CASE Tick \/ Transport \/ UNCHANGED vars
  BY <1>1, <1>5 DEF Tick, Transport, vars, roomVars
<1>6. QED
  BY <1>2, <1>3, <1>4, <1>5 DEF Next

\* RoomManager.join: whichever connection holds a name next, it goes on from where
\* the one before it stood.
THEOREM PlaceOutlivesTheConnection == Spec => TakeoverKeepsPlace
<1>1. RoomInv /\ [Next]_vars
        => [\A r \in Rooms : \A e \in rooms[r], f \in rooms'[r] :
              e.name = f.name /\ e.ws # f.ws =>
                /\ info'[f.ws].position = info[e.ws].position
                /\ info'[f.ws].camera = info[e.ws].camera
                /\ info'[f.ws].lastSeen = info[e.ws].lastSeen
                /\ info[e.ws].team # NoTeam => info'[f.ws].team # NoTeam]_vars
  BY PlacesFollowStep DEF RoomInv, PlaceFollowsName, Handed
<1>2. QED
  BY <1>1, RoomInvariant, PTL DEF Spec, TakeoverKeepsPlace

=============================================================================
