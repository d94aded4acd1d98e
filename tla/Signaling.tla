------------------------------ MODULE Signaling ------------------------------
(***************************************************************************)
(* The client's SignalingService (src/services/signaling.ts) talking to    *)
(* the server's rooms: several apps, each with one current WebSocket, a    *)
(* reconnect timer and the close code 4000 that ends reconnecting.         *)
(*                                                                         *)
(* Connections are numbered in the order they are opened.  Each carries    *)
(* its own ordered stream to the server; two connections of one app are    *)
(* ordered with respect to each other only when InOrder is TRUE.           *)
(***************************************************************************)
EXTENDS RoomServer, Sequences, FiniteSetsExt

CONSTANTS
  Apps,          \* running copies of the client
  NameOf,        \* the player each is logged in as
  NoSocket, NoRoom, NoApp,
  InOrder,       \* no join overtakes one the same app sent earlier on another socket
  MaxCalls,      \* bound: joinRoom and leaveRoom calls
  MaxDrops,      \* bound: connections lost on the client's side
  MaxLost        \* bound: 4000 close frames that never reach the client

ASSUME SignalingAssumption ==
  /\ Sockets \subseteq Nat
  /\ NameOf \in [Apps -> Names]
  /\ NoSocket \notin Sockets /\ NoRoom \notin Rooms /\ NoApp \notin Apps
  /\ InOrder \in BOOLEAN
  /\ MaxCalls \in Nat /\ MaxDrops \in Nat /\ MaxLost \in Nat

VARIABLES
  current,      \* app -> this.ws
  wanted,       \* app -> currentRoomId
  done,         \* app -> intentionallyClosed
  timer,        \* app -> whether reconnectTimer is pending
  owner,        \* socket -> the app that opened it
  state,        \* socket -> readyState on the client
  outbound,     \* socket -> joins sent and not yet handled by the server
  calls, drops, lost      \* counters for the bounds

clientVars == <<current, wanted, done, timer, owner, state, outbound, calls, drops, lost>>
allVars    == <<vars, clientVars>>

SignalingTypeOK ==
  /\ TypeOK
  /\ current \in [Apps -> Sockets \cup {NoSocket}]
  /\ wanted \in [Apps -> Rooms \cup {NoRoom}]
  /\ done \in [Apps -> BOOLEAN]
  /\ timer \in [Apps -> BOOLEAN]
  /\ owner \in [Sockets -> Apps \cup {NoApp}]
  /\ state \in [Sockets -> {"unused", "connecting", "open", "closing", "closed"}]
  /\ outbound \in [Sockets -> Seq(Seat)]
  /\ calls \in 0..MaxCalls /\ drops \in 0..MaxDrops /\ lost \in 0..MaxLost

SignalingInit ==
  /\ Init
  /\ current = [a \in Apps |-> NoSocket]
  /\ wanted = [a \in Apps |-> NoRoom]
  /\ done = [a \in Apps |-> FALSE]
  /\ timer = [a \in Apps |-> FALSE]
  /\ owner = [s \in Sockets |-> NoApp]
  /\ state = [s \in Sockets |-> "unused"]
  /\ outbound = [s \in Sockets |-> <<>>]
  /\ calls = 0 /\ drops = 0 /\ lost = 0

-----------------------------------------------------------------------------
(* Opening and closing on the client.                                      *)

Unused == {s \in Sockets : state[s] = "unused"}

\* WebSocket.close(): a connection not yet up is abandoned, an open one says
\* goodbye behind whatever it has already sent.
ClosedBy(s, st) ==
  [st EXCEPT ![s] = IF @ = "connecting" THEN "closed" ELSE IF @ = "open" THEN "closing" ELSE @]

\* Wrong variant of HangUp: the old connection is left to itself.
KeepOpen(a, st) == st

HangUp(a, st) == IF current[a] = NoSocket THEN st ELSE ClosedBy(current[a], st)

\* openSocket: close the current socket, make a new one current.
OpenSocket(a) ==
  LET s == Min(Unused) IN
  /\ Unused # {}
  /\ state' = [HangUp(a, state) EXCEPT ![s] = "connecting"]
  /\ owner' = [owner EXCEPT ![s] = a]
  /\ current' = [current EXCEPT ![a] = s]

\* joinRoom, which does not ask whether a room is wanted already - a startSession
\* that resumes after its session ended leaves one behind - and does not clear a
\* pending reconnect timer.
JoinRoom(a, r) ==
  /\ calls < MaxCalls
  /\ calls' = calls + 1
  /\ wanted' = [wanted EXCEPT ![a] = r]
  /\ done' = [done EXCEPT ![a] = FALSE]
  /\ OpenSocket(a)
  /\ UNCHANGED <<vars, timer, outbound, drops, lost>>

\* Wrong variant of LeaveRoom: the reconnect timer stays armed.
LeaveWithTimer(a) ==
  /\ calls < MaxCalls /\ wanted[a] # NoRoom
  /\ calls' = calls + 1
  /\ done' = [done EXCEPT ![a] = TRUE]
  /\ wanted' = [wanted EXCEPT ![a] = NoRoom]
  /\ state' = HangUp(a, state)
  /\ current' = [current EXCEPT ![a] = NoSocket]
  /\ UNCHANGED <<vars, timer, owner, outbound, drops, lost>>

LeaveRoom(a) ==
  /\ calls < MaxCalls /\ wanted[a] # NoRoom
  /\ calls' = calls + 1
  /\ done' = [done EXCEPT ![a] = TRUE]
  /\ timer' = [timer EXCEPT ![a] = FALSE]
  /\ wanted' = [wanted EXCEPT ![a] = NoRoom]
  /\ state' = HangUp(a, state)
  /\ current' = [current EXCEPT ![a] = NoSocket]
  /\ UNCHANGED <<vars, owner, outbound, drops, lost>>

\* The reconnect timer: nothing happens when the room has been left meanwhile.
TimerFires(a) ==
  /\ timer[a]
  /\ timer' = [timer EXCEPT ![a] = FALSE]
  /\ IF wanted[a] = NoRoom THEN UNCHANGED <<state, owner, current>> ELSE OpenSocket(a)
  /\ UNCHANGED <<vars, wanted, done, outbound, calls, drops, lost>>

-----------------------------------------------------------------------------
(* Events on one socket.  Listeners of a superseded socket do nothing.      *)

IsCurrent(s) == current[owner[s]] = s

\* 'open': the join goes out on the current socket.
Opened(s) ==
  /\ state[s] = "connecting" /\ ready[s] # "new"
  /\ state' = [state EXCEPT ![s] = "open"]
  /\ outbound' = IF IsCurrent(s)
       THEN [outbound EXCEPT ![s] = Append(@, [room |-> wanted[owner[s]], name |-> NameOf[owner[s]]])]
       ELSE outbound
  /\ UNCHANGED <<vars, current, wanted, done, timer, owner, calls, drops, lost>>

\* Wrong variant of Closed: only a connection that had been up is retried.
ClosedOnceUp(s, code) ==
  LET heeded == IsCurrent(s) /\ ~done[owner[s]] IN
  /\ state' = [state EXCEPT ![s] = "closed"]
  /\ done' = IF heeded /\ code = 4000 THEN [done EXCEPT ![owner[s]] = TRUE] ELSE done
  /\ timer' = IF heeded THEN [timer EXCEPT ![owner[s]] = code # 4000 /\ state[s] = "open"] ELSE timer
  /\ UNCHANGED <<current, wanted, owner, outbound, calls>>

\* 'close' with the given code: 4000 is final, anything else arms the timer.
Closed(s, code) ==
  LET a == owner[s]
      heeded == IsCurrent(s) /\ ~done[a]
  IN
  /\ state' = [state EXCEPT ![s] = "closed"]
  /\ done' = IF heeded /\ code = 4000 THEN [done EXCEPT ![a] = TRUE] ELSE done
  /\ timer' = IF heeded THEN [timer EXCEPT ![a] = code # 4000] ELSE timer
  /\ UNCHANGED <<current, wanted, owner, outbound, calls>>

Ended(s) == ready[s] \in {"closing", "closed"}

\* The server's close frame arrives and is acknowledged.
Replaced(s) ==
  /\ state[s] \in {"open", "closing"} /\ s \in evicted
  /\ Closed(s, 4000)
  /\ IF Live(s) /\ s \notin torn THEN ClientCloses(s) ELSE UNCHANGED connVars
  /\ UNCHANGED <<roomVars, drops, lost>>

\* The server's terminate cut the connection before the close frame got through.
ReplacedUnheard(s) ==
  /\ state[s] \in {"open", "closing"} /\ s \in evicted /\ s \notin evictTimer
  /\ lost < MaxLost /\ lost' = lost + 1
  /\ Closed(s, 1006)
  /\ UNCHANGED <<vars, drops>>

\* The client's end of the connection fails; the server is not told yet.
Dropped(s) ==
  /\ state[s] \in {"connecting", "open"}
  /\ drops < MaxDrops /\ drops' = drops + 1
  /\ Closed(s, 1006)
  /\ UNCHANGED <<vars, lost>>

-----------------------------------------------------------------------------
(* The server's side of a connection.                                      *)

\* The upgrade of a connection the client is still attempting.
Accept(s) ==
  /\ state[s] = "connecting"
  /\ Admit(s)
  /\ UNCHANGED <<roomVars, clientVars>>

Overtakes(s) == \E o \in Sockets : o < s /\ owner[o] = owner[s] /\ outbound[o] # <<>>

ServerJoin(s) ==
  /\ outbound[s] # <<>>
  /\ InOrder => ~Overtakes(s)
  /\ \/ TakeSeat(s, Head(outbound[s]), NoTeam, FALSE)
     \/ RepeatJoin(s, Head(outbound[s]), NoTeam, FALSE)
  /\ outbound' = [outbound EXCEPT ![s] = Tail(@)]
  /\ UNCHANGED <<current, wanted, done, timer, owner, state, calls, drops, lost>>

\* The client's goodbye, or its failure, reaches the server behind its data.
ServerLearns(s) ==
  /\ state[s] \in {"closing", "closed"} /\ outbound[s] = <<>>
  /\ ClientCloses(s)
  /\ state' = [state EXCEPT ![s] = "closed"]
  /\ UNCHANGED <<roomVars, current, wanted, done, timer, owner, outbound, calls, drops, lost>>

ServerTimer(s) ==
  /\ EvictTimeout(s)
  /\ UNCHANGED <<roomVars, clientVars>>

ServerClose(s) == Close(s) /\ UNCHANGED clientVars

-----------------------------------------------------------------------------

SignalingNext ==
  \/ \E a \in Apps :
       \/ \E r \in Rooms : JoinRoom(a, r)
       \/ LeaveRoom(a)
       \/ TimerFires(a)
  \/ \E s \in Sockets :
       \/ Opened(s) \/ Replaced(s) \/ ReplacedUnheard(s) \/ Dropped(s)
       \/ Accept(s) \/ ServerJoin(s) \/ ServerLearns(s)
       \/ ServerTimer(s) \/ ServerClose(s)

SignalingSpec == SignalingInit /\ [][SignalingNext]_allVars

\* What happens by itself once it can: timers fire, connections that are attempted are
\* answered, and what is in flight arrives.
Underway ==
  \/ \E a \in Apps : TimerFires(a)
  \/ \E s \in Sockets :
       \/ Opened(s) \/ Replaced(s) \/ Accept(s) \/ ServerJoin(s) \/ ServerLearns(s)
       \/ ServerTimer(s) \/ ServerClose(s)

\* All of it happens in the end.  One condition for the whole is as strong as one for
\* each action: a socket is used once, so no action can go on for ever and starve
\* another.  Calls, drops and lost frames are never forced to happen.
SignalingFairness == WF_allVars(Underway)

FairSignalingSpec == SignalingSpec /\ SignalingFairness

-----------------------------------------------------------------------------
(* Properties.                                                             *)

\* The app is in the room it wants, under its name, on its current socket.
Present(a) ==
  /\ current[a] \in Sockets
  /\ clients[current[a]] = [room |-> wanted[a], name |-> NameOf[a]]

\* "The two would trade the room forever" (signaling.ts:6): with 4000 terminal,
\* apps under one name stop taking each other's seat.  Sooner or later every app
\* that wants a room is in it for good or has given up, also when the close frame
\* that should have stopped it was lost.
Settles ==
  <>[](\A a \in Apps : wanted[a] # NoRoom => done[a] \/ Present(a))

\* An app that nobody else shares its name with always gets back, through drops,
\* reconnects and joins of its own: it is never told that another connection
\* replaced it when that other connection is its own.
SoleAppReturns ==
  \A a \in Apps :
    [](\A b \in Apps \ {a} : NameOf[b] = NameOf[a] => wanted[b] = NoRoom) =>
      <>[](wanted[a] # NoRoom => Present(a))

\* Every app finds its place: alone under its name for good, or by giving up.
EveryoneSettles == Settles /\ SoleAppReturns

\* Leaving a room takes the app out of it: a join still in flight when the room
\* was left does not leave a seat behind.
LeavingEndsPresence ==
  \A a \in Apps :
    (wanted[a] = NoRoom) ~>
      (wanted[a] # NoRoom \/ \A s \in Sockets : owner[s] = a => ~Seated(s))

\* "does not let a superseded socket tear down the live one" (signaling.test.ts:109): a
\* reconnect never hangs up on a connection that works or is being made.
ReconnectsOnlyWhenDown ==
  [][\A a \in Apps : TimerFires(a) /\ wanted[a] # NoRoom =>
       state[current[a]] = "closed"]_allVars

\* A reconnect is due to hang up on a connection that works or is being made.
Threatened(a) == timer[a] /\ current[a] # NoSocket /\ state[current[a]] # "closed"

\* "A superseded socket must not be able to [...] drive the reconnect backoff"
\* (signaling.ts:106-108), as far as it holds: a reconnect that is under way turns on a
\* live connection only where joinRoom is called for an app that has not left its room.
\* No late close of an old socket, no lost or 4000 close, no leave and fresh join, and
\* no reconnect of its own brings that about.
ThreatenedOnlyByRejoining ==
  [][\A a \in Apps : Threatened(a)' =>
       Threatened(a) \/ (wanted[a] # NoRoom /\ \E r \in Rooms : JoinRoom(a, r))]_allVars

=============================================================================
