---------------------------- MODULE Connections ----------------------------
(***************************************************************************)
(* The connection layer of the signaling server: the per-address cap on    *)
(* open WebSockets, the heartbeat that reaps sockets whose client has      *)
(* vanished, and the two-stage close of a socket whose name was taken over *)
(* (server/src/index.ts, heartbeat.ts, rate-limit.ts, ws-handler.ts).      *)
(*                                                                         *)
(* A socket is used once: a reconnecting client is a new element of        *)
(* Sockets.  `ready` is the server's readyState; `link` says whether the   *)
(* client is still there, which the server cannot see; `torn` holds the    *)
(* sockets whose transport is gone and whose 'close' event is due.         *)
(***************************************************************************)
EXTENDS Integers, FiniteSets

CONSTANTS
  Sockets,      \* every connection that is ever attempted
  Addresses,    \* client addresses, as clientIp resolves them
  IpOf,         \* the address each connection comes from
  MaxPerIp,     \* LIMITS.WS_PER_IP
  Fragile,      \* bound: the connections whose client may vanish
  Sweeping,     \* bound: FALSE in instances that leave the heartbeat interval out
  HistoryCap    \* the history counters saturate here; 2 tells every property apart

ASSUME ConnectionsAssumption ==
  /\ IpOf \in [Sockets -> Addresses]
  /\ MaxPerIp \in Nat \ {0}
  /\ Fragile \subseteq Sockets
  /\ Sweeping \in BOOLEAN
  /\ HistoryCap \in Nat
  /\ IsFiniteSet(Sockets)

VARIABLES
  ready,        \* WebSocket.readyState on the server; "new" before the upgrade
  link,         \* whether the client end still exists: "up" or "down"
  torn,         \* transport destroyed or finished, 'close' not yet emitted
  admitted,     \* sockets past the per-address cap: their handlers are attached
  counts,       \* ConcurrencyLimiter.counts
  alive,        \* Heartbeat.alive; "untracked" is an absent key
  evictTimer,   \* sockets with a pending terminate() from evict
  evicted,      \* history: sockets whose name was handed to a newer connection
  unanswered,   \* history: pings in a row with no sign of life after them
  blind         \* history: sweeps begun since the client vanished

serverVars  == <<ready, admitted, counts, alive, evictTimer>>
historyVars == <<evicted, unanswered, blind>>
connVars    == <<ready, link, torn, admitted, counts, alive, evictTimer,
                 evicted, unanswered, blind>>

ReadyStates == {"new", "open", "closing", "closed"}
Pulses      == {"untracked", "fresh", "pinged"}

Bump(n) == IF n < HistoryCap THEN n + 1 ELSE n

ConnTypeOK ==
  /\ ready \in [Sockets -> ReadyStates]
  /\ link \in [Sockets -> {"up", "down"}]
  /\ torn \subseteq Sockets
  /\ admitted \subseteq Sockets
  /\ counts \in [Addresses -> Nat]
  /\ alive \in [Sockets -> Pulses]
  /\ evictTimer \subseteq Sockets
  /\ evicted \subseteq Sockets
  /\ unanswered \in [Sockets -> 0..HistoryCap]
  /\ blind \in [Sockets -> 0..HistoryCap]

ConnInit ==
  /\ ready = [s \in Sockets |-> "new"]
  /\ link = [s \in Sockets |-> "up"]
  /\ torn = {}
  /\ admitted = {}
  /\ counts = [a \in Addresses |-> 0]
  /\ alive = [s \in Sockets |-> "untracked"]
  /\ evictTimer = {}
  /\ evicted = {}
  /\ unanswered = [s \in Sockets |-> 0]
  /\ blind = [s \in Sockets |-> 0]

-----------------------------------------------------------------------------
(* wss 'connection': one slot per open socket and address.                 *)

Live(s)       == ready[s] \in {"open", "closing"}    \* a member of wss.clients
HasSlot(s)    == counts[IpOf[s]] < MaxPerIp          \* ConcurrencyLimiter.acquire

\* Past the cap: the slot is taken, the heartbeat tracks the socket, and the
\* message and close handlers are attached.
Admit(s) ==
  /\ ready[s] = "new" /\ HasSlot(s)
  /\ ready' = [ready EXCEPT ![s] = "open"]
  /\ admitted' = admitted \cup {s}
  /\ counts' = [counts EXCEPT ![IpOf[s]] = @ + 1]
  /\ alive' = [alive EXCEPT ![s] = "fresh"]
  /\ UNCHANGED <<link, torn, evictTimer, historyVars>>

\* Over the cap: closed with 1008; never tracked, never handled, holds no slot.
Reject(s) ==
  /\ ready[s] = "new" /\ ~HasSlot(s)
  /\ ready' = [ready EXCEPT ![s] = "closing"]
  /\ UNCHANGED <<link, torn, admitted, counts, alive, evictTimer, historyVars>>

-----------------------------------------------------------------------------
(* Signs of life.  ws emits frames until the transport is destroyed, also   *)
(* while the server side is already closing.                               *)

CanReceive(s) == Live(s) /\ link[s] = "up" /\ s \notin torn /\ s \in admitted

\* Wrong variant of MarkAlive: the call is forgotten, only pongs would count.
MarkNothing(s) == UNCHANGED alive

MarkAlive(s) ==
  alive' = [alive EXCEPT ![s] = IF @ = "untracked" THEN @ ELSE "fresh"]

\* What every inbound frame does before its handler looks at it.
Inbound(s) ==
  /\ CanReceive(s)
  /\ MarkAlive(s)
  /\ unanswered' = [unanswered EXCEPT ![s] = 0]
  /\ UNCHANGED <<link, torn, admitted, counts, blind>>

\* A pong, or a frame that changes nothing else (throttled, not JSON, unknown).
SignOfLife(s) ==
  /\ Inbound(s)
  /\ UNCHANGED <<ready, evictTimer, evicted>>

\* Wrong variants: a sweep that overlooks sockets already closing, and one that
\* pings without noting that it now waits for an answer.
SilentOpenSockets == {s \in Sockets : ready[s] = "open" /\ alive[s] = "pinged"}
ForgetfulPulse(s) == alive[s]

\* Heartbeat.sweep, on its interval: terminate what has been silent since the
\* previous sweep, ping the rest.
SilentSockets == {s \in Sockets : Live(s) /\ alive[s] = "pinged"}
SweptPulse(s) ==
  IF ~Live(s) THEN alive[s]
  ELSE IF alive[s] = "fresh" THEN "pinged" ELSE "untracked"

Sweep ==
  /\ Sweeping
  /\ \E s \in Sockets : Live(s) /\ alive[s] # "untracked"
  /\ torn' = torn \cup SilentSockets
  /\ ready' = [s \in Sockets |-> IF s \in SilentSockets THEN "closing" ELSE ready[s]]
  /\ alive' = [s \in Sockets |-> SweptPulse(s)]
  /\ unanswered' = [s \in Sockets |->
       IF Live(s) /\ alive[s] = "fresh" THEN Bump(unanswered[s]) ELSE unanswered[s]]
  /\ blind' = [s \in Sockets |->
       IF Live(s) /\ link[s] = "down" THEN Bump(blind[s]) ELSE blind[s]]
  /\ UNCHANGED <<link, admitted, counts, evictTimer, evicted>>

-----------------------------------------------------------------------------
(* Closing.                                                                *)

\* evict(): send 4000, and terminate after EVICT_TERMINATE_MS whatever happens.
BeginEvict(gone) ==
  /\ ready' = [s \in Sockets |->
       IF s \in gone /\ ready[s] = "open" THEN "closing" ELSE ready[s]]
  /\ evictTimer' = evictTimer \cup gone
  /\ evicted' = evicted \cup gone

\* A join on s that hands on a name held by the sockets in `gone`.
Takeover(s, gone) ==
  /\ Inbound(s)
  /\ gone \subseteq admitted \ {s} /\ \A w \in gone : Live(w)
  /\ BeginEvict(gone)

EvictTimeout(s) ==
  /\ s \in evictTimer
  /\ evictTimer' = evictTimer \ {s}
  /\ torn' = IF Live(s) THEN torn \cup {s} ELSE torn
  /\ UNCHANGED <<ready, link, admitted, counts, alive, historyVars>>

\* The client closes, or acknowledges the server's close frame.
ClientCloses(s) ==
  /\ Live(s) /\ link[s] = "up" /\ s \notin torn
  /\ ready' = [ready EXCEPT ![s] = "closing"]
  /\ torn' = torn \cup {s}
  /\ UNCHANGED <<link, admitted, counts, alive, evictTimer, historyVars>>

\* ws destroys a socket whose close handshake does not complete (30 s).
CloseTimeout(s) ==
  /\ ready[s] = "closing" /\ s \notin torn
  /\ torn' = torn \cup {s}
  /\ UNCHANGED <<ready, link, admitted, counts, alive, evictTimer, historyVars>>

\* The client vanishes without a FIN: lid closed, tether dropped.
Vanish(s) ==
  /\ s \in Fragile
  /\ Live(s) /\ link[s] = "up"
  /\ link' = [link EXCEPT ![s] = "down"]
  /\ UNCHANGED <<ready, torn, admitted, counts, alive, evictTimer, historyVars>>

\* Wrong variant of Release: the entry of a count of one is not deleted.
ReleaseButLast(a) == counts' = [counts EXCEPT ![a] = IF @ <= 1 THEN @ ELSE @ - 1]

\* ConcurrencyLimiter.release
Release(a) == counts' = [counts EXCEPT ![a] = IF @ <= 1 THEN 0 ELSE @ - 1]

\* The 'close' event: the release listener exists only on an admitted socket.
CloseEvent(s) ==
  /\ s \in torn
  /\ torn' = torn \ {s}
  /\ ready' = [ready EXCEPT ![s] = "closed"]
  /\ IF s \in admitted THEN Release(IpOf[s]) ELSE UNCHANGED counts
  /\ UNCHANGED <<link, admitted, alive, evictTimer, historyVars>>

-----------------------------------------------------------------------------

ConnNext ==
  \/ Sweep
  \/ \E s \in Sockets :
       \/ Admit(s)
       \/ Reject(s)
       \/ SignOfLife(s)
       \/ \E gone \in SUBSET Sockets : Takeover(s, gone)
       \/ EvictTimeout(s)
       \/ ClientCloses(s)
       \/ CloseTimeout(s)
       \/ Vanish(s)
       \/ CloseEvent(s)

ConnSpec == ConnInit /\ [][ConnNext]_connVars

\* setInterval and setTimeout fire while the process lives, and the event loop
\* delivers every due 'close' event.  Nothing is assumed of the clients, of the
\* network or of ws's own close timeout.
ConnFairness ==
  /\ WF_connVars(Sweep)
  /\ \A s \in Sockets : WF_connVars(EvictTimeout(s)) /\ WF_connVars(CloseEvent(s))

FairConnSpec == ConnSpec /\ ConnFairness

-----------------------------------------------------------------------------
(* Properties.                                                             *)

\* The slots an address holds are exactly its admitted connections that have
\* not emitted 'close': no path through reject, evict, reap or client close
\* leaks a slot or frees one twice, and the cap is never exceeded.
SlotsBalanced ==
  \A a \in Addresses :
    /\ counts[a] = Cardinality({s \in admitted : IpOf[s] = a /\ ready[s] # "closed"})
    /\ counts[a] <= MaxPerIp

\* "Detection takes one to two intervals" (heartbeat.ts): once a client has
\* vanished, the second sweep after that has destroyed its socket.
DetectedWithinTwoSweeps ==
  \A s \in admitted :
    Live(s) /\ blind[s] >= 2 => s \in torn

\* The sweep destroys no socket that has given a sign of life since it was last
\* pinged: a playing client, which streams coords, is never a false positive.
ReapsOnlySilent ==
  [][Sweep => \A s \in torn' \ torn : unanswered[s] > 0]_connVars

\* An evicted socket never waits on its client: once its timer has run the
\* transport is destroyed, half-open or not, sweep or no sweep, so it cannot sit
\* on a slot of a shared address for ws's own 30 s close timeout.
EvictionNeedsNoHandshake ==
  \A s \in evicted \ evictTimer : s \in torn \/ ready[s] = "closed"

\* A connection that will never speak again is noticed and destroyed in bounded time,
\* by the sweep if its client vanished, by evict's own timer if it was replaced.
SilenceIsNoticed == ConnTypeOK /\ DetectedWithinTwoSweeps /\ EvictionNeedsNoHandshake

=============================================================================
