------------------------------ MODULE PeerLinks ------------------------------
(***************************************************************************)
(* How two players' clients get a voice connection between them: the       *)
(* AudioService of each (services/audio.ts), the orchestrator callbacks    *)
(* that drive it, the offer/answer state of each PeerConnection, and the   *)
(* signals the server relays between them.                                 *)
(*                                                                         *)
(* Building a connection awaits an ICE-server fetch, and making an offer or *)
(* an answer awaits WebRTC.  Every call suspended at such an await is a     *)
(* task, and tasks interleave with each other and with incoming messages.  *)
(*                                                                         *)
(* A link <<me, them>> is them seen from me.  The connection built by a     *)
(* claim bears the claim's id; a fresh id is one nothing refers to.         *)
(***************************************************************************)
EXTENDS Integers, Sequences, FiniteSets, SequencesExt

CONSTANTS
  Clients,        \* player names, ordered as the code compares them
  Ids,            \* claims, and the connections they build
  Offers,         \* tells one offer from another
  PendingCap,     \* MAX_PENDING_SIGNALS
  MaxIceRestarts, \* PeerConnection.MAX_ICE_RESTARTS
  MaxSessions,    \* bound: sessions ended
  MaxBlips,       \* bound: signaling connections lost
  MaxBreaks,      \* bound: media paths broken
  MaxFailures     \* bound: peer factories and first offers that fail

ASSUME PeerAssumption ==
  /\ Clients \subseteq Nat
  /\ Ids \subseteq Nat \ {0} /\ Offers \subseteq Nat \ {0}
  /\ PendingCap \in Nat \ {0} /\ MaxIceRestarts \in Nat
  /\ MaxSessions \in Nat /\ MaxBlips \in Nat /\ MaxBreaks \in Nat /\ MaxFailures \in Nat

VARIABLES
  active,     \* the clients in a session: their AudioService is not disposed
  up,         \* the clients whose signaling connection works
  present,    \* the clients the server has in the room
  peer,       \* link -> the connection in `peers`, or 0
  claim,      \* link -> the claim in `peerClaimIds` and `peerCreations`, or 0
  pending,    \* link -> `pendingSignals`
  pcs,        \* id -> the PeerConnection it built
  tasks,      \* calls suspended at an await
  channel,    \* <<from, to>> -> relayed messages on their way
  budget      \* what the bounds still allow

vars == <<active, up, present, peer, claim, pending, pcs, tasks, channel, budget>>

Links     == {l \in Clients \X Clients : l[1] # l[2]}
Rev(l)    == <<l[2], l[1]>>
Garbled   == -1       \* what a stale answer leaves the two ends agreeing on
Initiator(l) == l[1] < l[2]

Offer(o)     == [type |-> "offer", of |-> o]
Answer(o)    == [type |-> "answer", of |-> o]
Candidate(o) == [type |-> "candidate", of |-> o]
PeerLeft     == [type |-> "left", of |-> 0]
Signal       == [type : {"offer", "answer", "candidate"}, of : Offers] \cup {PeerLeft}

\* An RTCPeerConnection: the local offer awaiting its answer, the offer both
\* descriptions stem from, the exchanges whose remote candidates arrived.
PC == [open : BOOLEAN, offered : Offers \cup {0}, agreed : Offers \cup {0, Garbled},
       heard : SUBSET Offers, ice : {"new", "checking", "connected", "failed"},
       restarts : 0..MaxIceRestarts]
Shut   == [open |-> FALSE, offered |-> 0, agreed |-> 0, heard |-> {}, ice |-> "new",
           restarts |-> 0]
Opened == [Shut EXCEPT !.open = TRUE]

Kinds == {"create",    \* createPeer, in the ICE-server fetch
          "connect",   \* connectToPeer, waiting for the creation it claimed
          "await",     \* handleSignal with an offer, waiting for a creation
          "offer",     \* connectToPeer, in peer.createOffer
          "restart",   \* sendIceRestartOffer, in peer.createOffer
          "answer"}    \* handleSignal, in peer.handleOffer
Task(kind, l, id, o) == [kind |-> kind, link |-> l, id |-> id, of |-> o]
Answers == {"await", "answer"}     \* the calls that answer an offer

PeerTypeOK ==
  /\ active \subseteq Clients /\ up \subseteq Clients /\ present \subseteq Clients
  /\ peer \in [Links -> Ids \cup {0}]
  /\ claim \in [Links -> Ids \cup {0}]
  /\ pending \in [Links -> Seq(Signal)]
  /\ \A l \in Links : Len(pending[l]) <= PendingCap
  /\ pcs \in [Ids -> PC]
  /\ tasks \subseteq [kind : Kinds \ Answers, link : Links, id : Ids, of : {0}]
               \cup [kind : Answers, link : Links, id : Ids, of : Offers]
  /\ channel \in [Links -> Seq(Signal)]
  /\ budget \in [sessions : 0..MaxSessions, blips : 0..MaxBlips,
                 breaks : 0..MaxBreaks, failures : 0..MaxFailures]

Init ==
  /\ active = Clients /\ up = Clients /\ present = Clients
  /\ peer = [l \in Links |-> 0]
  /\ claim = [l \in Links |-> 0]
  /\ pending = [l \in Links |-> <<>>]
  /\ pcs = [i \in Ids |-> Shut]
  /\ tasks = {}
  /\ channel = [l \in Links |-> <<>>]
  /\ budget = [sessions |-> MaxSessions, blips |-> MaxBlips,
               breaks |-> MaxBreaks, failures |-> MaxFailures]

-----------------------------------------------------------------------------
(* Identities that are free, and the relay.                                *)

FreeIds == {i \in Ids : ~pcs[i].open /\ (\A l \in Links : claim[l] # i /\ peer[l] # i)
                        /\ \A t \in tasks : t.id # i}
Mentions(o) ==
  \/ \E l \in Links : \E m \in ToSet(channel[l]) \cup ToSet(pending[l]) : m.of = o
  \/ \E t \in tasks : t.of = o
  \/ \E i \in Ids : o \in {pcs[i].offered, pcs[i].agreed} \cup pcs[i].heard
FreshOffer == CHOOSE o \in Offers : ~Mentions(o)
CanOffer   == \E o \in Offers : ~Mentions(o)

\* sendSignal and the server's relay: a message needs both signaling
\* connections and its addressee in the room; otherwise it is dropped.
Relays(l) == l[1] \in up \cap active /\ l[2] \in up \cap present
Sent(l, msgs) == IF Relays(l) THEN [channel EXCEPT ![l] = @ \o msgs] ELSE channel

\* The server tells the others that c left.  What was on its way to c is kept
\* by Hear's guard from reaching a session that is over.
Leaving(c) ==
  [l \in Links |-> IF l[2] = c THEN <<>>
                   ELSE IF l[1] = c /\ c \in present /\ l[2] \in up \cap present
                   THEN Append(channel[l], PeerLeft) ELSE channel[l]]

Taken(l, m) == channel[Rev(l)] # <<>> /\ Head(channel[Rev(l)]) = m /\ l[1] \in up \cap active
Consume(l)  == channel' = [channel EXCEPT ![Rev(l)] = Tail(@)]

-----------------------------------------------------------------------------
(* ensurePeer: the slot is claimed before the fetch, so a second caller     *)
(* joins the creation in flight.                                           *)

Claim(l, waiter) ==
  LET i == CHOOSE i \in FreeIds : TRUE IN
  /\ FreeIds # {}
  /\ claim' = [claim EXCEPT ![l] = i]
  /\ tasks' = tasks \cup {Task("create", l, i, 0), [waiter EXCEPT !.id = i]}

\* handlePeerPosition -> connectToPeer.  A broadcast arrives whenever its
\* sender is in the room; one that finds a peer or a creation does nothing.
HearPosition(l) ==
  /\ l[1] \in up \cap active
  /\ l[2] \in up \cap present \/ channel[Rev(l)] # <<>>
  /\ peer[l] = 0 /\ claim[l] = 0
  /\ Claim(l, Task("connect", l, 0, 0))
  /\ UNCHANGED <<active, up, present, peer, pending, pcs, channel, budget>>

HearOffer(l, o) ==
  /\ Taken(l, Offer(o))
  /\ Consume(l)
  /\ \/ /\ peer[l] # 0
        /\ tasks' = tasks \cup {Task("answer", l, peer[l], o)}
        /\ UNCHANGED claim
     \/ /\ peer[l] = 0 /\ claim[l] # 0
        /\ tasks' = tasks \cup {Task("await", l, claim[l], o)}
        /\ UNCHANGED claim
     \/ /\ peer[l] = 0 /\ claim[l] = 0
        /\ Claim(l, Task("await", l, 0, o))
  /\ UNCHANGED <<active, up, present, peer, pending, pcs, budget>>

\* handleAnswer and addIceCandidate.  An answer nobody waits for is an
\* InvalidStateError and changes nothing; one to an earlier offer is accepted.
Apply(pc, m) ==
  CASE m.type = "candidate" -> [pc EXCEPT !.heard = @ \cup {m.of}]
    [] m.type = "answer" /\ pc.offered # 0 ->
         [pc EXCEPT !.agreed = IF m.of = pc.offered THEN m.of ELSE Garbled,
                    !.offered = 0, !.ice = "checking"]
    [] OTHER -> pc

\* A signal for a peer that does not exist yet is buffered, up to the cap.
HearSignal(l, m) ==
  /\ m.type \in {"answer", "candidate"}
  /\ Taken(l, m)
  /\ Consume(l)
  /\ IF peer[l] # 0
     THEN /\ pcs' = [pcs EXCEPT ![peer[l]] = Apply(@, m)]
          /\ UNCHANGED pending
     ELSE /\ pending' = [pending EXCEPT ![l] = IF Len(@) < PendingCap THEN Append(@, m) ELSE @]
          /\ UNCHANGED pcs
  /\ UNCHANGED <<active, up, present, peer, claim, tasks, budget>>

\* dropPeer: close, and forget everything kept under the name.
DropPeer(l) ==
  /\ pcs' = IF peer[l] = 0 THEN pcs ELSE [pcs EXCEPT ![peer[l]] = Shut]
  /\ peer' = [peer EXCEPT ![l] = 0]
  /\ claim' = [claim EXCEPT ![l] = 0]
  /\ pending' = [pending EXCEPT ![l] = <<>>]

\* Wrong variant of HearLeft: the connection to who left is kept.
HearLeftKeeping(l) ==
  /\ Taken(l, PeerLeft)
  /\ Consume(l)
  /\ UNCHANGED <<active, up, present, peer, claim, pending, pcs, tasks, budget>>

HearLeft(l) ==
  /\ Taken(l, PeerLeft)
  /\ Consume(l)
  /\ DropPeer(l)
  /\ UNCHANGED <<active, up, present, tasks, budget>>

-----------------------------------------------------------------------------
(* createPeer, after the fetch.                                            *)

\* Wrong variant of Unwanted: only the end of the session is looked for.
UnwantedAtEnd(t) == t.link[1] \notin active

Unwanted(t) == t.link[1] \notin active \/ claim[t.link] # t.id
Waiters(t)  == {w \in tasks : w.kind \in {"connect", "await"} /\ w.id = t.id}
Unclaimed(t) == IF claim[t.link] = t.id THEN [claim EXCEPT ![t.link] = 0] ELSE claim

\* flushPendingSignals, on a connection that has offered nothing yet: nothing on it
\* waits for an answer, so of what was buffered only the candidates tell.
Replayed(signals) ==
  [Opened EXCEPT !.heard = {m.of : m \in {s \in ToSet(signals) : s.type = "candidate"}}]

\* Wrong variant of Created: the buffer is replayed and not emptied.
CreatedKeepingBuffer(t) ==
  /\ t \in tasks /\ t.kind = "create" /\ ~Unwanted(t)
  /\ tasks' = tasks \ {t}
  /\ peer' = [peer EXCEPT ![t.link] = t.id]
  /\ pcs' = [pcs EXCEPT ![t.id] = Replayed(pending[t.link])]
  /\ claim' = Unclaimed(t)
  /\ UNCHANGED <<active, up, present, pending, channel, budget>>

\* The connection goes into `peers`, buffered signals are replayed on it, and
\* the claim is released.
Created(t) ==
  /\ t \in tasks /\ t.kind = "create" /\ ~Unwanted(t)
  /\ tasks' = tasks \ {t}
  /\ peer' = [peer EXCEPT ![t.link] = t.id]
  /\ pcs' = [pcs EXCEPT ![t.id] = Replayed(pending[t.link])]
  /\ pending' = [pending EXCEPT ![t.link] = <<>>]
  /\ claim' = Unclaimed(t)
  /\ UNCHANGED <<active, up, present, channel, budget>>

\* The peer left or the session ended meanwhile: the connection is closed and
\* whoever waited for it gives up.
Abandoned(t) ==
  /\ t \in tasks /\ t.kind = "create" /\ Unwanted(t)
  /\ tasks' = tasks \ ({t} \cup Waiters(t))
  /\ UNCHANGED <<active, up, present, peer, claim, pending, pcs, channel, budget>>

\* The factory rejects: the claim is released, the callers' offers are lost.
CreateFails(t) ==
  /\ t \in tasks /\ t.kind = "create" /\ budget.failures > 0
  /\ budget' = [budget EXCEPT !.failures = @ - 1]
  /\ tasks' = tasks \ ({t} \cup Waiters(t))
  /\ claim' = Unclaimed(t)
  /\ UNCHANGED <<active, up, present, peer, pending, pcs, channel>>

Ready(t) == t \in tasks /\ Task("create", t.link, t.id, 0) \notin tasks

\* The claiming caller goes on to offer, if that is its part and the connection
\* is still the one in `peers`.
ConnectResumes(t) ==
  /\ t.kind = "connect" /\ Ready(t)
  /\ tasks' = (tasks \ {t}) \cup
       (IF peer[t.link] = t.id /\ Initiator(t.link) THEN {[t EXCEPT !.kind = "offer"]} ELSE {})
  /\ UNCHANGED <<active, up, present, peer, claim, pending, pcs, channel, budget>>

AwaitResumes(t) ==
  /\ t.kind = "await" /\ Ready(t)
  /\ tasks' = (tasks \ {t}) \cup {[t EXCEPT !.kind = "answer"]}
  /\ UNCHANGED <<active, up, present, peer, claim, pending, pcs, channel, budget>>

-----------------------------------------------------------------------------
(* Offers and answers.  On a closed connection WebRTC refuses; that ends    *)
(* the call and changes nothing.  Candidates trickle out behind either.     *)

OfferMade(t) ==
  /\ t \in tasks /\ t.kind \in {"offer", "restart"}
  /\ tasks' = tasks \ {t}
  /\ IF pcs[t.id].open
     THEN /\ CanOffer
          /\ pcs' = [pcs EXCEPT ![t.id].offered = FreshOffer]
          /\ channel' = Sent(t.link, <<Offer(FreshOffer), Candidate(FreshOffer)>>)
     ELSE UNCHANGED <<pcs, channel>>
  /\ UNCHANGED <<active, up, present, peer, claim, pending, budget>>

\* A first offer that cannot be made drops the peer, so that the next position
\* broadcast starts over; a restart offer is only logged.
OfferFails(t) ==
  /\ t \in tasks /\ t.kind \in {"offer", "restart"}
  /\ pcs[t.id].open /\ budget.failures > 0
  /\ budget' = [budget EXCEPT !.failures = @ - 1]
  /\ tasks' = tasks \ {t}
  /\ IF t.kind = "offer" THEN DropPeer(t.link) ELSE UNCHANGED <<peer, claim, pending, pcs>>
  /\ UNCHANGED <<active, up, present, channel>>

AnswerMade(t) ==
  /\ t \in tasks /\ t.kind = "answer"
  /\ tasks' = tasks \ {t}
  /\ IF pcs[t.id].open
     THEN /\ pcs' = [pcs EXCEPT ![t.id] =
                       [@ EXCEPT !.agreed = t.of, !.offered = 0, !.ice = "checking"]]
          /\ channel' = Sent(t.link, <<Answer(t.of), Candidate(t.of)>>)
     ELSE UNCHANGED <<pcs, channel>>
  /\ UNCHANGED <<active, up, present, peer, claim, pending, budget>>

-----------------------------------------------------------------------------
(* ICE.  The two ends reach each other once they agree on one exchange and  *)
(* have each other's candidates.  It takes ICE longer to give up than it     *)
(* takes what is under way between the two to arrive.                       *)

Linked(l) ==
  LET near == pcs[peer[l]]  far == pcs[peer[Rev(l)]] IN
  /\ peer[l] # 0 /\ peer[Rev(l)] # 0
  /\ near.agreed \in near.heard \cap far.heard
  /\ near.agreed = far.agreed

Busy(l) == channel[l] # <<>> \/ \E t \in tasks : t.link = l

IceConnects(l) ==
  /\ Linked(l) /\ pcs[peer[l]].ice = "checking"
  /\ pcs' = [pcs EXCEPT ![peer[l]] = [@ EXCEPT !.ice = "connected", !.restarts = 0]]
  /\ UNCHANGED <<active, up, present, peer, claim, pending, tasks, channel, budget>>

Attempt(n) == IF n < MaxIceRestarts THEN n + 1 ELSE n

\* connectionState 'failed': within its budget, the initiator offers again.
IceFails(l) ==
  /\ peer[l] # 0 /\ pcs[peer[l]].ice \in {"checking", "connected"}
  /\ ~Linked(l) /\ ~Busy(l) /\ ~Busy(Rev(l))
  /\ pcs' = [pcs EXCEPT ![peer[l]] =
       [@ EXCEPT !.ice = "failed", !.restarts = Attempt(pcs[peer[l]].restarts)]]
  /\ tasks' = tasks \cup
       (IF Initiator(l) /\ pcs[peer[l]].restarts < MaxIceRestarts
        THEN {Task("restart", l, peer[l], 0)} ELSE {})
  /\ UNCHANGED <<active, up, present, peer, claim, pending, channel, budget>>

\* A path that carried voice breaks, for both: the known candidates are no good.
\* (One that fails time after time before it ever connects is given up on, after
\* MaxIceRestarts attempts.)
PathBreaks(l) ==
  /\ Linked(l) /\ budget.breaks > 0
  /\ pcs[peer[l]].ice = "connected" /\ pcs[peer[Rev(l)]].ice = "connected"
  /\ budget' = [budget EXCEPT !.breaks = @ - 1]
  /\ pcs' = [pcs EXCEPT ![peer[l]].heard = {}, ![peer[Rev(l)]].heard = {}]
  /\ UNCHANGED <<active, up, present, peer, claim, pending, tasks, channel>>

-----------------------------------------------------------------------------
(* Sessions and signaling connections.                                     *)

\* endSession: the room is left and the AudioService cleaned up.
EndSession(c) ==
  /\ c \in active /\ budget.sessions > 0
  /\ budget' = [budget EXCEPT !.sessions = @ - 1]
  /\ active' = active \ {c}
  /\ channel' = Leaving(c)
  /\ present' = present \ {c}
  /\ pcs' = [i \in Ids |-> IF \E l \in Links : l[1] = c /\ peer[l] = i THEN Shut ELSE pcs[i]]
  /\ peer' = [l \in Links |-> IF l[1] = c THEN 0 ELSE peer[l]]
  /\ claim' = [l \in Links |-> IF l[1] = c THEN 0 ELSE claim[l]]
  /\ pending' = [l \in Links |-> IF l[1] = c THEN <<>> ELSE pending[l]]
  /\ UNCHANGED <<up, tasks>>

\* startSession: a new AudioService, a new connection to the server.
StartSession(c) ==
  /\ c \notin active
  /\ active' = active \cup {c} /\ up' = up \cup {c} /\ present' = present \cup {c}
  /\ UNCHANGED <<peer, claim, pending, pcs, tasks, channel, budget>>

\* The signaling connection of c goes dead; nobody is told.
LinkDown(c) ==
  /\ c \in up \cap active /\ budget.blips > 0
  /\ budget' = [budget EXCEPT !.blips = @ - 1]
  /\ up' = up \ {c}
  /\ channel' = [l \in Links |-> IF l[2] = c THEN <<>> ELSE channel[l]]
  /\ UNCHANGED <<active, present, peer, claim, pending, pcs, tasks>>

\* The server closes the dead connection before c is back.
Noticed(c) ==
  /\ c \in present \ up
  /\ channel' = Leaving(c)
  /\ present' = present \ {c}
  /\ UNCHANGED <<active, up, peer, claim, pending, pcs, tasks, budget>>

\* c reconnects and joins again.  If the server still had it, this is a
\* takeover and the others hear nothing of it (peer_joined has no handler).
LinkUp(c) ==
  /\ c \in active \ up
  /\ up' = up \cup {c} /\ present' = present \cup {c}
  /\ UNCHANGED <<active, peer, claim, pending, pcs, tasks, channel, budget>>

-----------------------------------------------------------------------------

Incoming(l) ==
  \/ HearLeft(l)
  \/ \E o \in Offers : HearOffer(l, o) \/ HearSignal(l, Answer(o)) \/ HearSignal(l, Candidate(o))

Resume(t) ==
  \/ Created(t) \/ Abandoned(t)
  \/ ConnectResumes(t) \/ AwaitResumes(t)
  \/ OfferMade(t) \/ AnswerMade(t)

Next ==
  \/ \E l \in Links :
       HearPosition(l) \/ Incoming(l) \/ IceConnects(l) \/ IceFails(l) \/ PathBreaks(l)
  \/ \E t \in tasks : Resume(t) \/ CreateFails(t) \/ OfferFails(t)
  \/ \E c \in Clients :
       EndSession(c) \/ StartSession(c) \/ LinkDown(c) \/ Noticed(c) \/ LinkUp(c)

Spec == Init /\ [][Next]_vars

\* Awaited fetches and WebRTC calls come back, what is relayed arrives, position
\* broadcasts repeat every tick, and ICE reaches a verdict.  No session or
\* reconnect is ever forced, and nothing that breaks.
Fairness ==
  /\ \A l \in Links :
       /\ WF_vars(HearPosition(l)) /\ WF_vars(Incoming(l))
       /\ WF_vars(IceConnects(l)) /\ WF_vars(IceFails(l))
  /\ WF_vars(\E t \in tasks : Resume(t))

FairSpec == Spec /\ Fairness

-----------------------------------------------------------------------------
(* Properties.                                                             *)

\* "There is now exactly one connection per player no matter which side gets
\* there first" (CHANGELOG 0.5.9), and none leaks when a player leaves or the
\* game ends during its creation: every open connection is in `peers`.
OneConnectionEach == PeerTypeOK /\
  \A i \in Ids : pcs[i].open <=> \E l \in Links : l[1] \in active /\ peer[l] = i

\* A claim always has its creation running, never beside a finished peer: no
\* name is left with a claim that later callers would wait on for ever.
ClaimsAreServed ==
  \A l \in Links : claim[l] # 0 =>
    peer[l] = 0 /\ Task("create", l, claim[l], 0) \in tasks

\* Nothing is buffered behind a peer that exists, where it would only be
\* replayed into the next connection to that player.
NothingStrandedBehindPeer ==
  \A l \in Links : peer[l] # 0 => pending[l] = <<>>

\* No one waits for what is not coming: a claim has its creation, a signal its peer.
NothingStranded == ClaimsAreServed /\ NothingStrandedBehindPeer

Heard(l) == peer[l] # 0 /\ pcs[peer[l]].ice = "connected" /\ Linked(l)
Meeting(l) == {l[1], l[2]} \subseteq active \cap up

\* Two players in a room end up hearing each other, whatever order positions,
\* offers and creations come in, and however often either leaves and returns
\* or a media path that had connected breaks.
PairsConnect ==
  \A l \in Links : <>[]Meeting(l) => <>[]Heard(l)

\* CHANGELOG.md:165 "A reconnecting player no longer black-holes their own voice
\* chat": once a client is back in the room, the two hear each other.
ReconnectedIsHeard == PairsConnect

=============================================================================
