--------------------------- MODULE PeerLinksProofs ---------------------------
(***************************************************************************)
(* One connection each, whoever gets there first, and nobody left waiting:  *)
(* for any number of clients, connections, offers and calls in flight.      *)
(***************************************************************************)
EXTENDS PeerLinks, TLAPS

\* What every call in flight says of the link it is for: an id is one link's, and
\* the creation that bears it has built nothing yet.
Owners ==
  /\ \A l, k \in Links : peer[l] # 0 /\ peer[l] = peer[k] => l = k
  /\ \A t \in tasks : \A l \in Links : t.id \in {peer[l], claim[l]} => t.link = l
  /\ \A t, u \in tasks : t.id = u.id => t.link = u.link
  /\ \A t \in tasks : t.kind = "create" => peer[t.link] # t.id

\* Only a session has connections and claims, and what is open is in `peers`.
Kept ==
  /\ \A l \in Links : peer[l] # 0 \/ claim[l] # 0 => l[1] \in active
  /\ \A l \in Links : peer[l] # 0 => pcs[peer[l]].open
  /\ \A i \in Ids : pcs[i].open => \E l \in Links : peer[l] = i

LinkInv == PeerTypeOK /\ Owners /\ Kept /\ NothingStranded

-----------------------------------------------------------------------------
(* Types.                                                                    *)

Calls  == [kind : Kinds \ Answers, link : Links, id : Ids, of : {0}]
          \cup [kind : Answers, link : Links, id : Ids, of : Offers]
Wires  == [Links -> Seq(Signal)]
Budget == [sessions : 0..MaxSessions, blips : 0..MaxBlips,
           breaks : 0..MaxBreaks, failures : 0..MaxFailures]

LEMMA Numbers ==
  /\ 0 \notin Ids /\ 0 \notin Offers /\ Ids \subseteq Nat /\ Offers \subseteq Nat
  /\ PendingCap \in Nat /\ PendingCap > 0 /\ MaxIceRestarts \in Nat
  /\ MaxSessions \in Nat /\ MaxBlips \in Nat /\ MaxBreaks \in Nat /\ MaxFailures \in Nat
BY PeerAssumption

LEMMA LinksTurn ==
  ASSUME NEW l \in Links
  PROVE  Rev(l) \in Links /\ l \in Clients \X Clients
BY DEF Links, Rev

LEMMA Messages ==
  /\ PeerLeft \in Signal
  /\ \A o \in Offers : {Offer(o), Answer(o), Candidate(o)} \subseteq Signal
BY DEF Signal, PeerLeft, Offer, Answer, Candidate

LEMMA CallTypes ==
  ASSUME NEW l \in Links, NEW i \in Ids
  PROVE  /\ \A kind \in Kinds \ Answers : Task(kind, l, i, 0) \in Calls
         /\ \A kind \in Answers : \A o \in Offers : Task(kind, l, i, o) \in Calls
         /\ \A kind, o : /\ Task(kind, l, i, o).kind = kind /\ Task(kind, l, i, o).link = l
                         /\ Task(kind, l, i, o).id = i /\ Task(kind, l, i, o).of = o
BY DEF Calls, Task

LEMMA FreshOfferType == CanOffer => FreshOffer \in Offers
BY DEF CanOffer, FreshOffer

LEMMA SentType ==
  ASSUME channel \in Wires, NEW l \in Links, NEW msgs \in Seq(Signal)
  PROVE  Sent(l, msgs) \in Wires
<1>1. channel[l] \o msgs \in Seq(Signal)
  BY DEF Wires
<1>. QED BY <1>1 DEF Sent, Wires

LEMMA LeavingType ==
  ASSUME channel \in Wires, NEW c \in Clients
  PROVE  Leaving(c) \in Wires
<1>1. <<>> \in Seq(Signal) /\ \A l \in Links : Append(channel[l], PeerLeft) \in Seq(Signal)
  BY Messages DEF Wires
<1>. QED BY <1>1 DEF Leaving, Wires

LEMMA ConsumeType ==
  ASSUME channel \in Wires, NEW l \in Links, NEW m, Taken(l, m), Consume(l)
  PROVE  channel' \in Wires
<1>1. Tail(channel[Rev(l)]) \in Seq(Signal)
  BY LinksTurn DEF Taken, Wires
<1>. QED BY <1>1 DEF Consume, Wires

LEMMA ClaimType ==
  ASSUME PeerTypeOK, NEW l \in Links, NEW waiter, Claim(l, waiter),
         \A i \in Ids : [waiter EXCEPT !.id = i] \in Calls
  PROVE  claim' \in [Links -> Ids \cup {0}] /\ tasks' \subseteq Calls
<1> DEFINE i == CHOOSE i \in FreeIds : TRUE
<1>1. i \in Ids
  BY DEF Claim, FreeIds
<1>2. Task("create", l, i, 0) \in Calls
  BY <1>1, CallTypes DEF Kinds, Answers
<1>. QED BY <1>1, <1>2 DEF Claim, PeerTypeOK, Calls

\* What a step does to a connection leaves it one, and as open as it was.
LEMMA ChangedPC ==
  ASSUME NEW pc \in PC
  PROVE  /\ [pc EXCEPT !.heard = {}] \in PC /\ [pc EXCEPT !.heard = {}].open = pc.open
         /\ [pc EXCEPT !.ice = "connected", !.restarts = 0] \in PC
         /\ [pc EXCEPT !.ice = "connected", !.restarts = 0].open = pc.open
         /\ \A n \in 0..MaxIceRestarts :
              /\ [pc EXCEPT !.ice = "failed", !.restarts = n] \in PC
              /\ [pc EXCEPT !.ice = "failed", !.restarts = n].open = pc.open
         /\ \A o \in Offers :
              /\ [pc EXCEPT !.offered = o] \in PC /\ [pc EXCEPT !.offered = o].open = pc.open
              /\ [pc EXCEPT !.agreed = o, !.offered = 0, !.ice = "checking"] \in PC
              /\ [pc EXCEPT !.agreed = o, !.offered = 0, !.ice = "checking"].open = pc.open
<1>1. [pc EXCEPT !.heard = {}] \in PC /\ [pc EXCEPT !.heard = {}].open = pc.open
  BY DEF PC
<1>2. 0 \in 0..MaxIceRestarts
  BY Numbers
<1>3. /\ [pc EXCEPT !.ice = "connected", !.restarts = 0] \in PC
      /\ [pc EXCEPT !.ice = "connected", !.restarts = 0].open = pc.open
  BY <1>2 DEF PC
<1>4. ASSUME NEW n \in 0..MaxIceRestarts
      PROVE  /\ [pc EXCEPT !.ice = "failed", !.restarts = n] \in PC
             /\ [pc EXCEPT !.ice = "failed", !.restarts = n].open = pc.open
  BY <1>4 DEF PC
<1>5. ASSUME NEW o \in Offers
      PROVE  /\ [pc EXCEPT !.offered = o] \in PC /\ [pc EXCEPT !.offered = o].open = pc.open
             /\ [pc EXCEPT !.agreed = o, !.offered = 0, !.ice = "checking"] \in PC
             /\ [pc EXCEPT !.agreed = o, !.offered = 0, !.ice = "checking"].open = pc.open
  BY <1>5 DEF PC
<1>. QED BY <1>1, <1>3, <1>4, <1>5

LEMMA Spent ==
  ASSUME budget \in Budget
  PROVE  /\ budget.sessions > 0 => [budget EXCEPT !.sessions = @ - 1] \in Budget
         /\ budget.blips > 0 => [budget EXCEPT !.blips = @ - 1] \in Budget
         /\ budget.breaks > 0 => [budget EXCEPT !.breaks = @ - 1] \in Budget
         /\ budget.failures > 0 => [budget EXCEPT !.failures = @ - 1] \in Budget
<1>1. \A max \in Nat : \A n \in 0..max : n > 0 => n - 1 \in 0..max
  OBVIOUS
<1>2. /\ budget.sessions > 0 => budget.sessions - 1 \in 0..MaxSessions
      /\ budget.blips > 0 => budget.blips - 1 \in 0..MaxBlips
      /\ budget.breaks > 0 => budget.breaks - 1 \in 0..MaxBreaks
      /\ budget.failures > 0 => budget.failures - 1 \in 0..MaxFailures
  BY <1>1, Numbers DEF Budget
<1>. QED BY <1>2 DEF Budget

LEMMA ApplyType ==
  ASSUME NEW pc \in PC, NEW o \in Offers, NEW m \in {Answer(o), Candidate(o)}
  PROVE  Apply(pc, m) \in PC /\ Apply(pc, m).open = pc.open
<1>1. CASE m = Candidate(o)
  <2>1. Apply(pc, m) = [pc EXCEPT !.heard = @ \cup {o}]
    BY <1>1 DEF Apply, Candidate
  <2>. QED BY <2>1 DEF PC
<1>2. CASE m = Answer(o) /\ pc.offered # 0
  <2>1. Apply(pc, m) = [pc EXCEPT !.agreed = IF o = pc.offered THEN o ELSE Garbled,
                                  !.offered = 0, !.ice = "checking"]
    BY <1>2 DEF Apply, Answer
  <2>. QED BY <2>1 DEF PC
<1>3. CASE m = Answer(o) /\ pc.offered = 0
  BY <1>3 DEF Apply, Answer
<1>. QED BY <1>1, <1>2, <1>3

LEMMA OpenedType ==
  /\ Shut \in PC /\ ~Shut.open
  /\ \A s \in Seq(Signal) : Replayed(s) \in PC /\ Replayed(s).open
<1>1. Shut \in PC /\ ~Shut.open /\ Opened \in PC /\ Opened.open
  <2>1. Shut \in PC
    BY Numbers DEF Shut, PC
  <2>2. ~Shut.open
    BY DEF Shut
  <2>. QED BY <2>1, <2>2 DEF Opened, PC
<1>2. ASSUME NEW s \in Seq(Signal)
      PROVE  {m.of : m \in {n \in ToSet(s) : n.type = "candidate"}} \in SUBSET Offers
  BY DEF ToSet, Signal, PeerLeft
<1>. QED BY <1>1, <1>2 DEF Replayed, PC, Shut, Opened

LEMMA DropPeerType ==
  ASSUME PeerTypeOK, NEW l \in Links, DropPeer(l)
  PROVE  /\ pcs' \in [Ids -> PC] /\ peer' \in [Links -> Ids \cup {0}]
         /\ claim' \in [Links -> Ids \cup {0}]
         /\ pending' \in [Links -> Seq(Signal)]
         /\ \A k \in Links : Len(pending'[k]) <= PendingCap
<1>1. <<>> \in Seq(Signal) /\ Len(<<>>) = 0
  OBVIOUS
<1>. QED BY <1>1, OpenedType, Numbers DEF DropPeer, PeerTypeOK

LEMMA IncomingType ==
  ASSUME PeerTypeOK, NEW l \in Links, Incoming(l)
  PROVE  PeerTypeOK'
<1>1. channel \in Wires
  BY DEF PeerTypeOK, Wires
<1>2. CASE HearLeft(l)
  BY <1>1, <1>2, ConsumeType, DropPeerType DEF HearLeft, PeerTypeOK, Wires
<1>3. ASSUME NEW o \in Offers, HearOffer(l, o)
      PROVE  PeerTypeOK'
  <2>1. channel' \in Wires
    BY <1>1, <1>3, ConsumeType DEF HearOffer
  <2>2. claim' \in [Links -> Ids \cup {0}] /\ tasks' \subseteq Calls
    <3>1. CASE peer[l] # 0 /\ tasks' = tasks \cup {Task("answer", l, peer[l], o)} /\ UNCHANGED claim
      BY <3>1, CallTypes DEF PeerTypeOK, Answers, Calls
    <3>2. CASE claim[l] # 0 /\ tasks' = tasks \cup {Task("await", l, claim[l], o)}
            /\ UNCHANGED claim
      BY <3>2, CallTypes DEF PeerTypeOK, Answers, Calls
    <3>3. CASE Claim(l, Task("await", l, 0, o))
      <4>1. \A i \in Ids : [Task("await", l, 0, o) EXCEPT !.id = i] \in Calls
        BY DEF Task, Calls, Answers
      <4>. QED BY <3>3, <4>1, ClaimType
    <3>. QED BY <1>3, <3>1, <3>2, <3>3 DEF HearOffer
  <2>. QED BY <1>3, <2>1, <2>2 DEF HearOffer, PeerTypeOK, Calls, Wires
<1>4. ASSUME NEW o \in Offers, NEW m \in {Answer(o), Candidate(o)}, HearSignal(l, m)
      PROVE  PeerTypeOK'
  <2>1. channel' \in Wires
    BY <1>1, <1>4, ConsumeType DEF HearSignal
  <2>2. m \in Signal
    BY Messages
  <2>3. CASE peer[l] # 0
    <3>1. pcs' = [pcs EXCEPT ![peer[l]] = Apply(@, m)] /\ UNCHANGED pending
      BY <1>4, <2>3 DEF HearSignal
    <3>2. peer[l] \in Ids /\ Apply(pcs[peer[l]], m) \in PC
      BY <2>3, ApplyType DEF PeerTypeOK
    <3>. QED BY <1>4, <2>1, <3>1, <3>2 DEF HearSignal, PeerTypeOK, Wires
  <2>4. CASE peer[l] = 0
    <3>1. pending' = [pending EXCEPT ![l] = IF Len(@) < PendingCap THEN Append(@, m) ELSE @]
      BY <1>4, <2>4 DEF HearSignal
    <3>2. pending' \in [Links -> Seq(Signal)] /\ \A k \in Links : Len(pending'[k]) <= PendingCap
      BY <2>2, <3>1, Numbers DEF PeerTypeOK
    <3>. QED BY <1>4, <2>1, <2>4, <3>2 DEF HearSignal, PeerTypeOK, Wires
  <2>. QED BY <2>3, <2>4
<1>. QED BY <1>2, <1>3, <1>4 DEF Incoming

\* A broken path changes what two connections have heard, and no other.
LEMMA PathBreaksTo ==
  ASSUME PeerTypeOK, NEW l \in Links, PathBreaks(l)
  PROVE  pcs' \in [Ids -> PC] /\ \A i \in Ids : pcs'[i].open = pcs[i].open
<1> DEFINE Deaf(f, i) == [f EXCEPT ![i] = [@ EXCEPT !.heard = {}]]
<1>1. ASSUME NEW f \in [Ids -> PC], NEW i \in Ids
      PROVE  Deaf(f, i) \in [Ids -> PC] /\ \A j \in Ids : Deaf(f, i)[j].open = f[j].open
  BY ChangedPC
<1>2. peer[l] \in Ids /\ peer[Rev(l)] \in Ids /\ pcs \in [Ids -> PC]
  BY LinksTurn DEF PathBreaks, Linked, PeerTypeOK
<1>3. pcs' = Deaf(Deaf(pcs, peer[l]), peer[Rev(l)])
  BY DEF PathBreaks
<1> DEFINE near == Deaf(pcs, peer[l])
<1>4. near \in [Ids -> PC] /\ \A j \in Ids : near[j].open = pcs[j].open
  BY <1>1, <1>2
<1>. HIDE DEF near
<1>5. Deaf(near, peer[Rev(l)]) \in [Ids -> PC]
      /\ \A j \in Ids : Deaf(near, peer[Rev(l)])[j].open = near[j].open
  BY <1>1, <1>2, <1>4
<1>6. pcs' = Deaf(near, peer[Rev(l)])
  BY <1>3 DEF near
<1>. HIDE DEF Deaf
<1>. QED BY <1>4, <1>5, <1>6

LEMMA LinkStepType ==
  ASSUME PeerTypeOK, NEW l \in Links,
         HearPosition(l) \/ IceConnects(l) \/ IceFails(l) \/ PathBreaks(l)
  PROVE  PeerTypeOK'
<1>1. CASE HearPosition(l)
  <2>1. \A i \in Ids : [Task("connect", l, 0, 0) EXCEPT !.id = i] \in Calls
    BY DEF Task, Calls, Answers, Kinds
  <2>2. claim' \in [Links -> Ids \cup {0}] /\ tasks' \subseteq Calls
    BY <1>1, <2>1, ClaimType DEF HearPosition
  <2>. QED BY <1>1, <2>2 DEF HearPosition, PeerTypeOK, Calls
<1>2. CASE IceConnects(l)
  <2>1. 0 \in 0..MaxIceRestarts /\ peer[l] \in Ids
    BY <1>2, Numbers DEF IceConnects, Linked, PeerTypeOK
  <2>2. [pcs[peer[l]] EXCEPT !.ice = "connected", !.restarts = 0] \in PC
    BY <2>1, ChangedPC DEF PeerTypeOK
  <2>. QED BY <1>2, <2>2 DEF IceConnects, PeerTypeOK
<1>3. CASE IceFails(l)
  <2>1. peer[l] \in Ids /\ Attempt(pcs[peer[l]].restarts) \in 0..MaxIceRestarts
    BY <1>3, Numbers DEF IceFails, Attempt, PeerTypeOK, PC
  <2>2. [pcs[peer[l]] EXCEPT !.ice = "failed", !.restarts = Attempt(pcs[peer[l]].restarts)] \in PC
    BY <2>1, ChangedPC DEF PeerTypeOK
  <2>3. Task("restart", l, peer[l], 0) \in Calls
    BY <2>1, CallTypes DEF Kinds, Answers
  <2>. QED BY <1>3, <2>2, <2>3 DEF IceFails, PeerTypeOK, Calls
<1>4. CASE PathBreaks(l)
  <2>1. pcs' \in [Ids -> PC]
    BY <1>4, PathBreaksTo
  <2>2. budget' \in Budget
    BY <1>4, Spent DEF PathBreaks, PeerTypeOK, Budget
  <2>. QED BY <1>4, <2>1, <2>2 DEF PathBreaks, PeerTypeOK, Budget
<1>. QED BY <1>1, <1>2, <1>3, <1>4

LEMMA TaskStepType ==
  ASSUME PeerTypeOK, NEW t \in tasks, Resume(t) \/ CreateFails(t) \/ OfferFails(t)
  PROVE  PeerTypeOK'
<1>1. /\ t \in Calls /\ t.link \in Links /\ t.id \in Ids
      /\ t.kind = "answer" => t.of \in Offers
      /\ channel \in Wires
  BY DEF PeerTypeOK, Calls, Wires, Kinds, Answers
<1>2. Unclaimed(t) \in [Links -> Ids \cup {0}]
  BY DEF Unclaimed, PeerTypeOK
<1>3. CASE Created(t)
  <2>1. pending[t.link] \in Seq(Signal) /\ <<>> \in Seq(Signal) /\ Len(<<>>) = 0
    BY <1>1 DEF PeerTypeOK
  <2>2. pcs' \in [Ids -> PC] /\ peer' \in [Links -> Ids \cup {0}]
    BY <1>1, <1>3, <2>1, OpenedType DEF Created, PeerTypeOK
  <2>3. pending' \in [Links -> Seq(Signal)] /\ \A k \in Links : Len(pending'[k]) <= PendingCap
    BY <1>3, <2>1, Numbers DEF Created, PeerTypeOK
  <2>. QED BY <1>2, <1>3, <2>2, <2>3 DEF Created, PeerTypeOK
<1>4. CASE Abandoned(t)
  BY <1>4 DEF Abandoned, PeerTypeOK
<1>5. CASE ConnectResumes(t)
  <2>1. [t EXCEPT !.kind = "offer"] \in Calls
    BY <1>1, <1>5 DEF ConnectResumes, Calls, Kinds, Answers
  <2>. QED BY <1>5, <2>1 DEF ConnectResumes, PeerTypeOK, Calls
<1>6. CASE AwaitResumes(t)
  <2>1. [t EXCEPT !.kind = "answer"] \in Calls
    BY <1>1, <1>6 DEF AwaitResumes, Calls, Kinds, Answers
  <2>. QED BY <1>6, <2>1 DEF AwaitResumes, PeerTypeOK, Calls
<1>7. CASE OfferMade(t)
  <2>1. CASE pcs[t.id].open
    <3>1. FreshOffer \in Offers
      BY <1>7, <2>1, FreshOfferType DEF OfferMade
    <3>2. <<Offer(FreshOffer), Candidate(FreshOffer)>> \in Seq(Signal)
      BY <3>1, Messages
    <3>3. channel' \in Wires
      BY <1>1, <1>7, <2>1, <3>2, SentType DEF OfferMade
    <3>4. pcs' = [pcs EXCEPT ![t.id] = [@ EXCEPT !.offered = FreshOffer]]
      BY <1>1, <1>7, <2>1 DEF OfferMade
    <3>5. pcs' \in [Ids -> PC]
      BY <1>1, <3>1, <3>4, ChangedPC DEF PeerTypeOK
    <3>. QED BY <1>7, <3>3, <3>5 DEF OfferMade, PeerTypeOK, Wires
  <2>. QED BY <1>7, <2>1 DEF OfferMade, PeerTypeOK
<1>8. CASE AnswerMade(t)
  <2>1. CASE pcs[t.id].open
    <3>1. <<Answer(t.of), Candidate(t.of)>> \in Seq(Signal)
      BY <1>1, <1>8, Messages DEF AnswerMade
    <3>2. channel' \in Wires
      BY <1>1, <1>8, <2>1, <3>1, SentType DEF AnswerMade
    <3>3. pcs' = [pcs EXCEPT ![t.id] = [@ EXCEPT !.agreed = t.of, !.offered = 0,
                                                 !.ice = "checking"]]
      BY <1>8, <2>1 DEF AnswerMade
    <3>4. pcs' \in [Ids -> PC]
      BY <1>1, <1>8, <3>3, ChangedPC DEF AnswerMade, PeerTypeOK
    <3>. QED BY <1>8, <3>2, <3>4 DEF AnswerMade, PeerTypeOK, Wires
  <2>. QED BY <1>8, <2>1 DEF AnswerMade, PeerTypeOK
<1>9. CASE CreateFails(t)
  <2>1. budget' \in Budget
    BY <1>9, Spent DEF CreateFails, PeerTypeOK, Budget
  <2>. QED BY <1>2, <1>9, <2>1 DEF CreateFails, PeerTypeOK, Budget
<1>10. CASE OfferFails(t)
  <2>1. budget' \in Budget
    BY <1>10, Spent DEF OfferFails, PeerTypeOK, Budget
  <2>2. CASE t.kind = "offer"
    BY <1>1, <1>10, <2>1, <2>2, DropPeerType DEF OfferFails, PeerTypeOK, Budget
  <2>. QED BY <1>10, <2>1, <2>2 DEF OfferFails, PeerTypeOK, Budget
<1>. QED BY <1>3, <1>4, <1>5, <1>6, <1>7, <1>8, <1>9, <1>10 DEF Resume

LEMMA ClientStepType ==
  ASSUME PeerTypeOK, NEW c \in Clients,
         EndSession(c) \/ StartSession(c) \/ LinkDown(c) \/ Noticed(c) \/ LinkUp(c)
  PROVE  PeerTypeOK'
<1>1. channel \in Wires /\ Leaving(c) \in Wires /\ <<>> \in Seq(Signal) /\ Len(<<>>) = 0
  BY LeavingType DEF PeerTypeOK, Wires
<1>2. CASE EndSession(c)
  <2>1. budget' \in Budget
    BY <1>2, Spent DEF EndSession, PeerTypeOK, Budget
  <2>2. pcs' \in [Ids -> PC]
    BY <1>2, OpenedType DEF EndSession, PeerTypeOK
  <2>3. pending' \in [Links -> Seq(Signal)] /\ \A k \in Links : Len(pending'[k]) <= PendingCap
    BY <1>1, <1>2, Numbers DEF EndSession, PeerTypeOK
  <2>. QED BY <1>1, <1>2, <2>1, <2>2, <2>3 DEF EndSession, PeerTypeOK, Wires, Budget
<1>3. CASE StartSession(c)
  BY <1>3 DEF StartSession, PeerTypeOK
<1>4. CASE LinkDown(c)
  <2>1. budget' \in Budget
    BY <1>4, Spent DEF LinkDown, PeerTypeOK, Budget
  <2>. QED BY <1>1, <1>4, <2>1 DEF LinkDown, PeerTypeOK, Wires, Budget
<1>5. CASE Noticed(c)
  BY <1>1, <1>5 DEF Noticed, PeerTypeOK, Wires
<1>6. CASE LinkUp(c)
  BY <1>6 DEF LinkUp, PeerTypeOK
<1>. QED BY <1>2, <1>3, <1>4, <1>5, <1>6

LEMMA StepTypes == PeerTypeOK /\ [Next]_vars => PeerTypeOK'
<1>1. PeerTypeOK /\ UNCHANGED vars => PeerTypeOK'
  BY DEF vars, PeerTypeOK
<1>. QED BY <1>1, IncomingType, LinkStepType, TaskStepType, ClientStepType DEF Next

-----------------------------------------------------------------------------
(* The invariant.                                                            *)

\* A call about a connection that is already someone's: it owns nothing itself.
Backed(u) ==
  /\ u.kind # "create" /\ u.link \in Links /\ u.id \in Ids
  /\ \/ u.id \in {peer[u.link], claim[u.link]}
     \/ \E t \in tasks : t.id = u.id /\ t.link = u.link

\* A step that opens, closes, claims and releases nothing, and buffers nothing
\* behind a peer.
LEMMA QuietStep ==
  ASSUME LinkInv,
         UNCHANGED <<peer, claim>>, active \subseteq active',
         \A i \in Ids : pcs'[i].open = pcs[i].open,
         \A l \in Links : peer[l] # 0 => pending'[l] = pending[l],
         \A u \in tasks' \ tasks : Backed(u),
         \A t \in tasks : t.kind = "create" => t \in tasks'
  PROVE  Owners' /\ Kept' /\ NothingStranded'
<1>1. /\ peer \in [Links -> Ids \cup {0}] /\ claim \in [Links -> Ids \cup {0}]
      /\ tasks \subseteq Calls /\ 0 \notin Ids
      /\ \A t \in tasks : t.link \in Links /\ t.id \in Ids
  BY Numbers DEF LinkInv, PeerTypeOK, Calls
<1>2. \A l \in Links : claim[l] # 0 => \E t \in tasks : t.kind = "create" /\ t.id = claim[l]
  BY DEF LinkInv, NothingStranded, ClaimsAreServed, Task
<1>3. \A u \in tasks' : \E v : /\ v.link = u.link /\ v.id = u.id
                               /\ v \in tasks \/ (v.link \in Links /\ v.id = peer[v.link])
  <2>. SUFFICES ASSUME NEW u \in tasks', u \notin tasks
                PROVE  \E v : /\ v.link = u.link /\ v.id = u.id
                              /\ v \in tasks \/ (v.link \in Links /\ v.id = peer[v.link])
    OBVIOUS
  <2>1. CASE u.id = claim[u.link]
    <3>1. Task("create", u.link, claim[u.link], 0) \in tasks
      BY <1>1, <2>1 DEF LinkInv, NothingStranded, ClaimsAreServed, Backed
    <3>. QED BY <2>1, <3>1 DEF Task
  <2>. QED BY <2>1 DEF Backed
<1>4. \A u \in tasks' : u.link \in Links /\ u.id \in Ids
  BY <1>1, <1>3 DEF Backed
<1>5. \A l, k \in Links : peer'[l] # 0 /\ peer'[l] = peer'[k] => l = k
  BY DEF LinkInv, Owners
<1>6. \A u \in tasks' : \A l \in Links : u.id \in {peer'[l], claim'[l]} => u.link = l
  BY <1>1, <1>2, <1>3, <1>4 DEF LinkInv, Owners
<1>7. \A t, u \in tasks' : t.id = u.id => t.link = u.link
  BY <1>1, <1>3, <1>4 DEF LinkInv, Owners
<1>8. \A u \in tasks' : u.kind = "create" => peer'[u.link] # u.id
  BY DEF LinkInv, Owners, Backed
<1>9. Kept'
  BY <1>1 DEF LinkInv, Kept
<1>10. NothingStranded'
  <2>1. \A l, i, o : Task("create", l, i, o).kind = "create"
    BY DEF Task
  <2>2. ClaimsAreServed'
    BY <2>1 DEF LinkInv, NothingStranded, ClaimsAreServed
  <2>. QED BY <2>2 DEF LinkInv, NothingStranded, NothingStrandedBehindPeer
<1>. QED BY <1>5, <1>6, <1>7, <1>8, <1>9, <1>10 DEF Owners

\* A claim takes an id nothing bears and a link nobody serves.
LEMMA ClaimStep ==
  ASSUME LinkInv, NEW l \in Links, NEW waiter, Claim(l, waiter), l[1] \in active,
         peer[l] = 0, claim[l] = 0, waiter.kind \in {"connect", "await"}, waiter.link = l,
         DOMAIN waiter = {"kind", "link", "id", "of"},
         UNCHANGED <<active, peer, pending, pcs>>
  PROVE  Owners' /\ Kept' /\ NothingStranded'
<1> DEFINE i == CHOOSE i \in FreeIds : TRUE
           new == {Task("create", l, i, 0), [waiter EXCEPT !.id = i]}
<1>1. /\ i \in Ids /\ i # 0
      /\ \A k \in Links : claim[k] # i /\ peer[k] # i
      /\ \A t \in tasks : t.id # i
  BY Numbers DEF Claim, FreeIds
<1>2. claim' = [claim EXCEPT ![l] = i] /\ tasks' = tasks \cup new
  BY DEF Claim
<1>3. \A u \in new : u.id = i /\ u.link = l
  BY DEF Task
<1>4. /\ peer \in [Links -> Ids \cup {0}] /\ claim \in [Links -> Ids \cup {0}]
      /\ \A t \in tasks : t.link \in Links /\ t.id \in Ids
  BY DEF LinkInv, PeerTypeOK
<1>5. Task("create", l, i, 0) \in new
  OBVIOUS
<1>. HIDE DEF i, new
<1>6. \A l1, k \in Links : peer'[l1] # 0 /\ peer'[l1] = peer'[k] => l1 = k
  BY DEF LinkInv, Owners
<1>7. \A t \in tasks' : \A k \in Links : t.id \in {peer'[k], claim'[k]} => t.link = k
  BY <1>1, <1>2, <1>3, <1>4 DEF LinkInv, Owners
<1>8. \A t, u \in tasks' : t.id = u.id => t.link = u.link
  BY <1>1, <1>2, <1>3, <1>4 DEF LinkInv, Owners
<1>9. \A t \in tasks' : t.kind = "create" => peer'[t.link] # t.id
  BY <1>1, <1>2, <1>3, <1>4 DEF LinkInv, Owners
<1>10. Kept'
  BY <1>2, <1>4 DEF LinkInv, Kept
<1>11. ClaimsAreServed'
  BY <1>2, <1>4, <1>5 DEF LinkInv, NothingStranded, ClaimsAreServed
<1>12. NothingStrandedBehindPeer'
  BY DEF LinkInv, NothingStranded, NothingStrandedBehindPeer
<1>. QED BY <1>6, <1>7, <1>8, <1>9, <1>10, <1>11, <1>12 DEF Owners, NothingStranded

\* Dropping a peer closes what was open under its name, and nobody else's.
LEMMA DropStep ==
  ASSUME LinkInv, NEW l \in Links, DropPeer(l), UNCHANGED active, tasks' \subseteq tasks,
         \A t \in tasks : t.kind = "create" => t \in tasks'
  PROVE  Owners' /\ Kept' /\ NothingStranded'
<1>1. /\ peer \in [Links -> Ids \cup {0}] /\ claim \in [Links -> Ids \cup {0}] /\ 0 \notin Ids
      /\ pcs \in [Ids -> PC] /\ pending \in [Links -> Seq(Signal)]
      /\ \A t \in tasks : t.link \in Links /\ t.id \in Ids
  BY Numbers DEF LinkInv, PeerTypeOK
<1>2. /\ peer' = [peer EXCEPT ![l] = 0] /\ claim' = [claim EXCEPT ![l] = 0]
      /\ pending' = [pending EXCEPT ![l] = <<>>]
      /\ pcs' = IF peer[l] = 0 THEN pcs ELSE [pcs EXCEPT ![peer[l]] = Shut]
  BY DEF DropPeer
<1>3. Owners'
  BY <1>1, <1>2 DEF LinkInv, Owners
<1>4. Kept'
  <2>1. \A k \in Links : peer'[k] # 0 \/ claim'[k] # 0 => k[1] \in active'
    BY <1>1, <1>2 DEF LinkInv, Kept
  <2>2. \A k \in Links : peer'[k] # 0 => pcs'[peer'[k]].open
    BY <1>1, <1>2 DEF LinkInv, Kept, Owners
  <2>3. \A i \in Ids : pcs'[i].open => \E k \in Links : peer'[k] = i
    BY <1>1, <1>2, OpenedType DEF LinkInv, Kept
  <2>. QED BY <2>1, <2>2, <2>3 DEF Kept
<1>5. ClaimsAreServed'
  <2>1. \A k, i, o : Task("create", k, i, o).kind = "create"
    BY DEF Task
  <2>. QED BY <1>1, <1>2, <2>1 DEF LinkInv, NothingStranded, ClaimsAreServed
<1>6. NothingStrandedBehindPeer'
  BY <1>1, <1>2 DEF LinkInv, NothingStranded, NothingStrandedBehindPeer
<1>. QED BY <1>3, <1>4, <1>5, <1>6 DEF NothingStranded

\* A creation that is still wanted is the one its link's claim waits for.
LEMMA CreatedStep ==
  ASSUME LinkInv, NEW t, Created(t)
  PROVE  Owners' /\ Kept' /\ NothingStranded'
<1>1. /\ peer \in [Links -> Ids \cup {0}] /\ claim \in [Links -> Ids \cup {0}] /\ 0 \notin Ids
      /\ pcs \in [Ids -> PC] /\ pending \in [Links -> Seq(Signal)]
      /\ \A u \in tasks : u.link \in Links /\ u.id \in Ids
  BY Numbers DEF LinkInv, PeerTypeOK
<1> DEFINE l == t.link  i == t.id
<1>2. /\ t \in tasks /\ t.kind = "create" /\ l \in Links /\ i \in Ids /\ i # 0
      /\ l[1] \in active /\ claim[l] = i
  BY <1>1 DEF Created, Unwanted
<1>3. /\ peer' = [peer EXCEPT ![l] = i] /\ claim' = [claim EXCEPT ![l] = 0]
      /\ pending' = [pending EXCEPT ![l] = <<>>] /\ tasks' = tasks \ {t} /\ active' = active
      /\ pcs' = [pcs EXCEPT ![i] = Replayed(pending[l])]
  BY <1>2 DEF Created, Unclaimed
<1>4. Replayed(pending[l]).open
  BY <1>1, <1>2, OpenedType
<1>5. \A k \in Links : peer[k] # i
  BY <1>2 DEF LinkInv, Owners
<1>6. \A u \in tasks' : u.kind = "create" => u.id # i
  <2>. SUFFICES ASSUME NEW u \in tasks', u.kind = "create", u.id = i
                PROVE  FALSE
    OBVIOUS
  <2>1. u.link = l /\ u \in tasks
    BY <1>2, <1>3 DEF LinkInv, Owners
  <2>2. u \in Calls /\ t \in Calls
    BY <1>2, <2>1 DEF LinkInv, PeerTypeOK, Calls
  <2>3. u = t
    BY <1>2, <2>1, <2>2 DEF Calls, Answers
  <2>. QED BY <1>3, <2>3
<1>. HIDE DEF l, i
<1>7. \A k1, k2 \in Links : peer'[k1] # 0 /\ peer'[k1] = peer'[k2] => k1 = k2
  BY <1>1, <1>2, <1>3, <1>5 DEF LinkInv, Owners
<1>8. \A u \in tasks' : \A k \in Links : u.id \in {peer'[k], claim'[k]} => u.link = k
  BY <1>1, <1>2, <1>3 DEF LinkInv, Owners
<1>9. \A u, v \in tasks' : u.id = v.id => u.link = v.link
  BY <1>1, <1>3 DEF LinkInv, Owners
<1>10. \A u \in tasks' : u.kind = "create" => peer'[u.link] # u.id
  BY <1>1, <1>2, <1>3, <1>6 DEF LinkInv, Owners
<1>11. Kept'
  <2>1. \A k \in Links : peer'[k] # 0 \/ claim'[k] # 0 => k[1] \in active'
    BY <1>1, <1>2, <1>3 DEF LinkInv, Kept
  <2>2. \A k \in Links : peer'[k] # 0 => pcs'[peer'[k]].open
    BY <1>1, <1>2, <1>3, <1>4 DEF LinkInv, Kept
  <2>3. \A j \in Ids : pcs'[j].open => \E k \in Links : peer'[k] = j
    <3>. SUFFICES ASSUME NEW j \in Ids, j # i, pcs'[j].open
                  PROVE  \E k \in Links : peer'[k] = j
      BY <1>1, <1>2, <1>3
    <3>1. PICK k \in Links : peer[k] = j
      BY <1>1, <1>2, <1>3 DEF LinkInv, Kept
    <3>2. peer[l] = 0
      BY <1>2 DEF LinkInv, NothingStranded, ClaimsAreServed
    <3>. QED BY <1>1, <1>3, <3>1, <3>2
  <2>. QED BY <2>1, <2>2, <2>3 DEF Kept
<1>12. ClaimsAreServed'
  <2>. SUFFICES ASSUME NEW k \in Links, claim'[k] # 0
                PROVE  peer'[k] = 0 /\ Task("create", k, claim'[k], 0) \in tasks'
    BY DEF ClaimsAreServed
  <2>1. k # l /\ claim'[k] = claim[k]
    BY <1>1, <1>3
  <2>2. peer[k] = 0 /\ Task("create", k, claim[k], 0) \in tasks
    BY <2>1 DEF LinkInv, NothingStranded, ClaimsAreServed
  <2>3. Task("create", k, claim[k], 0) # t
    BY <2>1 DEF Task, l
  <2>. QED BY <1>1, <1>3, <2>1, <2>2, <2>3
<1>13. NothingStrandedBehindPeer'
  BY <1>1, <1>3 DEF LinkInv, NothingStranded, NothingStrandedBehindPeer
<1>. QED BY <1>7, <1>8, <1>9, <1>10, <1>11, <1>12, <1>13 DEF Owners, NothingStranded

\* A creation that comes to nothing takes its claim and its waiters with it.
LEMMA NotCreatedStep ==
  ASSUME LinkInv, NEW t, Abandoned(t) \/ CreateFails(t)
  PROVE  Owners' /\ Kept' /\ NothingStranded'
<1>1. /\ peer \in [Links -> Ids \cup {0}] /\ claim \in [Links -> Ids \cup {0}] /\ 0 \notin Ids
      /\ \A u \in tasks : u.link \in Links /\ u.id \in Ids
      /\ t \in tasks /\ t.kind = "create"
  BY Numbers DEF LinkInv, PeerTypeOK, Abandoned, CreateFails
<1>2. /\ tasks' = tasks \ ({t} \cup Waiters(t)) /\ claim' = Unclaimed(t)
      /\ UNCHANGED <<active, peer, pending, pcs>>
  <2>1. CASE Abandoned(t)
    <3>1. claim[t.link] # t.id
      <4>1. t.link[1] \notin active => claim[t.link] = 0
        BY <1>1 DEF LinkInv, Kept
      <4>. QED BY <1>1, <2>1, <4>1 DEF Abandoned, Unwanted
    <3>. QED BY <2>1, <3>1 DEF Abandoned, Unclaimed
  <2>2. CASE CreateFails(t)
    BY <2>2 DEF CreateFails
  <2>. QED BY <2>1, <2>2
<1>3. /\ claim' \in [Links -> Ids \cup {0}]
      /\ \A k \in Links : claim'[k] # 0 => claim'[k] = claim[k] /\ ~(k = t.link /\ claim[k] = t.id)
  BY <1>1, <1>2 DEF Unclaimed
<1>4. Owners'
  BY <1>1, <1>2, <1>3 DEF LinkInv, Owners
<1>5. Kept'
  BY <1>2, <1>3 DEF LinkInv, Kept
<1>6. ClaimsAreServed'
  <2>. SUFFICES ASSUME NEW k \in Links, claim'[k] # 0
                PROVE  peer'[k] = 0 /\ Task("create", k, claim'[k], 0) \in tasks'
    BY DEF ClaimsAreServed
  <2>1. peer[k] = 0 /\ Task("create", k, claim[k], 0) \in tasks
    BY <1>3 DEF LinkInv, NothingStranded, ClaimsAreServed
  <2>2. Task("create", k, claim[k], 0) # t
    BY <1>3 DEF Task
  <2>3. Task("create", k, claim[k], 0) \notin Waiters(t)
    BY DEF Task, Waiters
  <2>. QED BY <1>2, <1>3, <2>1, <2>2, <2>3
<1>7. NothingStrandedBehindPeer'
  BY <1>2 DEF LinkInv, NothingStranded, NothingStrandedBehindPeer
<1>. QED BY <1>4, <1>5, <1>6, <1>7 DEF NothingStranded

\* The end of a session closes all that was its own.
LEMMA EndSessionStep ==
  ASSUME LinkInv, NEW c \in Clients, EndSession(c)
  PROVE  Owners' /\ Kept' /\ NothingStranded'
<1>1. /\ peer \in [Links -> Ids \cup {0}] /\ claim \in [Links -> Ids \cup {0}] /\ 0 \notin Ids
      /\ \A u \in tasks : u.link \in Links /\ u.id \in Ids
  BY Numbers DEF LinkInv, PeerTypeOK
<1>2. /\ peer' = [l \in Links |-> IF l[1] = c THEN 0 ELSE peer[l]]
      /\ claim' = [l \in Links |-> IF l[1] = c THEN 0 ELSE claim[l]]
      /\ pending' = [l \in Links |-> IF l[1] = c THEN <<>> ELSE pending[l]]
      /\ tasks' = tasks /\ active' = active \ {c}
  BY DEF EndSession
<1>3. \A i \in Ids : pcs'[i] = IF \E l \in Links : l[1] = c /\ peer[l] = i THEN Shut ELSE pcs[i]
  BY DEF EndSession
<1>4. Owners'
  BY <1>1, <1>2 DEF LinkInv, Owners
<1>5. Kept'
  <2>1. \A k \in Links : peer'[k] # 0 \/ claim'[k] # 0 => k[1] \in active'
    BY <1>2 DEF LinkInv, Kept
  <2>2. \A k \in Links : peer'[k] # 0 => pcs'[peer'[k]].open
    BY <1>1, <1>2, <1>3 DEF LinkInv, Kept, Owners
  <2>3. \A i \in Ids : pcs'[i].open => \E k \in Links : peer'[k] = i
    BY <1>2, <1>3, OpenedType DEF LinkInv, Kept
  <2>. QED BY <2>1, <2>2, <2>3 DEF Kept
<1>6. ClaimsAreServed'
  BY <1>2 DEF LinkInv, NothingStranded, ClaimsAreServed
<1>7. NothingStrandedBehindPeer'
  BY <1>2 DEF LinkInv, NothingStranded, NothingStrandedBehindPeer
<1>. QED BY <1>4, <1>5, <1>6, <1>7 DEF NothingStranded

\* An open connection that a call holds is still its link's: which is why OfferFails
\* can drop the link's peer where the code first compares the two.
LEMMA HeldIsCurrent ==
  ASSUME LinkInv, NEW t \in tasks, pcs[t.id].open
  PROVE  peer[t.link] = t.id
<1>1. t.id \in Ids
  BY DEF LinkInv, PeerTypeOK
<1>2. PICK l \in Links : peer[l] = t.id
  BY <1>1 DEF LinkInv, Kept
<1>. QED BY <1>2 DEF LinkInv, Owners

LEMMA StepOwners == LinkInv /\ [Next]_vars => Owners' /\ Kept' /\ NothingStranded'
<1>. SUFFICES ASSUME LinkInv, [Next]_vars
              PROVE  Owners' /\ Kept' /\ NothingStranded'
  OBVIOUS
<1>1. /\ PeerTypeOK /\ peer \in [Links -> Ids \cup {0}] /\ claim \in [Links -> Ids \cup {0}]
      /\ pcs \in [Ids -> PC] /\ tasks \subseteq Calls
      /\ \A t \in tasks : t.link \in Links /\ t.id \in Ids
  BY DEF LinkInv, PeerTypeOK, Calls
<1>2. ASSUME NEW l \in Links, Incoming(l)
      PROVE  Owners' /\ Kept' /\ NothingStranded'
  <2>1. CASE HearLeft(l)
    BY <2>1, DropStep DEF HearLeft
  <2>2. ASSUME NEW o \in Offers, HearOffer(l, o)
        PROVE  Owners' /\ Kept' /\ NothingStranded'
    <3>1. l[1] \in active /\ UNCHANGED <<active, peer, pending, pcs>>
      BY <2>2 DEF HearOffer, Taken
    <3>2. CASE peer[l] # 0 /\ tasks' = tasks \cup {Task("answer", l, peer[l], o)} /\ UNCHANGED claim
      <4>1. Backed(Task("answer", l, peer[l], o))
        BY <1>1, <3>2, CallTypes DEF Backed
      <4>. QED BY <3>1, <3>2, <4>1, QuietStep
    <3>3. CASE claim[l] # 0 /\ tasks' = tasks \cup {Task("await", l, claim[l], o)}
            /\ UNCHANGED claim
      <4>1. Backed(Task("await", l, claim[l], o))
        BY <1>1, <3>3, CallTypes DEF Backed
      <4>. QED BY <3>1, <3>3, <4>1, QuietStep
    <3>4. CASE peer[l] = 0 /\ claim[l] = 0 /\ Claim(l, Task("await", l, 0, o))
      <4> DEFINE waiter == Task("await", l, 0, o)
      <4>1. waiter.kind = "await" /\ waiter.link = l /\ DOMAIN waiter = {"kind", "link", "id", "of"}
        BY DEF Task
      <4>. HIDE DEF waiter
      <4>. QED BY <3>1, <3>4, <4>1, ClaimStep DEF waiter
    <3>. QED BY <2>2, <3>2, <3>3, <3>4 DEF HearOffer
  <2>3. ASSUME NEW o \in Offers, NEW m \in {Answer(o), Candidate(o)}, HearSignal(l, m)
        PROVE  Owners' /\ Kept' /\ NothingStranded'
    <3>1. UNCHANGED <<active, peer, claim, tasks>>
      BY <2>3 DEF HearSignal
    <3>2. CASE peer[l] # 0
      <4>1. pcs' = [pcs EXCEPT ![peer[l]] = Apply(@, m)] /\ UNCHANGED pending
        BY <2>3, <3>2 DEF HearSignal
      <4>2. Apply(pcs[peer[l]], m).open = pcs[peer[l]].open /\ peer[l] \in Ids
        BY <1>1, <3>2, ApplyType
      <4>3. \A i \in Ids : pcs'[i].open = pcs[i].open
        BY <1>1, <4>1, <4>2
      <4>. QED BY <3>1, <4>1, <4>3, QuietStep
    <3>3. CASE peer[l] = 0
      <4>1. UNCHANGED pcs /\ \A k \in Links : k # l => pending'[k] = pending[k]
        BY <2>3, <3>3 DEF HearSignal, LinkInv, PeerTypeOK
      <4>. QED BY <3>1, <3>3, <4>1, QuietStep
    <3>. QED BY <3>2, <3>3
  <2>. QED BY <1>2, <2>1, <2>2, <2>3 DEF Incoming
<1>3. ASSUME NEW l \in Links, HearPosition(l)
      PROVE  Owners' /\ Kept' /\ NothingStranded'
  <2> DEFINE waiter == Task("connect", l, 0, 0)
  <2>1. waiter.kind = "connect" /\ waiter.link = l /\ DOMAIN waiter = {"kind", "link", "id", "of"}
    BY DEF Task
  <2>2. /\ l[1] \in active /\ peer[l] = 0 /\ claim[l] = 0 /\ Claim(l, waiter)
        /\ UNCHANGED <<active, peer, pending, pcs>>
    BY <1>3 DEF HearPosition
  <2>. HIDE DEF waiter
  <2>. QED BY <2>1, <2>2, ClaimStep
<1>4. ASSUME NEW l \in Links, IceConnects(l) \/ IceFails(l) \/ PathBreaks(l)
      PROVE  Owners' /\ Kept' /\ NothingStranded'
  <2>1. /\ UNCHANGED <<active, peer, claim, pending>> /\ tasks \subseteq tasks'
        /\ peer[l] \in Ids
    BY <1>1, <1>4 DEF IceConnects, IceFails, PathBreaks, Linked
  <2>2. \A u \in tasks' \ tasks : Backed(u)
    <3>1. Backed(Task("restart", l, peer[l], 0))
      BY <2>1, CallTypes DEF Backed
    <3>. QED BY <1>4, <3>1 DEF IceConnects, IceFails, PathBreaks
  <2>3. \A i \in Ids : pcs'[i].open = pcs[i].open
    <3>1. CASE IceConnects(l)
      BY <1>1, <2>1, <3>1, ChangedPC DEF IceConnects
    <3>2. CASE IceFails(l)
      <4> DEFINE n == Attempt(pcs[peer[l]].restarts)
      <4>1. pcs[peer[l]] \in PC /\ pcs[peer[l]].restarts \in 0..MaxIceRestarts
        BY <1>1, <2>1 DEF PC
      <4>2. n \in 0..MaxIceRestarts
        BY <4>1, Numbers DEF Attempt
      <4>3. pcs' = [pcs EXCEPT ![peer[l]] = [@ EXCEPT !.ice = "failed", !.restarts = n]]
        BY <3>2 DEF IceFails
      <4>. HIDE DEF n
      <4>4. [pcs[peer[l]] EXCEPT !.ice = "failed", !.restarts = n].open = pcs[peer[l]].open
        BY <4>1, <4>2, ChangedPC
      <4>. QED BY <1>1, <2>1, <4>3, <4>4
    <3>3. CASE PathBreaks(l)
      BY <1>1, <3>3, PathBreaksTo
    <3>. QED BY <1>4, <3>1, <3>2, <3>3
  <2>. QED BY <2>1, <2>2, <2>3, QuietStep
<1>5. ASSUME NEW t \in tasks, Created(t) \/ Abandoned(t) \/ CreateFails(t)
      PROVE  Owners' /\ Kept' /\ NothingStranded'
  BY <1>5, CreatedStep, NotCreatedStep
<1>6. ASSUME NEW t \in tasks, ConnectResumes(t) \/ AwaitResumes(t)
      PROVE  Owners' /\ Kept' /\ NothingStranded'
  <2>1. /\ UNCHANGED <<active, peer, claim, pending, pcs>> /\ t.kind # "create"
        /\ \A u \in tasks : u # t => u \in tasks'
        /\ tasks' \subseteq tasks \cup {[t EXCEPT !.kind = "offer"], [t EXCEPT !.kind = "answer"]}
    BY <1>6 DEF ConnectResumes, AwaitResumes
  <2>2. ASSUME NEW k \in {"offer", "answer"} PROVE Backed([t EXCEPT !.kind = k])
    <3>1. /\ [t EXCEPT !.kind = k].kind = k /\ [t EXCEPT !.kind = k].link = t.link
          /\ [t EXCEPT !.kind = k].id = t.id
      BY <1>1 DEF Calls
    <3>. QED BY <1>1, <3>1 DEF Backed
  <2>. QED BY <2>1, <2>2, QuietStep
<1>7. ASSUME NEW t \in tasks, OfferMade(t) \/ AnswerMade(t)
      PROVE  Owners' /\ Kept' /\ NothingStranded'
  <2>1. /\ UNCHANGED <<active, peer, claim, pending>> /\ t.kind # "create"
        /\ tasks' = tasks \ {t}
    BY <1>7 DEF OfferMade, AnswerMade
  <2>2. \A i \in Ids : pcs'[i].open = pcs[i].open
    <3>1. CASE OfferMade(t) /\ pcs[t.id].open
      <4>1. FreshOffer \in Offers
        BY <3>1, FreshOfferType DEF OfferMade
      <4>2. pcs' = [pcs EXCEPT ![t.id] = [@ EXCEPT !.offered = FreshOffer]]
        BY <3>1 DEF OfferMade
      <4>3. t.id \in Ids /\ pcs[t.id] \in PC
        BY <1>1
      <4>4. [pcs[t.id] EXCEPT !.offered = FreshOffer].open = pcs[t.id].open
        BY <4>1, <4>3, ChangedPC
      <4>. QED BY <1>1, <4>2, <4>3, <4>4
    <3>2. CASE AnswerMade(t) /\ pcs[t.id].open
      <4>1. t.of \in Offers
        BY <1>1, <3>2 DEF AnswerMade, Calls, Answers
      <4>2. pcs' = [pcs EXCEPT ![t.id] = [@ EXCEPT !.agreed = t.of, !.offered = 0,
                                                   !.ice = "checking"]]
        BY <3>2 DEF AnswerMade
      <4>3. t.id \in Ids /\ pcs[t.id] \in PC
        BY <1>1
      <4>4. [pcs[t.id] EXCEPT !.agreed = t.of, !.offered = 0, !.ice = "checking"].open
              = pcs[t.id].open
        BY <4>1, <4>3, ChangedPC
      <4>. QED BY <1>1, <4>2, <4>3, <4>4
    <3>. QED BY <1>7, <3>1, <3>2 DEF OfferMade, AnswerMade
  <2>. QED BY <2>1, <2>2, QuietStep
<1>8. ASSUME NEW t \in tasks, OfferFails(t)
      PROVE  Owners' /\ Kept' /\ NothingStranded'
  <2>1. UNCHANGED active /\ t.kind # "create" /\ tasks' = tasks \ {t}
    BY <1>8 DEF OfferFails
  <2>2. CASE DropPeer(t.link)
    BY <1>1, <2>1, <2>2, DropStep
  <2>3. CASE UNCHANGED <<peer, claim, pending, pcs>>
    BY <2>1, <2>3, QuietStep
  <2>. QED BY <1>8, <2>2, <2>3 DEF OfferFails
<1>9. ASSUME NEW c \in Clients,
             EndSession(c) \/ StartSession(c) \/ LinkDown(c) \/ Noticed(c) \/ LinkUp(c)
      PROVE  Owners' /\ Kept' /\ NothingStranded'
  <2>1. CASE EndSession(c)
    BY <2>1, EndSessionStep
  <2>2. CASE StartSession(c) \/ LinkDown(c) \/ Noticed(c) \/ LinkUp(c)
    <3>1. UNCHANGED <<peer, claim, pending, pcs, tasks>> /\ active \subseteq active'
      BY <2>2 DEF StartSession, LinkDown, Noticed, LinkUp
    <3>. QED BY <3>1, QuietStep
  <2>. QED BY <1>9, <2>1, <2>2
<1>10. CASE UNCHANGED vars
  BY <1>10, QuietStep DEF vars
<1>. QED BY <1>2, <1>3, <1>4, <1>5, <1>6, <1>7, <1>8, <1>9, <1>10 DEF Next, Resume

LEMMA InitLinks == Init => LinkInv
<1>. SUFFICES ASSUME Init PROVE LinkInv
  OBVIOUS
<1>1. <<>> \in Seq(Signal) /\ Len(<<>>) = 0
  OBVIOUS
<1>2. budget \in Budget
  BY Numbers DEF Init, Budget
<1>3. PeerTypeOK
  BY <1>1, <1>2, Numbers, OpenedType DEF Init, PeerTypeOK, Budget
<1>4. Owners /\ Kept /\ NothingStranded
  BY <1>1, OpenedType DEF Init, Owners, Kept, NothingStranded, ClaimsAreServed,
                          NothingStrandedBehindPeer
<1>. QED BY <1>3, <1>4 DEF LinkInv

\* Whatever order positions, offers, creations, leaves and failures come in, the
\* connections keep their one owner each.
THEOREM LinksKeep == Spec => []LinkInv
<1>1. LinkInv /\ [Next]_vars => LinkInv'
  BY StepTypes, StepOwners DEF LinkInv
<1>. QED BY InitLinks, <1>1, PTL DEF Spec

-----------------------------------------------------------------------------

\* AudioService builds exactly one connection per player however many callers
\* race, and every open connection is one that dropPeer or cleanup will close.
THEOREM OneConnectionPerPlayer == Spec => []OneConnectionEach
<1>1. LinkInv => OneConnectionEach
  <2>. SUFFICES ASSUME LinkInv, NEW i \in Ids
                PROVE  pcs[i].open <=> \E l \in Links : l[1] \in active /\ peer[l] = i
    BY DEF LinkInv, OneConnectionEach
  <2>1. i # 0
    BY Numbers
  <2>. QED BY <2>1 DEF LinkInv, Kept
<1>. QED BY LinksKeep, <1>1, PTL

\* A caller that finds a claim in ensurePeer waits for a creation that is running,
\* and what handleSignal buffered is not left behind by the peer it was for.
THEOREM NobodyIsStranded == Spec => []NothingStranded
<1>1. LinkInv => NothingStranded
  BY DEF LinkInv
<1>. QED BY LinksKeep, <1>1, PTL

=============================================================================
