------------------------------ MODULE Tracking ------------------------------
(***************************************************************************)
(* The tracker (services/tracking.ts, services/tracking-helpers.ts): finding *)
(* the player's own icon on the minimap, following it, and what it still     *)
(* vouches for once the icon is out of sight.                                *)
(*                                                                         *)
(* A place is a spot of the minimap as large as an icon, and Base the spots  *)
(* in a base.  A frame is the places where an icon is read as one of our     *)
(* team's, teammates' as the skin match has them left out (teal), and what   *)
(* lies where we last were.  Scores, pixels and distances are those of   *)
(* the frame, so any; they appear as the sets and flags that the decisions   *)
(* depend on.  What the classifier and the camera conclude over many frames  *)
(* is in LockEvidence; here it is one more reason to move.                   *)
(***************************************************************************)
EXTENDS Integers, FiniteSets

CONSTANTS
  Places, Base,
  ForcedHold, MaxOccluded, Grace, MaxStacked,   \* tracking-helpers.ts, in units
  Observe, Avoid, Warmup, WalkTime, Reject,     \* of the clock
  DisownAfter,                                  \* disownAfterSec
  MaxNow,                                       \* bound on the clock
  NoPlace, NoPoint

ASSUME TrackingAssumption ==
  /\ Base \subseteq Places
  /\ {ForcedHold, MaxOccluded, Grace, MaxStacked, Observe, Avoid, Warmup, WalkTime, Reject,
      MaxNow} \subseteq Nat
  /\ DisownAfter \in [{"no-match", "no-blobs"} -> Nat]
  /\ NoPlace \notin Places
  /\ NoPoint \notin [at : Places, ms : Int]

VARIABLES
  now,
  lock,      \* state, lastPosition, holdStart, holdReason, lastSeenPosition
  held,      \* lockedTickCount > 0
  cover,     \* the episode of our icon being covered or merged
  budget,    \* coverBudgetStart
  scan,      \* how to scan: from, lostAt, byReset, avoid, until, aside
  framed,    \* a frame was read in this unit of time
  ownAt,     \* history: when we last found our icon, or a pair it is in; Never
             \* once a unit passes without a frame, or start is called
  ride,      \* history: the first teammate cover since we were vouched for, or reset
  heeded     \* history: the last lock respected the user's RESET

vars == <<now, lock, held, cover, budget, scan, framed, ownAt, ride, heeded>>

Never == -1
Promise == INSTANCE TrackerPromise WITH trk <- lock

\* The clock starts at the end of the first warm-up.
NoCover == [by |-> "none", since |-> Never, seen |-> Never, cam |-> Never,
            partly |-> FALSE, stacked |-> FALSE, stackedSince |-> Never, wide |-> FALSE]
NoScan  == [from |-> -Warmup, lostAt |-> NoPlace, byReset |-> FALSE, avoid |-> NoPlace,
            until |-> Never, aside |-> {}]

Clock == 0..MaxNow \cup {Never}

\* One explanation at a time: while our icon is covered or merged there is no
\* hold, and while it is merged no cover.
TrackingTypeOK ==
  /\ now \in 0..MaxNow
  /\ lock \in [state : {"scanning", "locked", "dead"}, at : Places \cup {NoPlace},
               hold : Clock, reason : Promise!Reasons \cup {"none"}, seen : Promise!Sighting]
  /\ {held, framed, heeded} \subseteq BOOLEAN
  /\ cover \in [by : {"none", "enemy", "mate"}, since : Clock, seen : Clock, cam : Clock,
                partly : BOOLEAN, stacked : BOOLEAN, stackedSince : Clock, wide : BOOLEAN]
  /\ scan \in [from : -Warmup..MaxNow, lostAt : Places \cup {NoPlace}, byReset : BOOLEAN,
               avoid : Places \cup {NoPlace}, until : -1..MaxNow + Avoid, aside : SUBSET Places]
  /\ budget \in Clock /\ ownAt \in Clock /\ ride \in Clock
  /\ lock.state # "locked" => cover = NoCover /\ lock.hold = Never
  /\ cover.by # "none" \/ cover.stacked => lock.hold = Never /\ held
  /\ ~(cover.by # "none" /\ cover.stacked)

Init ==
  /\ now = 0
  /\ lock = Promise!FreshTracker
  /\ held = FALSE /\ cover = NoCover /\ budget = Never
  /\ scan = NoScan /\ framed = FALSE
  /\ ownAt = Never /\ ride = Never /\ heeded = TRUE

-----------------------------------------------------------------------------
(* setLastPosition, and what each way of losing or finding us resets.       *)

\* Frames held are counted from a lock on, so between locks there are none.
\* A sighting of our icon, or of one that hides it: not extrapolated, and not
\* a teammate's we ride on.
SeenAt(p) == Promise!Sighted(p, Never, "none")

Found   == ownAt' = now
Unfound == held' = FALSE /\ ownAt' = Never

\* lockOnBlob
LockOn(p, cand, cleared, s) ==
  /\ lock' = SeenAt(p)
  /\ held' = FALSE /\ cover' = NoCover
  /\ scan' = [NoScan EXCEPT !.from = now]
  /\ Found
  /\ heeded' = (s.byReset /\ p = s.avoid => cleared \/ cand = {p})
  /\ UNCHANGED <<budget, ride>>

\* acquireViaClassifier: a hold is left for the next frame to end.
Acquire(p, s, hold, reason) ==
  /\ lock' = Promise!Sighted(p, hold, reason)
  /\ held' = TRUE /\ cover' = NoCover
  /\ scan' = [s EXCEPT !.aside = {}]
  /\ Found
  /\ UNCHANGED <<budget, ride, heeded>>

\* Back to scanning from a lock, to look first where that was.
ScanNear(p, s, aside) ==
  /\ lock' = Promise!Scanning(lock)
  /\ cover' = NoCover
  /\ scan' = [s EXCEPT !.from = now, !.lostAt = p, !.byReset = FALSE, !.aside = aside]
  /\ Unfound /\ UNCHANGED <<heeded, ride>>

KeepScanning(s) ==
  /\ scan' = s
  /\ UNCHANGED <<lock, held, cover, budget, ownAt, ride, heeded>>

-----------------------------------------------------------------------------
(* A frame while scanning (handleScanning).                                 *)

\* beyondReach: further than we can have walked since; a base is within a recall.
Beyond(p, s, baseOk) ==
  /\ s.lostAt # NoPlace /\ p # s.lostAt /\ now - s.from < WalkTime
  /\ ~(baseOk /\ p \in Base)

\* The camera's favourite: not the icon reset away from, and, unless the user
\* asked for this scan, within reach.
ByCamera(cand, cleared, s) == \E p \in cand :
  /\ ~(p = s.avoid /\ (now < s.until \/ now < s.until - Avoid + Reject))
  /\ s.byReset \/ ~Beyond(p, s, TRUE)
  /\ LockOn(p, cand, cleared, s)

\* Wrong variant of SteersAway: only within the window after the RESET.
SteersAwayForAWhile(s) == s.avoid # NoPlace /\ now < s.until

\* A RESET of the user's own steers this whole scan; one the tracker survived
\* otherwise only the window after it.
SteersAway(s) == s.avoid # NoPlace /\ (now < s.until \/ s.byReset)

\* The best score among those within reach, or that the classifier is sure of;
\* having left out the icon reset away from, only on some evidence.
ByScore(cand, cleared, s, ruledOut) ==
  \/ /\ \A p \in cand : Beyond(p, s, FALSE)
     /\ KeepScanning(s)
  \/ \E p \in cand, evidence \in {"classifier", "path", "none"} :
       /\ evidence = "classifier" \/ ~Beyond(p, s, evidence = "path")
       /\ IF ruledOut /\ SteersAway(s) /\ evidence = "none"
            THEN KeepScanning(s) ELSE LockOn(p, cand, cleared, s)

Look(cand, cleared, s, ruledOut) ==
  \/ now - s.from < Warmup /\ KeepScanning(s)
  \/ /\ now - s.from >= Warmup
     /\ ByCamera(cand, cleared, s) \/ ByScore(cand, cleared, s, ruledOut)

\* cleared: the classifier vouches for the icon the user reset away from.
ScanningFrame(teal, s) ==
  \/ teal = {} /\ KeepScanning(s)
  \/ teal # {} /\ ~SteersAway(s) /\ Look(teal, FALSE, s, FALSE)
  \/ /\ teal # {} /\ SteersAway(s)
     /\ \* It walked away: a champion, and quite possibly us.
        \/ Look(teal, FALSE, [s EXCEPT !.avoid = NoPlace], FALSE)
        \/ now - (s.until - Avoid) < Observe /\ KeepScanning(s)
        \/ /\ now - (s.until - Avoid) >= Observe
           /\ \E cleared \in BOOLEAN :
                LET others == IF cleared THEN teal ELSE teal \ {s.avoid}
                IN IF others \in {{}, teal} THEN Look(teal, cleared, s, FALSE)
                                            ELSE Look(others, cleared, s, TRUE)

-----------------------------------------------------------------------------
(* A frame while locked (handleLocked).                                     *)

\* shouldForceReacquisition; whoever stands beside where we were is not us.
HoldTooLong == lock.hold # Never /\ now - lock.hold >= ForcedHold

GiveUp(teal, s) == \E near \in SUBSET teal :
  ScanNear(lock.at, s, s.aside \cup near) /\ UNCHANGED budget

\* dropTeammateLock
DropTeammate(s) == ScanNear(lock.at, s, s.aside) /\ UNCHANGED budget

BudgetLeft == budget = Never \/ now - budget < MaxOccluded

\* holdOccluded, under a teammate's icon at q: our position, but no sighting.
RideAt(q, s, c) ==
  /\ lock' = [lock EXCEPT !.at = q, !.hold = Never, !.reason = "none"]
  /\ held' = TRUE /\ cover' = c /\ scan' = s
  /\ ride' = IF ride = Never THEN now ELSE ride
  /\ UNCHANGED <<ownAt, heeded>>

\* The icon we follow is a teammate's.  With a camera locked on us (noteCameraOnUs)
\* and centred on it, ours is most likely under it (startTeammateCover).
OnTeammate(s) == \E centred \in BOOLEAN :
  IF centred /\ BudgetLeft
    THEN /\ RideAt(lock.at, s, [cover EXCEPT !.by = "mate", !.since = now, !.seen = now, !.cam = now])
         /\ budget' = IF budget = Never THEN now ELSE budget
    ELSE DropTeammate(s)

\* teammateCoverStep: as long as the camera says so, wherever that icon goes.
RideOn(teal, s) ==
  \/ DropTeammate(s)
  \/ /\ BudgetLeft
     /\ \/ \E q \in Places \ teal, read \in BOOLEAN :
             /\ read \/ now - cover.cam <= Grace
             /\ RideAt(q, s, [cover EXCEPT !.seen = now, !.cam = IF read THEN now ELSE @])
        \/ now - cover.seen <= Grace /\ RideAt(lock.at, s, cover)
     /\ UNCHANGED budget

\* Our icon is missing for the first frame.
FirstLost == lock.hold = Never /\ ~held

\* extrapolatePosition, from velocity; or, with other icons of our team in view
\* and one the classifier is sure enough of, Phase 2.  With none in view, and
\* nothing else readable or an enemy's icon on us, ours may still be there.
Lose(teal, s, c) ==
  LET hold == IF lock.hold = Never THEN now ELSE lock.hold
  IN \/ \E p \in teal : Acquire(p, s, hold, "no-match")
     \/ \E q \in Places, reason \in Promise!Reasons :
          /\ teal # {} \/ lock.reason = "no-match" => reason = "no-match"
          /\ lock' = [lock EXCEPT !.at = q, !.hold = hold, !.reason = reason]
          /\ held' = TRUE /\ cover' = c /\ scan' = s
          /\ UNCHANGED <<budget, ownAt, ride, heeded>>

\* Wrong variant of CoverStarts: also partway through a hold.
CoverStartsAnyTime(c) == c.since = Never /\ c.partly

\* An enemy's icon on ours explains its absence only from the first frame on,
\* once between sightings, and if ours was seen partly covered.
CoverStarts(c) == FirstLost /\ c.since = Never /\ c.partly

\* holdOccluded, under an enemy's: where it was when that began.
Under(s, c) ==
  /\ lock' = SeenAt(lock.at)
  /\ held' = TRUE /\ cover' = c /\ scan' = s
  /\ UNCHANGED <<budget, ownAt, ride, heeded>>

\* occlusionStep.  Alternatives that both apply are those of a frame with an
\* enemy's icon there and one without.
Covered(teal, s, c) ==
  \/ c.by = "none" /\ Lose(teal, s, c)
  \/ CoverStarts(c) /\ Under(s, [c EXCEPT !.by = "enemy", !.since = now, !.seen = now])
  \/ /\ c.by = "enemy"
     /\ IF now - c.since <= MaxOccluded
          THEN \/ Under(s, [c EXCEPT !.seen = now])
               \/ IF now - c.seen <= Grace THEN Under(s, c)
                                           ELSE Lose(teal, s, [c EXCEPT !.by = "none"])
          ELSE Lose(teal, s, [c EXCEPT !.by = "none"])
  \/ c.by = "mate" /\ RideOn(teal, s)

\* stackStep: our icon is in a merged blob of our team's, which we follow.  One
\* that has been wider than two icons is followed for so long only, and until
\* an icon leaves it.
Merged(s, c) == \E wide \in BOOLEAN, q \in Places :
  LET c1 == IF c.stacked THEN [c EXCEPT !.wide = @ \/ wide]
            ELSE [c EXCEPT !.stacked = TRUE, !.stackedSince = now, !.wide = wide]
  IN /\ c.stacked \/ (FirstLost /\ c.stackedSince = Never)
     /\ c1.wide => now - c1.stackedSince <= MaxStacked
     /\ lock' = SeenAt(q)
     /\ held' = TRUE /\ scan' = s
     /\ cover' = [c1 EXCEPT !.by = "none"]
     /\ IF c1.wide THEN UNCHANGED ownAt ELSE Found
     /\ UNCHANGED <<budget, ride, heeded>>

\* finalizeLockedFrame.
Follow(p, s) == \E partly, vouched \in BOOLEAN :
  /\ lock' = SeenAt(p)
  /\ held' = FALSE /\ scan' = s
  /\ cover' = [NoCover EXCEPT !.partly = partly]
  /\ budget' = IF vouched THEN Never ELSE budget
  /\ ride'   = IF vouched THEN Never ELSE ride
  /\ Found
  /\ UNCHANGED heeded

\* resolveStackExit: of a pair come apart, an icon on the teammate's side alone
\* is theirs.
Apart(teal, s) ==
  {[ours |-> teal, scan |-> s]} \cup
    {[ours |-> teal \ {p}, scan |-> [s EXCEPT !.aside = @ \cup {p}]] :
       p \in IF cover.stacked /\ lock.at \notin teal THEN teal ELSE {}}

Clean == lock.hold = Never /\ cover.by = "none" /\ ~cover.stacked

\* What is where we last were, a teammate's icon, a merged blob, an enemy's or
\* nothing, is told apart by the alternatives.
LockedFrame(teal, s) ==
  \/ HoldTooLong /\ GiveUp(teal, s)
  \/ ~HoldTooLong /\ Clean /\ lock.at \notin teal /\ OnTeammate(s)
  \/ /\ ~HoldTooLong
     /\ \* The classifier (wrongLockTarget) or the camera (cameraSwitch) says
        \* that another icon is ours.
        \/ \E p \in teal : Acquire(p, s, lock.hold, lock.reason)
        \/ lock.at \notin teal /\ Merged(s, cover)
        \/ \E left \in Apart(teal, s) :
             \/ \E p \in left.ours : Follow(p, left.scan)
             \/ lock.at \notin left.ours
                /\ Covered(left.ours, left.scan, [cover EXCEPT !.stacked = FALSE])

\* excludeBystanders: each is followed, lost, or released by the classifier or
\* a movement path.
Asides == {a \in SUBSET Places : Cardinality(a) <= Cardinality(scan.aside)}

\* processFrame.  While scanning, an icon called a teammate's is no candidate.
Frame ==
  /\ \E aside \in Asides :
     LET s == [scan EXCEPT !.aside = aside]
     IN \/ /\ lock.state = "scanning"
           /\ \E teal \in SUBSET (Places \ aside) : ScanningFrame(teal, s)
        \/ /\ lock.state = "locked"
           /\ \E teal \in SUBSET (Places \ aside) : LockedFrame(teal, s)
  /\ framed' = (lock'.state = "locked")
  /\ UNCHANGED now

-----------------------------------------------------------------------------
(* What the orchestrator calls.                                             *)

\* restartScan: the cover, the merged blob and the velocity are forgotten.
Forget(l, s) == lock' = l /\ scan' = s /\ cover' = NoCover
                  /\ framed' = FALSE /\ Unfound /\ UNCHANGED <<now, heeded>>

\* resetPosition: the user says the position is wrong.  Steers away from it,
\* and arms teammate covers again.
ResetPosition ==
  /\ lock.state # "dead"
  /\ LET was == IF lock.state = "locked" THEN lock.at ELSE NoPlace
     IN Forget([Promise!Scanning(lock) EXCEPT !.seen = NoPoint],
               [from |-> now, lostAt |-> was, byReset |-> was # NoPlace, avoid |-> was,
                until |-> now + Avoid, aside |-> {}])
  /\ budget' = Never /\ ride' = Never

\* rescan, for another player's RESET: from a clean lock only.
SharedReset ==
  /\ lock.state = "locked" /\ lock.hold = Never
  /\ cover.by = "none" /\ ~cover.stacked
  /\ Forget(Promise!Scanning(lock), [NoScan EXCEPT !.from = now, !.lostAt = lock.at])
  /\ UNCHANGED <<budget, ride>>

\* Wrong variant of OnDeath: at wherever the hold had drifted to.
OnDeathAdrift ==
  /\ lock.state # "dead"
  /\ Forget([state |-> "dead", at |-> IF lock.state = "locked" THEN lock.at ELSE NoPlace,
             hold |-> Never, reason |-> "none", seen |-> lock.seen], scan)
  /\ UNCHANGED <<budget, ride>>

OnDeath ==
  /\ lock.state # "dead"
  /\ Forget([state |-> "dead", hold |-> Never, reason |-> "none", seen |-> lock.seen,
             at |-> IF lock.state = "locked" THEN lock.seen.at ELSE NoPlace], scan)
  /\ UNCHANGED <<budget, ride>>

OnRespawn ==
  /\ lock.state = "dead"
  /\ Forget([lock EXCEPT !.state = "scanning", !.seen = NoPoint],
            [scan EXCEPT !.from = now, !.lostAt = NoPlace, !.byReset = FALSE, !.aside = {}])
  /\ budget' = Never /\ ride' = Never

\* setMinimapScaleFromConfig, setMinimapRegion: also while dead.
NewRegion ==
  /\ Forget([Promise!Scanning(lock) EXCEPT !.seen = NoPoint],
            [scan EXCEPT !.from = now, !.lostAt = NoPlace, !.byReset = FALSE, !.aside = {}])
  /\ UNCHANGED <<budget, ride>>

\* start, again: the user chose another scan rate.
Restart ==
  /\ lock' = [lock EXCEPT !.hold = Never, !.reason = "none"]
  /\ scan' = [scan EXCEPT !.from = now]
  /\ ownAt' = Never
  /\ UNCHANGED <<now, held, cover, budget, framed, ride, heeded>>

\* Time passes, with or without a frame: captures can fail for any while.
Pass ==
  /\ now < MaxNow
  /\ now' = now + 1 /\ framed' = FALSE
  /\ ownAt' = IF framed THEN ownAt ELSE Never
  /\ UNCHANGED <<lock, held, cover, budget, scan, ride, heeded>>

Next ==
  \/ Frame
  \/ ResetPosition \/ SharedReset \/ OnDeath \/ OnRespawn \/ NewRegion \/ Restart
  \/ Pass

Spec == Init /\ [][Next]_vars

-----------------------------------------------------------------------------
(* Properties.                                                              *)

\* The tracker keeps the promise the position tick is built on.
KeepsItsPromise == Promise!PromiseSpec

\* The orchestrator, which goes by the hold, vouches for our position.
Vouched ==
  lock.state = "locked" /\ (lock.hold # Never => now - lock.hold <= DisownAfter[lock.reason])

\* With frames coming in, a position is not vouched for much longer than a
\* cover, or a merged blob of several, may last once our icon is out of sight:
\* whatever explanations follow one another, they do not add up.
OutOfSightIsBounded ==
  Vouched /\ ownAt # Never =>
    now - ownAt <= (IF cover.stackedSince # Never THEN MaxStacked ELSE MaxOccluded)
                     + 2 + DisownAfter[IF lock.reason = "none" THEN "no-match" ELSE lock.reason]

\* All the teammate's icons we ride on, however often the lock is let go and
\* taken again in between, last no longer together than one cover may, until
\* the classifier vouches for us, we respawn, or the user resets.
RidesShareABudget ==
  cover.by = "mate" /\ framed => now - ride <= MaxOccluded

\* Neither kind of explanation for not seeing ourselves goes on for ever.
ExplanationsRunOut == TrackingTypeOK /\ OutOfSightIsBounded /\ RidesShareABudget

\* The icon the user reset away from, as long as it stands still, is taken back
\* only if the classifier vouches for it or no other is in view.
ResetIsHeeded == heeded
=============================================================================
