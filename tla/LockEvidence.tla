---------------------------- MODULE LockEvidence ----------------------------
(***************************************************************************)
(* The classifier's evidence that the tracker is locked on an icon that is  *)
(* not the player's (services/tracking.ts: updateClassifierScores,          *)
(* weighWrongLock; tracking-helpers.ts: nextWrongLockEvidence).  A run is   *)
(* started by a frame and lands some frames later, on whatever lock there   *)
(* is by then; Tracking has what else a frame does.                         *)
(*                                                                         *)
(* Spots are an icon apart, so an icon is near itself and the spots beside, *)
(* distinct from those further off, and still only on one spot.             *)
(***************************************************************************)
EXTENDS Integers, Sequences

CONSTANTS
  Spots,
  Runs,       \* WRONG_LOCK_RUNS
  MinAge,     \* WRONG_LOCK_MIN_MS, in half seconds, the least time between runs
  Stale,      \* WRONG_LOCK_STALE_MS
  NoSpot

ASSUME EvidenceAssumption ==
  Spots \subseteq Int /\ {Runs, MinAge, Stale} \subseteq Nat /\ Runs > 1

VARIABLES
  lockedOn,   \* the spot we are locked on, or NoSpot while scanning
  hidden,     \* "no", "held" or "covered"
  evidence,   \* wrongLock: anchor, best, runs, time since the first and the last
  target,     \* wrongLockTarget
  run,        \* the run in progress, or Idle
  rested,     \* half a second has passed since the last run started
  heard       \* history: the last runs of this lock, none since against leaving it
lockVars == <<lockedOn, hidden, evidence, target, run, rested, heard>>

None   == [anchor |-> NoSpot, best |-> NoSpot, runs |-> 0, age |-> 0, gap |-> 0]
Idle   == [icons |-> {}, best |-> NoSpot, clear |-> FALSE, mine |-> TRUE]
Apart(p, q) == IF p > q THEN p - q ELSE q - p
Near(p, q)  == q # NoSpot /\ Apart(p, q) <= 1

EvidenceInit ==
  /\ lockedOn = NoSpot /\ hidden = "no"
  /\ evidence = None /\ target = NoSpot
  /\ run = Idle /\ rested = TRUE
  /\ heard = <<>>

-----------------------------------------------------------------------------
(* Locks.                                                                  *)

\* Wrong variant of LocksOn: what was found out about the last lock stays.
LocksOnAsBefore(p) ==
  /\ lockedOn' = p /\ hidden' = "no"
  /\ UNCHANGED <<evidence, target>>
  /\ heard' = <<>>
\* lockOnBlob
LocksOn(p) ==
  /\ lockedOn' = p /\ hidden' = "no"
  /\ evidence' = None /\ target' = NoSpot
  /\ heard' = <<>>

\* acquireViaClassifier; it leaves a hold for the next frame to end.
Acquires(p) ==
  /\ lockedOn' = p /\ hidden' = "held"
  /\ evidence' = None /\ target' = NoSpot
  /\ heard' = <<>>

\* The hold ran out, or the icon is a teammate's: back to scanning, and what
\* was found out stays until the next lock.  Likewise a death and a respawn.
LetsGo ==
  /\ lockedOn' = NoSpot /\ hidden' = "no"
  /\ UNCHANGED <<evidence, target, heard>>

\* restartScan
Restarts ==
  /\ lockedOn' = NoSpot /\ hidden' = "no"
  /\ evidence' = None /\ target' = NoSpot
  /\ UNCHANGED <<run, rested, heard>>

-----------------------------------------------------------------------------
(* A frame showing these icons of our team.                                *)

Follows(icons) ==
  \/ \E p \in icons : Near(p, lockedOn) /\ lockedOn' = p /\ hidden' = "no"
  \/ hidden' \in {"held", "covered"} /\ UNCHANGED lockedOn

\* handleLocked, the lock kept: let go of first, or stay with it as covered by a
\* teammate's; then, nothing having been found out, follow the nearest.
Keeps(icons) ==
  \/ LetsGo
  \/ hidden' = "covered" /\ UNCHANGED <<lockedOn, evidence, target, heard>>
  \/ /\ target = NoSpot \/ {p \in icons : Near(p, target)} = {}
     /\ Follows(icons) /\ target' = NoSpot /\ UNCHANGED <<evidence, heard>>

\* To what the classifier found out, or else to a choice of its or the camera's.
Moves(icons) ==
  LET known == {p \in icons : Near(p, target)} IN
  \E p \in icons :
    /\ known # {} =>
         p \in known /\ \A q \in known : Apart(p, target) <= Apart(q, target)
    /\ Acquires(p)

KeepsScanning == UNCHANGED <<lockedOn, hidden, evidence, target, heard>>

\* processFrame: a run takes the frame's icons; one in progress may outlive its lock.
StartsRun(icons, newLock) ==
  IF icons # {} /\ run = Idle /\ rested
    THEN /\ \E best \in icons \cup {NoSpot}, clear \in BOOLEAN :
              run' = [icons |-> icons, best |-> best, clear |-> clear /\ best # NoSpot, mine |-> TRUE]
         /\ rested' = FALSE
    ELSE run' = [run EXCEPT !.mine = @ /\ (newLock => run = Idle)] /\ UNCHANGED rested

Frame(icons) ==
  \/ /\ IF lockedOn # NoSpot THEN Keeps(icons) ELSE KeepsScanning
     /\ StartsRun(icons, FALSE)
  \/ /\ IF lockedOn # NoSpot THEN Moves(icons) ELSE \E p \in icons : LocksOn(p)
     /\ StartsRun(icons, TRUE)

-----------------------------------------------------------------------------
(* A run's answer (weighWrongLock, nextWrongLockEvidence).                  *)

\* Normalised, the best icon of a run that says anything scores 1, and the
\* others clearly less or not.
Supports(p, r) == p # r.best /\ r.clear /\ ~Near(p, r.best)

Fresh == IF evidence.gap > Stale THEN None ELSE evidence

\* The same icon all along: the one followed still, the other no further off
\* than it can have walked.
Builds(p, r) ==
  IF Fresh.runs > 0 /\ p = Fresh.anchor /\ Near(r.best, Fresh.best)
    THEN [Fresh EXCEPT !.best = r.best, !.runs = @ + 1, !.gap = 0]
    ELSE [anchor |-> p, best |-> r.best, runs |-> 1, age |-> 0, gap |-> 0]

Enough(e) == e.runs >= Runs /\ e.age >= MinAge

Last(s) == IF Len(s) > Runs THEN Tail(s) ELSE s

Weighs(p, r) ==
  IF p = NoSpot \/ ~Supports(p, r)
    THEN evidence' = None /\ heard' = <<>> /\ UNCHANGED target
    ELSE /\ heard' = Last(Append(heard, [at |-> p, best |-> r.best, mine |-> r.mine]))
         /\ IF Enough(Builds(p, r))
              THEN evidence' = None /\ target' = r.best
              ELSE evidence' = Builds(p, r) /\ UNCHANGED target

Followed(r) == LET near == {p \in r.icons : Near(p, lockedOn)}
               IN {p \in near : \A q \in near : Apart(p, lockedOn) <= Apart(q, lockedOn)}

Lands ==
  /\ run # Idle
  /\ run' = Idle
  /\ IF lockedOn = NoSpot \/ hidden # "no"
       THEN UNCHANGED <<evidence, target, heard>>
     ELSE IF run.best = NoSpot
       THEN evidence' = Fresh /\ UNCHANGED <<target, heard>>
     ELSE IF Followed(run) = {}
       THEN Weighs(NoSpot, run)
     ELSE \E p \in Followed(run) : Weighs(p, run)
  /\ UNCHANGED <<lockedOn, hidden, rested>>

\* The classifier throws, and nothing is learnt.
Throws == run # Idle /\ run' = Idle /\ UNCHANGED <<lockedOn, hidden, evidence, target, rested, heard>>

Capped(n, most) == IF n < most THEN n + 1 ELSE n

HalfSecond ==
  /\ rested' = TRUE
  /\ evidence' = IF evidence.runs = 0 THEN None
                 ELSE [evidence EXCEPT !.age = Capped(@, MinAge), !.gap = Capped(@, Stale + 1)]
  /\ UNCHANGED <<lockedOn, hidden, target, run, heard>>

EvidenceNext ==
  \/ \E icons \in SUBSET Spots : Frame(icons)
  \/ Restarts
  \/ Lands
  \/ Throws
  \/ HalfSecond

EvidenceSpec == EvidenceInit /\ [][EvidenceNext]_lockVars

-----------------------------------------------------------------------------
\* "a confident wrong switch onto an ally is worse than staying put": the tracker
\* means to leave the icon it is locked on only once enough runs in a row, all weighed
\* in this very lock and at most the first of them started before it, found the same
\* still icon not to be ours and one other, moving no further than a champion walks,
\* to be.
SwitchedOnItsOwnEvidence ==
  lockedOn # NoSpot /\ target # NoSpot =>
    /\ Len(heard) = Runs
    /\ \A i \in 1..Runs :
         /\ heard[i].at = heard[1].at
         /\ i > 1 => heard[i].mine /\ Near(heard[i].best, heard[i - 1].best)

=============================================================================
