--------------------------- MODULE TrackerPromise ---------------------------
(***************************************************************************)
(* What the tracker (services/tracking.ts) promises the rest of the app: a   *)
(* state, a position, for how long and why it has been holding that, and     *)
(* where it last saw us.  PositionTick builds on this promise; Tracking is   *)
(* shown to keep it.                                                         *)
(***************************************************************************)
EXTENDS Integers

CONSTANTS
  Places,         \* map coordinates, as far as they are told apart
  ForcedHold,     \* FORCED_REACQUIRE_HOLD: when the tracker gives a hold up
  MaxNow,         \* bound on the clock
  NoPlace, NoPoint

Reasons == {"no-match", "no-blobs"}
Times   == 0..MaxNow
NoHold  == -1

ASSUME PromiseAssumption ==
  /\ ForcedHold \in Nat /\ MaxNow \in Nat
  /\ NoPlace \notin Places
  /\ NoPoint \notin [at : Places, ms : Int]

VARIABLES
  now,   \* performance.now() and Date.now(), which advance together
  trk    \* state, at, hold, reason, seen

Sighting == [at : Places, ms : Times] \cup {NoPoint}

FreshTracker == [state |-> "scanning", at |-> NoPlace, hold |-> NoHold, reason |-> "none",
                 seen |-> NoPoint]

HoldDuration == IF trk.hold = NoHold THEN 0 ELSE now - trk.hold

\* Scanning for us, not holding.
Scanning(t) == [t EXCEPT !.state = "scanning", !.hold = NoHold, !.reason = "none"]

\* Our icon was found, or seen to be under another: a lock, a frame of one, a
\* re-acquisition, which leaves the hold for the next frame to end.
Sighted(p, hold, reason) ==
  [state |-> "locked", at |-> p, hold |-> hold, reason |-> reason, seen |-> [at |-> p, ms |-> now]]

See == \E p \in Places :
  /\ trk.state \in {"scanning", "locked"}
  /\ \/ trk' = Sighted(p, NoHold, "none")
     \/ /\ trk.state = "locked"
        /\ \E r \in Reasons :
             trk' = Sighted(p, IF trk.hold = NoHold THEN now ELSE trk.hold, r)

\* It is under a teammate's, which we follow: not a sighting, and not a hold.
Ride == \E p \in Places :
  /\ trk.state = "locked" /\ trk.hold = NoHold
  /\ trk' = [trk EXCEPT !.at = p, !.hold = NoHold, !.reason = "none"]

\* It was lost; the position is extrapolated.  A hold once said to be for want
\* of a match stays one.
Hold == \E p \in Places, r \in Reasons :
  /\ trk.state = "locked"
  /\ trk.reason = "no-match" => r = "no-match"
  /\ trk' = [trk EXCEPT !.at = p, !.hold = IF @ = NoHold THEN now ELSE @, !.reason = r]

\* The hold went on for too long, the icon was a teammate's, or another
\* player's RESET (both from a lock without a hold).
Rescan ==
  /\ trk.state = "locked"
  /\ trk.hold = NoHold \/ HoldDuration >= ForcedHold
  /\ trk' = Scanning(trk)

\* resetPosition: the user says the position is wrong.
ResetPosition ==
  /\ trk.state # "dead"
  /\ trk' = [Scanning(trk) EXCEPT !.seen = NoPoint]

\* The minimap region changes, which restarts even a tracker that is dead.
NewRegion == trk' = [Scanning(trk) EXCEPT !.seen = NoPoint]

\* start, again, for another scan rate: a hold in progress is forgotten.
Restart == trk' = [trk EXCEPT !.hold = NoHold, !.reason = "none"]

\* onDeath: at the body, if the tracker knew where that is.
OnDeath ==
  /\ trk.state # "dead"
  /\ trk' = [state |-> "dead", hold |-> NoHold, reason |-> "none", seen |-> trk.seen,
              at |-> IF trk.state # "locked" THEN NoPlace
                     ELSE IF trk.seen # NoPoint THEN trk.seen.at ELSE trk.at]

OnRespawn ==
  /\ trk.state = "dead"
  /\ trk' = [trk EXCEPT !.state = "scanning", !.seen = NoPoint]

Move == See \/ Ride \/ Hold \/ Rescan \/ ResetPosition \/ NewRegion \/ Restart
          \/ OnDeath \/ OnRespawn

Pass == now' = now + 1

PromiseInit == now = 0 /\ trk = FreshTracker
PromiseNext ==
  \/ Move /\ UNCHANGED now
  \/ Pass /\ UNCHANGED trk
PromiseSpec == PromiseInit /\ [][PromiseNext]_<<now, trk>>
=============================================================================
