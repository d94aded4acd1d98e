------------------------------- MODULE Jitter -------------------------------
(***************************************************************************)
(* The jitter buffer between the page's chunks of the voice mix and the    *)
(* device's callbacks (src-tauri/audio_out.rs), by the number of samples   *)
(* it holds.  The two run on clocks of their own.                          *)
(***************************************************************************)
EXTENDS Integers

CONSTANTS
  Target,   \* samples in TARGET_MS
  Most,     \* samples in MAX_MS
  Chunk,    \* samples a callback asks for
  Burst     \* bound: the most samples a page that stalled sends at once

ASSUME JitterAssumption ==
  /\ {Target, Most, Chunk, Burst} \subseteq Nat \ {0}
  /\ Most >= 2 * Target + Chunk + 1     \* 40 ms, 250 ms and a callback of about 10

VARIABLES
  held,      \* samples in the buffer
  playing,
  since,     \* samples sent since the device last asked
  calm       \* the page has kept up: no burst since the buffer was last down to 2 Target
jitterVars == <<held, playing, since, calm>>

JitterInit == held = 0 /\ playing = FALSE /\ since = 0 /\ calm = TRUE

\* Jitter::push.
Pushed(n) == IF held + n > Most THEN Target ELSE held + n

\* A page whose clock runs up to a sample per callback fast.
Push(n) ==
  /\ since + n <= Chunk + 1
  /\ held' = Pushed(n)
  /\ since' = since + n
  /\ UNCHANGED <<playing, calm>>

\* "The page stalled, then caught up all at once."
PushBurst(n) ==
  /\ held' = Pushed(n)
  /\ since' = 0
  /\ calm' = FALSE
  /\ UNCHANGED playing

\* Wrong variant of Trimmed: only a full buffer is trimmed.
TrimmedWhenFull == IF held > Most THEN held - 1 ELSE held
\* "Holding much more than the target means the page's clock runs a little fast
\* against the device's: skip one sample this callback."
Trimmed == IF held > 2 * Target + Chunk THEN held - 1 ELSE held

\* Jitter::pull, before playing starts or resumes: silence.
PullSilence ==
  /\ ~playing /\ held < Target
  /\ since' = 0 /\ calm' = (calm \/ held <= 2 * Target)
  /\ UNCHANGED <<held, playing>>

\* Jitter::pull: a callback's worth, or what there is and then silence and a refill.
Pull ==
  /\ playing \/ held >= Target
  /\ playing' = (Trimmed >= Chunk)
  /\ held' = IF Trimmed >= Chunk THEN Trimmed - Chunk ELSE 0
  /\ since' = 0 /\ calm' = (calm \/ held' <= 2 * Target)

\* Jitter::clear, Jitter::new: the output stops, or opens on another device.
Clear == held' = 0 /\ playing' = FALSE /\ since' = 0 /\ calm' = TRUE

JitterNext ==
  \/ \E n \in 1..(Chunk + 1) : Push(n)
  \/ \E n \in 1..Burst : PushBurst(n)
  \/ PullSilence \/ Pull \/ Clear

JitterSpec == JitterInit /\ [][JitterNext]_jitterVars

-----------------------------------------------------------------------------
JitterTypeOK == held \in Nat /\ playing \in BOOLEAN /\ since \in Nat /\ calm \in BOOLEAN

\* "so the two clocks ... never drift into a growing delay": the buffer never holds
\* more than MAX_MS, and while the page keeps up, however long its clock runs fast,
\* never more than twice the target and what came since the last callback.
DelayIsBounded == held <= Most /\ (calm => held <= 2 * Target + since)

=============================================================================
