---------------------------- MODULE DeathWatch ----------------------------
(***************************************************************************)
(* How the orchestrator learns of the local player's death and respawn      *)
(* (services/orchestrator.ts): the roster read by the game-state poll until *)
(* the session's own, faster poll runs and by that one from then on, either *)
(* reading applied some time after League answered; and the respawn timer   *)
(* set from what League says is left, re-aimed by every reading.            *)
(***************************************************************************)
EXTENDS Integers

CONSTANTS
  PollEvery,      \* the death poll's interval
  PollLatency,    \* bound: a death poll's reading is applied within this
  SlowLatency,    \* bound: a game-state poll's, the slower of the two
  LeagueLag,      \* bound: League clears isDead this late
  Spared,         \* bound: nobody dies this soon after a respawn, in the fountain
  Second,         \* one second
  Remembered,     \* 3500 ms: how long a respawn explains a late "dead"
  Timers,         \* the respawn timers League hands out
  MaxNow,         \* bound on the clock
  MaxMoves,       \* bound: changes of the minimap region, ends of the session
  Nothing, Never

ASSUME DeathAssumption ==
  /\ {PollEvery, PollLatency, SlowLatency, LeagueLag, Spared, Second, Remembered,
      MaxNow, MaxMoves} \subseteq Nat
  /\ Timers \subseteq Nat \ {0}
  /\ PollLatency < Second /\ SlowLatency < Second /\ LeagueLag + SlowLatency < Remembered
  /\ LeagueLag + SlowLatency < Spared
  /\ PollLatency <= SlowLatency
  /\ Never \notin Int

VARIABLES
  now,
  league,       \* what is so: [dead, until]
  session,      \* "none", "on", "watched" once the death poll runs
  tracker,      \* "none", "dead" or "alive"
  local,        \* session.localPlayer.isDead
  poll,         \* poll -> the call in progress, or Nothing: [at, reading]
  pollDue,      \* when the death poll's interval fires next
  respawnDue,   \* when the respawn timer fires, or Never
  respawnedAt,  \* respawnedAtMs, or Never
  aimed,        \* a respawn timer was read since the tracker was told
  deaths,       \* players' deaths so far, and
  told,         \* how often the tracker was told of one,
  lastDeath,         \* the last that a reading told of, and
  moves         \* how often it was made to forget: regions changed, sessions ended
leagueVars == <<league, deaths>>
pollVars   == <<poll, pollDue>>
stateVars  == <<tracker, local, respawnDue, respawnedAt, aimed, told, lastDeath>>
deathVars == <<now, league, session, tracker, local, poll, pollDue, respawnDue, respawnedAt,
          aimed, deaths, told, lastDeath, moves>>

Polls     == {"slow", "fast"}
Unread    == [dead |-> FALSE, left |-> -1, of |-> 0]       \* asked, not yet answered
Unclear   == [dead |-> FALSE, left |-> -2, of |-> 0]       \* failed, or no such player in it
Alive     == [dead |-> FALSE, left |-> 0, of |-> 0]
Left(t)   == IF t > now THEN t - now ELSE 0
Roster    == IF league.dead THEN [dead |-> TRUE, left |-> Left(league.until), of |-> deaths]
             ELSE Alive

DeathInit ==
  /\ now = 0
  /\ league = [dead |-> FALSE, until |-> -1000]
  /\ session = "none" /\ tracker = "none" /\ local = FALSE
  /\ poll = [p \in Polls |-> Nothing]
  /\ pollDue = 0 /\ respawnDue = Never /\ respawnedAt = Never /\ aimed = FALSE
  /\ deaths = 0 /\ told = 0 /\ lastDeath = 0 /\ moves = 0

-----------------------------------------------------------------------------
(* League.                                                                 *)

Dies ==
  /\ ~league.dead /\ now > league.until + Spared
  /\ \E t \in Timers : league' = [dead |-> TRUE, until |-> now + t]
  /\ deaths' = deaths + 1
  /\ UNCHANGED <<now, session, pollVars, stateVars, moves>>

Revives ==
  /\ league.dead /\ now >= league.until
  /\ league' = [league EXCEPT !.dead = FALSE]
  /\ UNCHANGED <<now, deaths, session, pollVars, stateVars, moves>>

-----------------------------------------------------------------------------
(* applyDeathState.                                                         *)

\* tracking?.onDeath(), tracking?.onRespawn()
OnDeath ==
  /\ tracker' = IF tracker = "none" THEN "none" ELSE "dead"
  /\ told' = told + (IF tracker = "alive" THEN 1 ELSE 0)
OnRespawn ==
  /\ tracker' = IF tracker = "none" THEN "none" ELSE "alive"
  /\ UNCHANGED <<told, lastDeath>>

ScheduleRespawn(left) ==
  /\ respawnDue' = IF left > 0 THEN now + left ELSE Never
  /\ aimed' = (left > 0)

\* A death we are not holding yet.
News(r) == r.dead /\ (~local \/ tracker = "alive")

\* League a moment behind the respawn timer.
Leftover(r) == respawnedAt # Never /\ now - respawnedAt < Remembered /\ r.left < Second

\* Wrong variant of ReAim: a reading of 0 cancels the respawn.
ReAimAlways(left) ==
  /\ respawnDue' = IF left > 0 THEN now + left ELSE Never
  /\ aimed' = (aimed \/ left > 0)
ReAim(left) == IF left > 0 THEN ScheduleRespawn(left) ELSE UNCHANGED <<respawnDue, aimed>>

Respawn ==
  /\ respawnDue' = Never /\ aimed' = FALSE
  /\ local' = FALSE
  /\ respawnedAt' = now
  /\ OnRespawn

ApplyDeathState(r) ==
  \/ /\ News(r) /\ ~Leftover(r)
     /\ local' = TRUE /\ lastDeath' = r.of /\ OnDeath /\ ScheduleRespawn(r.left)
     /\ UNCHANGED respawnedAt
  \/ /\ r.dead /\ local /\ ~News(r)
     /\ lastDeath' = r.of /\ ReAim(r.left)
     /\ UNCHANGED <<tracker, local, respawnedAt, told>>
  \/ /\ r # Unclear /\ ~r.dead /\ local
     /\ Respawn
  \/ /\ \/ News(r) /\ Leftover(r)
        \/ r = Unclear
        \/ ~r.dead /\ ~local
     /\ UNCHANGED stateVars

-----------------------------------------------------------------------------
(* The polls.                                                              *)

Answered(p) == poll[p] # Nothing /\ poll[p].reading # Unread

\* pollGameState: one at a time, and no sooner after the one that ended a session
\* than its last death poll has come back.
SlowAsks ==
  /\ poll["slow"] = Nothing
  /\ session # "none" \/ poll["fast"] = Nothing
  /\ poll' = [poll EXCEPT !["slow"] = [at |-> now, reading |-> Unread]]
  /\ UNCHANGED <<now, leagueVars, session, stateVars, pollDue, moves>>

\* pollDeath, unless the last is still running.
FastAsks ==
  /\ session = "watched" /\ now = pollDue
  /\ pollDue' = now + PollEvery
  /\ poll' = IF poll["fast"] # Nothing THEN poll
             ELSE [poll EXCEPT !["fast"] = [at |-> now, reading |-> Unread]]
  /\ UNCHANGED <<now, leagueVars, session, stateVars, moves>>

LeagueAnswers(p) ==
  /\ poll[p] # Nothing /\ poll[p].reading = Unread
  /\ \E r \in {Roster, Unclear} : poll' = [poll EXCEPT ![p].reading = r]
  /\ UNCHANGED <<now, leagueVars, session, stateVars, pollDue, moves>>

\* Wrong variant of SlowCounts: the two polls both count.
BothCount == session # "none"
\* "Once the 1s death poll is running it is the only source of death state."
SlowCounts == session = "on"

\* The poll that finds a game creates the session, seeds isDead from a roster it
\* asks for itself, and then applies the older one it came with.
SessionStarts ==
  /\ Answered("slow") /\ session = "none"
  /\ session' = "on" /\ local' = league.dead
  /\ UNCHANGED <<now, leagueVars, pollVars, tracker, respawnDue, respawnedAt, aimed, told, lastDeath, moves>>

SlowLands ==
  /\ Answered("slow")
  /\ poll' = [poll EXCEPT !["slow"] = Nothing]
  /\ IF SlowCounts THEN ApplyDeathState(poll["slow"].reading) ELSE UNCHANGED stateVars
  /\ UNCHANGED <<now, leagueVars, session, pollDue, moves>>

FastLands ==
  /\ Answered("fast")
  /\ poll' = [poll EXCEPT !["fast"] = Nothing]
  /\ IF session # "none" THEN ApplyDeathState(poll["fast"].reading) ELSE UNCHANGED stateVars
  /\ UNCHANGED <<now, leagueVars, session, pollDue, moves>>

RespawnTimer ==
  /\ respawnDue = now
  /\ IF local THEN Respawn
     ELSE respawnDue' = Never /\ UNCHANGED <<tracker, local, respawnedAt, aimed, told, lastDeath>>
  /\ UNCHANGED <<now, leagueVars, session, pollVars, moves>>

-----------------------------------------------------------------------------
(* The session: created, with a tracker and at last the death poll.          *)

TrackerMade ==
  /\ session = "on" /\ tracker = "none"
  /\ tracker' = "alive"
  /\ UNCHANGED <<now, leagueVars, session, pollVars, local, respawnDue, respawnedAt, aimed, told, lastDeath, moves>>

WatchStarts ==
  /\ session = "on" /\ tracker # "none"
  /\ session' = "watched"
  /\ pollDue' = now + PollEvery
  /\ UNCHANGED <<now, leagueVars, poll, stateVars, moves>>

\* setMinimapScaleFromConfig, setMinimapRegion: the tracker scans, dead or not.
RegionMoves ==
  /\ tracker # "none" /\ moves < MaxMoves
  /\ tracker' = "alive" /\ moves' = moves + 1
  /\ UNCHANGED <<now, leagueVars, session, pollVars, local, respawnDue, respawnedAt, aimed, told, lastDeath>>

SessionEnds ==
  /\ session # "none" /\ Answered("slow") /\ moves < MaxMoves
  /\ poll' = [poll EXCEPT !["slow"] = Nothing]
  /\ session' = "none" /\ tracker' = "none" /\ local' = FALSE
  /\ respawnDue' = Never /\ aimed' = FALSE /\ moves' = moves + 1
  /\ UNCHANGED <<now, leagueVars, pollDue, respawnedAt, told, lastDeath>>

\* Timers fire when they are due and answers come within their bounds.
Tick ==
  /\ now < MaxNow
  /\ session = "watched" => pollDue # now
  /\ respawnDue # now
  /\ poll["fast"] # Nothing => now < poll["fast"].at + PollLatency
  /\ poll["slow"] # Nothing => now < poll["slow"].at + SlowLatency
  /\ league.dead => now < league.until + LeagueLag
  /\ now' = now + 1
  /\ UNCHANGED <<leagueVars, session, pollVars, stateVars, moves>>

DeathNext ==
  \/ Dies \/ Revives
  \/ SlowAsks \/ FastAsks \/ FastLands \/ RespawnTimer
  \/ \E p \in Polls : LeagueAnswers(p)
  \/ SlowLands \/ SessionStarts
  \/ TrackerMade \/ WatchStarts \/ RegionMoves \/ SessionEnds
  \/ Tick

DeathSpec == DeathInit /\ [][DeathNext]_deathVars

-----------------------------------------------------------------------------
\* "'alive' landing late would respawn us mid-death and lose the body": once a
\* reading has told of a death, nothing - no older reading, no timer of an earlier
\* death - lets go of the body before League does.
NoRespawnWhileDead ==
  [][tracker = "dead" /\ tracker' = "alive" /\ moves' = moves /\ league.dead /\ lastDeath = deaths =>
       now >= league.until]_deathVars

\* A death is told once, and no reading from just before a respawn makes a second
\* one of it: the tracker hears of no more deaths than there were, but for those
\* that a changed region or a new session had made it forget.
NoDeathTwice == told <= deaths + moves

\* "The respawn is scheduled from that rather than waiting": a death told with its
\* timer, or with one read later, is over when League says, give or take an answer, though every
\* later poll fails or finds League behind its own timer.
BodyLetGo == aimed => now <= league.until + SlowLatency

\* A death is told once, and over once.
OneDeathEach == NoDeathTwice /\ BodyLetGo

=============================================================================
