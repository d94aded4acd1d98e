-------------------------- MODULE SessionLifecycle --------------------------
(***************************************************************************)
(* The orchestrator's sessions (services/orchestrator.ts): the game-state  *)
(* poll that starts and ends them, the asynchronous startSession with its  *)
(* microphone, window and capture awaits, the interval loops and the       *)
(* tracker it sets going, and endSession, which takes everything down.     *)
(*                                                                         *)
(* Sessions are numbered as they are created.  What a session creates - its *)
(* AudioService, tracker and loops - goes by the session's number.  A       *)
(* startSession call that is suspended at an await is an element of         *)
(* `starts`; it goes on whatever has become of its session.                *)
(***************************************************************************)
EXTENDS Integers, FiniteSets

CONSTANTS
  MaxGames,      \* bound: games League plays
  MaxSessions,   \* bound: sessions created
  Unsupported,   \* the games on a map without coordinate conversion
  MicMayBlock,   \* the microphone may be unavailable
  AudioMayFail,  \* the audio graph may fail to build
  Stops          \* stop() may be called (only the e2e suite's owners do)

ASSUME LifecycleAssumption ==
  /\ MaxGames \in Nat /\ MaxSessions \in Nat
  /\ Unsupported \subseteq 1..MaxGames
  /\ {MicMayBlock, AudioMayFail, Stops} \subseteq BOOLEAN

VARIABLES
  game,       \* what League is doing: the game in progress, or 0
  played,     \* games so far
  polling,    \* the gameStatePollId interval exists
  poll,       \* the poll in progress: [stage, saw]
  session,    \* this.session, or 0
  made,       \* sessions created so far
  gameOf,     \* session -> the game it was created for, 0 before
  starts,     \* startSession and microphone-retry calls at an await: [of, at]
  audio,      \* this.audio: the session whose AudioService it is, or 0
  disposed,   \* AudioServices that were cleaned up
  humming,    \* AudioServices with a graph: AudioContext, meter and glide loops
  capturing,  \* AudioServices holding an open microphone stream
  micError,   \* AudioServices that failed to open the microphone
  room,       \* the session whose room signaling is in, or 0
  joined,     \* sessionActive
  tracking,   \* this.tracking, by session, or 0
  scanning,   \* trackers whose capture loop runs
  ids,        \* volumeTickId, configPollId, deathPollId: whose interval, or 0
  loops       \* the intervals that exist: [kind, of]

pollVars  == <<polling, poll>>
audioVars == <<audio, disposed, humming, capturing, micError>>
runVars   == <<room, joined, tracking, scanning, ids, loops>>
lifecycleVars      == <<game, played, polling, poll, session, made, gameOf, starts, audio, disposed,
               humming, capturing, micError, room, joined, tracking, scanning, ids, loops>>

Sessions  == 1..MaxSessions
LoopKinds == {"volume", "config", "death"}
Idle      == [stage |-> "idle", saw |-> 0]

LifecycleTypeOK ==
  /\ game \in 0..MaxGames /\ played \in 0..MaxGames
  /\ polling \in BOOLEAN
  /\ poll \in [stage : {"idle", "asked", "sampled", "live"}, saw : 0..MaxGames]
  /\ session \in {0} \cup Sessions /\ made \in {0} \cup Sessions
  /\ gameOf \in [Sessions -> 0..MaxGames]
  /\ starts \subseteq [of : Sessions, at : {"mic", "window", "bounds", "retry"}]
  /\ audio \in {0} \cup Sessions
  /\ disposed \subseteq Sessions /\ humming \subseteq Sessions
  /\ capturing \subseteq Sessions /\ micError \subseteq Sessions
  /\ room \in {0} \cup Sessions
  /\ joined \in BOOLEAN
  /\ tracking \in {0} \cup Sessions /\ scanning \subseteq Sessions
  /\ ids \in [LoopKinds -> {0} \cup Sessions]
  /\ loops \subseteq [kind : LoopKinds, of : Sessions]

LifecycleInit ==
  /\ game = 0 /\ played = 0
  /\ polling = TRUE
  /\ poll = Idle
  /\ session = 0 /\ made = 0
  /\ gameOf = [n \in Sessions |-> 0]
  /\ starts = {}
  /\ audio = 0
  /\ disposed = {} /\ humming = {} /\ capturing = {} /\ micError = {}
  /\ room = 0 /\ joined = FALSE
  /\ tracking = 0 /\ scanning = {}
  /\ ids = [k \in LoopKinds |-> 0] /\ loops = {}

-----------------------------------------------------------------------------
(* League.  Games are minutes apart: before the next one begins the poll,     *)
(* every few seconds, has seen the gap, and a device, a window query or a    *)
(* capture call that a session awaits has come back.                        *)

GameBegins ==
  /\ game = 0 /\ played < MaxGames
  /\ starts = {} /\ session = 0 /\ poll.saw = 0
  /\ game' = played + 1 /\ played' = played + 1
  /\ UNCHANGED <<pollVars, session, made, gameOf, starts, audioVars, runVars>>

GameEnds ==
  /\ game # 0
  /\ game' = 0
  /\ UNCHANGED <<played, pollVars, session, made, gameOf, starts, audioVars, runVars>>

-----------------------------------------------------------------------------
(* endSession.  this.audio goes on pointing at the cleaned-up service.      *)

EndSession ==
  /\ session' = 0
  /\ joined' = FALSE /\ room' = 0
  /\ loops' = {l \in loops : ids[l.kind] # l.of}
  /\ ids' = [k \in LoopKinds |-> 0]
  /\ scanning' = scanning \ {tracking} /\ tracking' = 0
  /\ disposed' = IF audio = 0 THEN disposed ELSE disposed \cup {audio}
  /\ humming' = humming \ {audio}
  /\ capturing' = capturing \ {audio}
  /\ micError' = micError \ {audio}
  /\ UNCHANGED audio

-----------------------------------------------------------------------------
(* pollGameState, re-entrancy guarded: the question, League's answer at      *)
(* some moment after, and what the answer does when it arrives.             *)

PollAsks ==
  /\ polling /\ poll.stage = "idle"
  /\ poll' = [poll EXCEPT !.stage = "asked"]
  /\ UNCHANGED <<game, played, polling, session, made, gameOf, starts, audioVars, runVars>>

LeagueSampled ==
  /\ poll.stage = "asked"
  /\ poll' = [stage |-> "sampled", saw |-> game]
  /\ UNCHANGED <<game, played, polling, session, made, gameOf, starts, audioVars, runVars>>

\* retryBlockedMicrophone: listening only, so the microphone is tried again.
Retry ==
  IF joined /\ audio \in micError THEN {[of |-> audio, at |-> "retry"]} ELSE {}

\* Wrong variant of PollEnds: a session that never joined its room is no session.
PollEndsJoined ==
  /\ poll.stage = "sampled"
  /\ poll.saw = 0 /\ session # 0 /\ joined
  /\ EndSession
  /\ poll' = Idle
  /\ UNCHANGED <<game, played, polling, made, gameOf, starts>>

PollEnds ==
  /\ poll.stage = "sampled"
  /\ poll.saw = 0 /\ session # 0
  /\ EndSession
  /\ poll' = Idle
  /\ UNCHANGED <<game, played, polling, made, gameOf, starts>>

PollIdles ==
  /\ poll.stage = "sampled"
  /\ (poll.saw = 0) = (session = 0)
  /\ poll' = Idle
  /\ \E tried \in {{}, Retry} : starts' = starts \cup tried
  /\ UNCHANGED <<game, played, polling, session, made, gameOf, audioVars, runVars>>

\* A game and no session: pollForLiveClientData.
PollLooksCloser ==
  /\ poll.stage = "sampled"
  /\ poll.saw # 0 /\ session = 0
  /\ poll' = [poll EXCEPT !.stage = "live"]
  /\ UNCHANGED <<game, played, polling, session, made, gameOf, starts, audioVars, runVars>>

\* The roster came: the session is created and startSession runs to its first
\* await, with a new AudioService.
SessionBegins ==
  /\ poll.stage = "live" /\ session = 0 /\ made < MaxSessions
  /\ poll' = Idle
  /\ made' = made + 1
  /\ session' = made + 1
  /\ gameOf' = [gameOf EXCEPT ![made + 1] = poll.saw]
  /\ audio' = made + 1
  /\ starts' = starts \cup {[of |-> made + 1, at |-> "mic"]}
  /\ UNCHANGED <<game, played, polling, disposed, humming, capturing, micError, runVars>>

\* No roster yet, or a refusal.
LiveDataUnusable ==
  /\ poll.stage = "live"
  /\ poll' = Idle
  /\ \E tried \in {{}, Retry} : starts' = starts \cup tried
  /\ UNCHANGED <<game, played, polling, session, made, gameOf, audioVars, runVars>>

\* stop(): the poll interval goes, the session ends; a poll in progress goes on.
Stop ==
  /\ Stops /\ polling
  /\ polling' = FALSE
  /\ IF session # 0 THEN EndSession ELSE UNCHANGED <<session, audioVars, runVars>>
  /\ UNCHANGED <<game, played, poll, made, gameOf, starts>>

-----------------------------------------------------------------------------
(* startSession, await by await.                                           *)

At(t, stage) == t \in starts /\ t.at = stage
\* Wrong variant of StartsLoops: the death poll's id is not kept.
StartsLoopsLoosely(n, kinds) ==
  /\ loops' = loops \cup [kind : kinds, of : {n}]
  /\ ids' = [k \in LoopKinds |-> IF k \in kinds \ {"death"} THEN n ELSE ids[k]]

StartsLoops(n, kinds) ==
  /\ loops' = loops \cup [kind : kinds, of : {n}]
  /\ ids' = [k \in LoopKinds |-> IF k \in kinds THEN n ELSE ids[k]]

\* initMicrophone is done, with a microphone or (blocked) without; the room is
\* joined.  Without a map there is only the volume tick to start.
MicrophoneReady(t, opened) ==
  /\ At(t, "mic")
  /\ opened \/ MicMayBlock
  /\ humming' = humming \cup {t.of}
  /\ capturing' = IF opened THEN capturing \cup {t.of} ELSE capturing
  /\ micError' = IF opened THEN micError \ {t.of} ELSE micError \cup {t.of}
  /\ room' = t.of /\ joined' = TRUE
  /\ IF gameOf[t.of] \in Unsupported
     THEN StartsLoops(t.of, {"volume"}) /\ starts' = starts \ {t}
     ELSE UNCHANGED <<loops, ids>> /\ starts' = (starts \ {t}) \cup {[t EXCEPT !.at = "window"]}
  /\ UNCHANGED <<game, played, pollVars, session, made, gameOf, audio, disposed, tracking, scanning>>

\* initMicrophone threw, possibly past the opening of the device: the start is
\* given up and the AudioService let go of; the session stays.
AudioFails(t, opened) ==
  /\ AudioMayFail /\ At(t, "mic")
  /\ opened \/ MicMayBlock
  /\ starts' = starts \ {t}
  /\ audio' = 0
  /\ capturing' = IF opened THEN capturing \cup {t.of} ELSE capturing
  /\ UNCHANGED <<game, played, pollVars, session, made, gameOf, disposed, humming, micError, runVars>>

\* The game window is known: a tracker is created, capture bounds are awaited.
WindowKnown(t) ==
  /\ At(t, "window")
  /\ tracking' = t.of
  /\ starts' = (starts \ {t}) \cup {[t EXCEPT !.at = "bounds"]}
  /\ UNCHANGED <<game, played, pollVars, session, made, gameOf, audioVars,
                 room, joined, scanning, ids, loops>>

\* The query, or the capture set-up, failed: voice without tracking.
TrackingFails(t) ==
  /\ At(t, "window") \/ At(t, "bounds")
  /\ starts' = starts \ {t}
  /\ UNCHANGED <<game, played, pollVars, session, made, gameOf, audioVars, runVars>>

\* "The game may have ended while that was awaited."
StillWanted(t) == session = t.of /\ tracking # 0

TrackingStarts(t) ==
  /\ At(t, "bounds") /\ StillWanted(t)
  /\ starts' = starts \ {t}
  /\ scanning' = scanning \cup {tracking}
  /\ StartsLoops(t.of, LoopKinds)
  /\ UNCHANGED <<game, played, pollVars, session, made, gameOf, audioVars, room, joined, tracking>>

TrackingUnwanted(t) ==
  /\ At(t, "bounds") /\ ~StillWanted(t)
  /\ starts' = starts \ {t}
  /\ UNCHANGED <<game, played, pollVars, session, made, gameOf, audioVars, runVars>>

\* Wrong variant of RetryDone: the session may have ended meanwhile.
RetryDoneAnyway(t, opened) ==
  /\ At(t, "retry")
  /\ opened \/ MicMayBlock
  /\ starts' = starts \ {t}
  /\ IF opened THEN capturing' = capturing \cup {t.of} /\ micError' = micError \ {t.of}
     ELSE UNCHANGED <<capturing, micError>>
  /\ UNCHANGED <<game, played, pollVars, session, made, gameOf, audio, disposed, humming, runVars>>

\* applyInputDevice: a stream that opens after the end is stopped again.
RetryDone(t, opened) ==
  /\ At(t, "retry")
  /\ opened \/ MicMayBlock
  /\ starts' = starts \ {t}
  /\ IF opened /\ t.of \notin disposed
     THEN capturing' = capturing \cup {t.of} /\ micError' = micError \ {t.of}
     ELSE UNCHANGED <<capturing, micError>>
  /\ UNCHANGED <<game, played, pollVars, session, made, gameOf, audio, disposed, humming, runVars>>

-----------------------------------------------------------------------------

Poll ==
  \/ PollAsks \/ LeagueSampled \/ PollEnds \/ PollIdles \/ PollLooksCloser
  \/ SessionBegins \/ LiveDataUnusable

Resume(t) ==
  \/ WindowKnown(t) \/ TrackingFails(t) \/ TrackingStarts(t) \/ TrackingUnwanted(t)
  \/ \E opened \in BOOLEAN :
       MicrophoneReady(t, opened) \/ AudioFails(t, opened) \/ RetryDone(t, opened)

LifecycleNext ==
  \/ GameBegins \/ GameEnds \/ Poll \/ Stop
  \/ \E t \in starts : Resume(t)

LifecycleSpec == LifecycleInit /\ [][LifecycleNext]_lifecycleVars

\* The poll's interval fires and League answers or times out; awaits return.
\* Nothing is assumed of the games, of stop() or of the roster being there.
LifecycleFairness == WF_lifecycleVars(Poll) /\ WF_lifecycleVars(\E t \in starts : Resume(t))

FairLifecycleSpec == LifecycleSpec /\ LifecycleFairness

-----------------------------------------------------------------------------
(* Properties.                                                             *)

BelongsToSession(l) == l.of = session /\ ids[l.kind] = l.of

\* "Only the game-state poll survives a session; the volume tick, the geometry
\* poll and the death poll are all cleared" (orchestrator-lifecycle.test.ts:631):
\* in games on maps the tracker knows, where startSession looks at its session
\* again before it starts anything, every interval belongs to the session there is
\* and its id is still known, so that endSession can clear it.
TrackedLoopsBelongToSession ==
  \A l \in loops : gameOf[l.of] \notin Unsupported => BelongsToSession(l)

\* No minimap is captured for a game that is over: until stop() is called, the
\* tracker that scans is the current session's, also when the game ended during
\* the awaits of its start.
OnlySessionScans ==
  polling => \A n \in scanning : n = session /\ tracking = n

\* One session at a time does everything that is done.
OneSession == LifecycleTypeOK /\ OnlySessionScans /\ TrackedLoopsBelongToSession

\* "a stream nobody will stop keeps the microphone captured until the app exits"
\* (audio.ts:808-809): a microphone opened by a retry belongs to the session there is.
RetryHoldsNoMicrophone ==
  [][\A t \in starts : At(t, "retry") /\ t \notin starts' =>
       capturing' \subseteq capturing \cup (IF session = 0 THEN {} ELSE {session})]_lifecycleVars

\* Ending the game ends its session: unless stop() has taken the poll away, sooner
\* or later the session there is belongs to the game being played.
SessionsEnd ==
  [](session # 0 /\ gameOf[session] # game =>
       <>(session = 0 \/ gameOf[session] = game \/ ~polling))

=============================================================================
