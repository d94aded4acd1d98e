----------------------------- MODULE ClientProofs -----------------------------
(***************************************************************************)
(* Proofs about the client: its sessions, its app audio and its signaling   *)
(* connections.  For any number of games and suspended startSession calls,  *)
(* one session at a time does everything that is done; for any outputs and  *)
(* devices, the voices go to the output that can be turned off; and the     *)
(* reconnect timer hangs up on nothing that works.                          *)
(***************************************************************************)
EXTENDS Signaling, SessionLifecycle, AppAudio, WellFoundedInduction, TLAPS

-----------------------------------------------------------------------------
(* Sessions.                                                                 *)

\* A start, as opposed to a retry of the microphone, is of the latest game.
Starting == {t \in starts : t.at # "retry"}

\* A poll can still bring something about.
Serving == polling \/ poll.stage # "idle"

\* Nothing outlives the game it was for, short of a retry.
SameGame ==
  /\ game \in {0, played} /\ poll.saw \in {0, played}
  /\ poll.stage \in {"idle", "asked"} => poll.saw = 0
  /\ poll.stage = "live" => poll.saw # 0
  /\ \A n \in Sessions : gameOf[n] <= played /\ (n > made => gameOf[n] = 0)
  /\ session # 0 => gameOf[session] = played
  /\ \A t \in Starting : gameOf[t.of] = played

\* The latest session is the one there is, or the one that has ended.
Latest ==
  /\ session \in {0, made} /\ audio \in {0, made}
  /\ \A n \in micError : n <= made
  /\ \A t \in starts : t.of <= made
  /\ Serving => \A t \in Starting : t.of = made

\* While the poll runs, a game whose session has ended is over and is not asked about.
EndedForGood ==
  /\ poll.stage = "sampled" /\ poll.saw = 0 /\ session # 0 => game = 0
  /\ polling /\ session = 0 /\ made # 0 /\ gameOf[made] = played => game = 0 /\ poll.saw = 0
  /\ polling => \A t \in starts : t.at = "bounds" => tracking \in {0, made}

\* A retry that may still open the microphone is the session's, and its AudioService
\* is not about to be let go of.
Retries ==
  /\ session = 0 => audio = 0 \/ audio \in disposed
  /\ \A t \in starts : t.at = "mic" => t.of \notin micError
  /\ \A t \in starts : t.at = "retry" /\ t.of \notin disposed =>
       /\ t.of = session /\ t.of = audio
       /\ \A u \in starts : u.at # "mic"

LifeInv == OneSession /\ SameGame /\ Latest /\ EndedForGood /\ Retries

\* A start that goes on to its next await is still its session's.
LEMMA StartMoves ==
  ASSUME LifecycleTypeOK, NEW t \in starts, NEW at \in {"window", "bounds"}
  PROVE  [t EXCEPT !.at = at] = [of |-> t.of, at |-> at]
BY DEF LifecycleTypeOK

\* Types.
LEMMA LifeType ==
  ASSUME LifecycleTypeOK, [LifecycleNext]_lifecycleVars
  PROVE  LifecycleTypeOK'
<1>. USE DEF pollVars, audioVars, runVars, LifecycleTypeOK, Sessions, LoopKinds
<1>1. CASE GameBegins
  BY <1>1, LifecycleAssumption DEF GameBegins
<1>2. CASE GameEnds
  BY <1>2, LifecycleAssumption DEF GameEnds
<1>3. CASE PollAsks
  BY <1>3 DEF PollAsks
<1>4. CASE LeagueSampled
  BY <1>4 DEF LeagueSampled
<1>5. CASE PollEnds
  BY <1>5 DEF PollEnds, EndSession, Idle
<1>6. CASE PollIdles
  BY <1>6, LifecycleAssumption DEF PollIdles, Retry, Idle
<1>7. CASE PollLooksCloser
  BY <1>7 DEF PollLooksCloser
<1>8. CASE SessionBegins
  BY <1>8, LifecycleAssumption DEF SessionBegins, Idle
<1>9. CASE LiveDataUnusable
  BY <1>9, LifecycleAssumption DEF LiveDataUnusable, Retry, Idle
<1>10. CASE Stop
  BY <1>10 DEF Stop, EndSession
<1>11. ASSUME NEW t \in starts, WindowKnown(t) PROVE LifecycleTypeOK'
  <2>1. t.at = "window" /\ t.of \in Sessions
          /\ [t EXCEPT !.at = "bounds"] = [of |-> t.of, at |-> "bounds"]
    BY <1>11, StartMoves DEF WindowKnown, At
  <2>. QED BY <1>11, <2>1 DEF WindowKnown
<1>12. ASSUME NEW t \in starts, TrackingFails(t) PROVE LifecycleTypeOK'
  BY <1>12 DEF TrackingFails, At
<1>13. ASSUME NEW t \in starts, TrackingStarts(t) PROVE LifecycleTypeOK'
  BY <1>13 DEF TrackingStarts, At, StillWanted, StartsLoops
<1>14. ASSUME NEW t \in starts, TrackingUnwanted(t) PROVE LifecycleTypeOK'
  BY <1>14 DEF TrackingUnwanted, At
<1>15. ASSUME NEW t \in starts, NEW opened \in BOOLEAN, MicrophoneReady(t, opened)
       PROVE  LifecycleTypeOK'
  <2>1. t.at = "mic" /\ t.of \in Sessions
          /\ [t EXCEPT !.at = "window"] = [of |-> t.of, at |-> "window"]
    BY <1>15, StartMoves DEF MicrophoneReady, At
  <2>2. CASE gameOf[t.of] \in Unsupported
    BY <1>15, <2>1, <2>2 DEF MicrophoneReady, StartsLoops
  <2>3. CASE gameOf[t.of] \notin Unsupported
    BY <1>15, <2>1, <2>3 DEF MicrophoneReady
  <2>. QED BY <2>2, <2>3
<1>16. ASSUME NEW t \in starts, NEW opened \in BOOLEAN, AudioFails(t, opened) PROVE LifecycleTypeOK'
  BY <1>16 DEF AudioFails, At
<1>17. ASSUME NEW t \in starts, NEW opened \in BOOLEAN, RetryDone(t, opened) PROVE LifecycleTypeOK'
  BY <1>17, LifecycleAssumption DEF RetryDone, At
<1>18. CASE UNCHANGED lifecycleVars
  BY <1>18 DEF lifecycleVars
<1>. QED BY <1>1, <1>2, <1>3, <1>4, <1>5, <1>6, <1>7, <1>8, <1>9, <1>10, <1>11, <1>12, <1>13,
            <1>14, <1>15, <1>16, <1>17, <1>18
            DEF LifecycleNext, Poll, Resume

\* The next game waits until nothing of the last one is left but retries.
LEMMA LifeSameGame ==
  ASSUME LifecycleTypeOK, LifecycleTypeOK', SameGame, [LifecycleNext]_lifecycleVars
  PROVE  SameGame'
<1>. USE DEF pollVars, audioVars, runVars, LifecycleTypeOK, Sessions, SameGame, Starting
<1>1. CASE GameBegins
  BY <1>1 DEF GameBegins
<1>2. CASE GameEnds
  BY <1>2 DEF GameEnds
<1>3. CASE PollAsks
  BY <1>3 DEF PollAsks
<1>4. CASE LeagueSampled
  BY <1>4 DEF LeagueSampled
<1>5. CASE PollEnds
  BY <1>5 DEF PollEnds, EndSession, Idle
<1>6. CASE PollIdles
  BY <1>6 DEF PollIdles, Retry, Idle
<1>7. CASE PollLooksCloser
  BY <1>7 DEF PollLooksCloser
<1>8. CASE SessionBegins
  BY <1>8 DEF SessionBegins, Idle
<1>9. CASE LiveDataUnusable
  BY <1>9 DEF LiveDataUnusable, Retry, Idle
<1>10. CASE Stop
  BY <1>10 DEF Stop, EndSession
<1>11. ASSUME NEW t \in starts, WindowKnown(t) PROVE SameGame'
  <2>1. t.at = "window" /\ t.of \in Sessions
          /\ [t EXCEPT !.at = "bounds"] = [of |-> t.of, at |-> "bounds"]
    BY <1>11, StartMoves DEF WindowKnown, At
  <2>. QED BY <1>11, <2>1 DEF WindowKnown
<1>12. ASSUME NEW t \in starts, TrackingFails(t) PROVE SameGame'
  BY <1>12 DEF TrackingFails, At
<1>13. ASSUME NEW t \in starts, TrackingStarts(t) PROVE SameGame'
  BY <1>13 DEF TrackingStarts, At, StillWanted, StartsLoops
<1>14. ASSUME NEW t \in starts, TrackingUnwanted(t) PROVE SameGame'
  BY <1>14 DEF TrackingUnwanted, At
<1>15. ASSUME NEW t \in starts, NEW opened \in BOOLEAN, MicrophoneReady(t, opened) PROVE SameGame'
  <2>1. t.at = "mic" /\ t.of \in Sessions
          /\ [t EXCEPT !.at = "window"] = [of |-> t.of, at |-> "window"]
    BY <1>15, StartMoves DEF MicrophoneReady, At
  <2>2. CASE gameOf[t.of] \in Unsupported
    BY <1>15, <2>1, <2>2 DEF MicrophoneReady, StartsLoops
  <2>3. CASE gameOf[t.of] \notin Unsupported
    BY <1>15, <2>1, <2>3 DEF MicrophoneReady
  <2>. QED BY <2>2, <2>3
<1>16. ASSUME NEW t \in starts, NEW opened \in BOOLEAN, AudioFails(t, opened) PROVE SameGame'
  BY <1>16 DEF AudioFails, At
<1>17. ASSUME NEW t \in starts, NEW opened \in BOOLEAN, RetryDone(t, opened) PROVE SameGame'
  BY <1>17 DEF RetryDone, At
<1>18. CASE UNCHANGED lifecycleVars
  BY <1>18 DEF lifecycleVars
<1>. QED BY <1>1, <1>2, <1>3, <1>4, <1>5, <1>6, <1>7, <1>8, <1>9, <1>10, <1>11, <1>12, <1>13,
            <1>14, <1>15, <1>16, <1>17, <1>18
            DEF LifecycleNext, Poll, Resume

\* A session is made only when the last one and its starts are gone, or the poll is.
LEMMA LifeLatest ==
  ASSUME LifecycleTypeOK, SameGame, Latest, EndedForGood, [LifecycleNext]_lifecycleVars
  PROVE  Latest'
<1>. USE DEF pollVars, audioVars, runVars, LifecycleTypeOK, Sessions, SameGame, Latest,
             EndedForGood, Starting, Serving
<1>1. CASE GameBegins
  BY <1>1 DEF GameBegins
<1>2. CASE GameEnds
  BY <1>2 DEF GameEnds
<1>3. CASE PollAsks
  BY <1>3 DEF PollAsks
<1>4. CASE LeagueSampled
  BY <1>4 DEF LeagueSampled
<1>5. CASE PollEnds
  BY <1>5 DEF PollEnds, EndSession, Idle
<1>6. CASE PollIdles
  BY <1>6 DEF PollIdles, Retry, Idle
<1>7. CASE PollLooksCloser
  BY <1>7 DEF PollLooksCloser
<1>8. CASE SessionBegins
  BY <1>8 DEF SessionBegins, Idle
<1>9. CASE LiveDataUnusable
  BY <1>9 DEF LiveDataUnusable, Retry, Idle
<1>10. CASE Stop
  BY <1>10 DEF Stop, EndSession
<1>11. ASSUME NEW t \in starts, WindowKnown(t) PROVE Latest'
  <2>1. t.at = "window" /\ t.of \in Sessions
          /\ [t EXCEPT !.at = "bounds"] = [of |-> t.of, at |-> "bounds"]
    BY <1>11, StartMoves DEF WindowKnown, At
  <2>. QED BY <1>11, <2>1 DEF WindowKnown
<1>12. ASSUME NEW t \in starts, TrackingFails(t) PROVE Latest'
  BY <1>12 DEF TrackingFails, At
<1>13. ASSUME NEW t \in starts, TrackingStarts(t) PROVE Latest'
  BY <1>13 DEF TrackingStarts, At, StillWanted, StartsLoops
<1>14. ASSUME NEW t \in starts, TrackingUnwanted(t) PROVE Latest'
  BY <1>14 DEF TrackingUnwanted, At
<1>15. ASSUME NEW t \in starts, NEW opened \in BOOLEAN, MicrophoneReady(t, opened) PROVE Latest'
  <2>1. t.at = "mic" /\ t.of \in Sessions
          /\ [t EXCEPT !.at = "window"] = [of |-> t.of, at |-> "window"]
    BY <1>15, StartMoves DEF MicrophoneReady, At
  <2>2. CASE gameOf[t.of] \in Unsupported
    BY <1>15, <2>1, <2>2 DEF MicrophoneReady, StartsLoops
  <2>3. CASE gameOf[t.of] \notin Unsupported
    BY <1>15, <2>1, <2>3 DEF MicrophoneReady
  <2>. QED BY <2>2, <2>3
<1>16. ASSUME NEW t \in starts, NEW opened \in BOOLEAN, AudioFails(t, opened) PROVE Latest'
  BY <1>16 DEF AudioFails, At
<1>17. ASSUME NEW t \in starts, NEW opened \in BOOLEAN, RetryDone(t, opened) PROVE Latest'
  BY <1>17 DEF RetryDone, At
<1>18. CASE UNCHANGED lifecycleVars
  BY <1>18 DEF lifecycleVars
<1>. QED BY <1>1, <1>2, <1>3, <1>4, <1>5, <1>6, <1>7, <1>8, <1>9, <1>10, <1>11, <1>12, <1>13,
            <1>14, <1>15, <1>16, <1>17, <1>18
            DEF LifecycleNext, Poll, Resume

\* Only an answer that came after the game ended ends its session.
LEMMA LifeEnded ==
  ASSUME LifecycleTypeOK, SameGame, Latest, EndedForGood, [LifecycleNext]_lifecycleVars
  PROVE  EndedForGood'
<1>. USE DEF pollVars, audioVars, runVars, LifecycleTypeOK, Sessions, SameGame, Latest,
             EndedForGood, Starting, Serving
<1>1. CASE GameBegins
  BY <1>1 DEF GameBegins
<1>2. CASE GameEnds
  BY <1>2 DEF GameEnds
<1>3. CASE PollAsks
  BY <1>3 DEF PollAsks
<1>4. CASE LeagueSampled
  BY <1>4 DEF LeagueSampled
<1>5. CASE PollEnds
  BY <1>5 DEF PollEnds, EndSession, Idle
<1>6. CASE PollIdles
  BY <1>6 DEF PollIdles, Retry, Idle
<1>7. CASE PollLooksCloser
  BY <1>7 DEF PollLooksCloser
<1>8. CASE SessionBegins
  BY <1>8 DEF SessionBegins, Idle
<1>9. CASE LiveDataUnusable
  BY <1>9 DEF LiveDataUnusable, Retry, Idle
<1>10. CASE Stop
  BY <1>10 DEF Stop, EndSession
<1>11. ASSUME NEW t \in starts, WindowKnown(t) PROVE EndedForGood'
  <2>1. t.at = "window" /\ t.of \in Sessions
          /\ [t EXCEPT !.at = "bounds"] = [of |-> t.of, at |-> "bounds"]
    BY <1>11, StartMoves DEF WindowKnown, At
  <2>. QED BY <1>11, <2>1 DEF WindowKnown
<1>12. ASSUME NEW t \in starts, TrackingFails(t) PROVE EndedForGood'
  BY <1>12 DEF TrackingFails, At
<1>13. ASSUME NEW t \in starts, TrackingStarts(t) PROVE EndedForGood'
  BY <1>13 DEF TrackingStarts, At, StillWanted, StartsLoops
<1>14. ASSUME NEW t \in starts, TrackingUnwanted(t) PROVE EndedForGood'
  BY <1>14 DEF TrackingUnwanted, At
<1>15. ASSUME NEW t \in starts, NEW opened \in BOOLEAN, MicrophoneReady(t, opened)
       PROVE  EndedForGood'
  <2>1. t.at = "mic" /\ t.of \in Sessions
          /\ [t EXCEPT !.at = "window"] = [of |-> t.of, at |-> "window"]
    BY <1>15, StartMoves DEF MicrophoneReady, At
  <2>2. CASE gameOf[t.of] \in Unsupported
    BY <1>15, <2>1, <2>2 DEF MicrophoneReady, StartsLoops
  <2>3. CASE gameOf[t.of] \notin Unsupported
    BY <1>15, <2>1, <2>3 DEF MicrophoneReady
  <2>. QED BY <2>2, <2>3
<1>16. ASSUME NEW t \in starts, NEW opened \in BOOLEAN, AudioFails(t, opened) PROVE EndedForGood'
  BY <1>16 DEF AudioFails, At
<1>17. ASSUME NEW t \in starts, NEW opened \in BOOLEAN, RetryDone(t, opened) PROVE EndedForGood'
  BY <1>17 DEF RetryDone, At
<1>18. CASE UNCHANGED lifecycleVars
  BY <1>18 DEF lifecycleVars
<1>. QED BY <1>1, <1>2, <1>3, <1>4, <1>5, <1>6, <1>7, <1>8, <1>9, <1>10, <1>11, <1>12, <1>13,
            <1>14, <1>15, <1>16, <1>17, <1>18
            DEF LifecycleNext, Poll, Resume

\* A retry is made of the session's own AudioService, once its start is past the microphone.
LEMMA LifeRetries ==
  ASSUME LifecycleTypeOK, SameGame, Latest, Retries, [LifecycleNext]_lifecycleVars
  PROVE  Retries'
<1>. USE DEF pollVars, audioVars, runVars, LifecycleTypeOK, Sessions, SameGame, Latest, Retries,
             Starting, Serving
<1>1. CASE GameBegins
  BY <1>1 DEF GameBegins
<1>2. CASE GameEnds
  BY <1>2 DEF GameEnds
<1>3. CASE PollAsks
  BY <1>3 DEF PollAsks
<1>4. CASE LeagueSampled
  BY <1>4 DEF LeagueSampled
<1>5. CASE PollEnds
  BY <1>5 DEF PollEnds, EndSession, Idle
<1>6. CASE PollIdles
  BY <1>6 DEF PollIdles, Retry, Idle
<1>7. CASE PollLooksCloser
  BY <1>7 DEF PollLooksCloser
<1>8. CASE SessionBegins
  BY <1>8 DEF SessionBegins, Idle
<1>9. CASE LiveDataUnusable
  BY <1>9 DEF LiveDataUnusable, Retry, Idle
<1>10. CASE Stop
  BY <1>10 DEF Stop, EndSession
<1>11. ASSUME NEW t \in starts, WindowKnown(t) PROVE Retries'
  <2>1. t.at = "window" /\ t.of \in Sessions
          /\ [t EXCEPT !.at = "bounds"] = [of |-> t.of, at |-> "bounds"]
    BY <1>11, StartMoves DEF WindowKnown, At
  <2>. QED BY <1>11, <2>1 DEF WindowKnown
<1>12. ASSUME NEW t \in starts, TrackingFails(t) PROVE Retries'
  BY <1>12 DEF TrackingFails, At
<1>13. ASSUME NEW t \in starts, TrackingStarts(t) PROVE Retries'
  BY <1>13 DEF TrackingStarts, At, StillWanted, StartsLoops
<1>14. ASSUME NEW t \in starts, TrackingUnwanted(t) PROVE Retries'
  BY <1>14 DEF TrackingUnwanted, At
<1>15. ASSUME NEW t \in starts, NEW opened \in BOOLEAN, MicrophoneReady(t, opened) PROVE Retries'
  <2>1. t.at = "mic" /\ t.of \in Sessions
          /\ [t EXCEPT !.at = "window"] = [of |-> t.of, at |-> "window"]
    BY <1>15, StartMoves DEF MicrophoneReady, At
  <2>2. CASE gameOf[t.of] \in Unsupported
    BY <1>15, <2>1, <2>2 DEF MicrophoneReady, StartsLoops
  <2>3. CASE gameOf[t.of] \notin Unsupported
    BY <1>15, <2>1, <2>3 DEF MicrophoneReady
  <2>. QED BY <2>2, <2>3
<1>16. ASSUME NEW t \in starts, NEW opened \in BOOLEAN, AudioFails(t, opened) PROVE Retries'
  BY <1>16 DEF AudioFails, At
<1>17. ASSUME NEW t \in starts, NEW opened \in BOOLEAN, RetryDone(t, opened) PROVE Retries'
  BY <1>17 DEF RetryDone, At
<1>18. CASE UNCHANGED lifecycleVars
  BY <1>18 DEF lifecycleVars
<1>. QED BY <1>1, <1>2, <1>3, <1>4, <1>5, <1>6, <1>7, <1>8, <1>9, <1>10, <1>11, <1>12, <1>13,
            <1>14, <1>15, <1>16, <1>17, <1>18
            DEF LifecycleNext, Poll, Resume

\* The tracker that is set going is the session's, and the session's end stops it.
LEMMA LifeScans ==
  ASSUME LifecycleTypeOK, SameGame, Latest, EndedForGood, OnlySessionScans, [LifecycleNext]_lifecycleVars
  PROVE  OnlySessionScans'
<1>. USE DEF pollVars, audioVars, runVars, LifecycleTypeOK, Sessions, SameGame, Latest,
             EndedForGood, OnlySessionScans, Starting, Serving
<1>1. CASE GameBegins
  BY <1>1 DEF GameBegins
<1>2. CASE GameEnds
  BY <1>2 DEF GameEnds
<1>3. CASE PollAsks
  BY <1>3 DEF PollAsks
<1>4. CASE LeagueSampled
  BY <1>4 DEF LeagueSampled
<1>5. CASE PollEnds
  BY <1>5 DEF PollEnds, EndSession, Idle
<1>6. CASE PollIdles
  BY <1>6 DEF PollIdles, Retry, Idle
<1>7. CASE PollLooksCloser
  BY <1>7 DEF PollLooksCloser
<1>8. CASE SessionBegins
  BY <1>8 DEF SessionBegins, Idle
<1>9. CASE LiveDataUnusable
  BY <1>9 DEF LiveDataUnusable, Retry, Idle
<1>10. CASE Stop
  BY <1>10 DEF Stop, EndSession
<1>11. ASSUME NEW t \in starts, WindowKnown(t) PROVE OnlySessionScans'
  <2>1. t.at = "window" /\ t.of \in Sessions
          /\ [t EXCEPT !.at = "bounds"] = [of |-> t.of, at |-> "bounds"]
    BY <1>11, StartMoves DEF WindowKnown, At
  <2>. QED BY <1>11, <2>1 DEF WindowKnown
<1>12. ASSUME NEW t \in starts, TrackingFails(t) PROVE OnlySessionScans'
  BY <1>12 DEF TrackingFails, At
<1>13. ASSUME NEW t \in starts, TrackingStarts(t) PROVE OnlySessionScans'
  BY <1>13 DEF TrackingStarts, At, StillWanted, StartsLoops
<1>14. ASSUME NEW t \in starts, TrackingUnwanted(t) PROVE OnlySessionScans'
  BY <1>14 DEF TrackingUnwanted, At
<1>15. ASSUME NEW t \in starts, NEW opened \in BOOLEAN, MicrophoneReady(t, opened)
       PROVE  OnlySessionScans'
  <2>1. t.at = "mic" /\ t.of \in Sessions
          /\ [t EXCEPT !.at = "window"] = [of |-> t.of, at |-> "window"]
    BY <1>15, StartMoves DEF MicrophoneReady, At
  <2>2. CASE gameOf[t.of] \in Unsupported
    BY <1>15, <2>1, <2>2 DEF MicrophoneReady, StartsLoops
  <2>3. CASE gameOf[t.of] \notin Unsupported
    BY <1>15, <2>1, <2>3 DEF MicrophoneReady
  <2>. QED BY <2>2, <2>3
<1>16. ASSUME NEW t \in starts, NEW opened \in BOOLEAN, AudioFails(t, opened)
       PROVE  OnlySessionScans'
  BY <1>16 DEF AudioFails, At
<1>17. ASSUME NEW t \in starts, NEW opened \in BOOLEAN, RetryDone(t, opened) PROVE OnlySessionScans'
  BY <1>17 DEF RetryDone, At
<1>18. CASE UNCHANGED lifecycleVars
  BY <1>18 DEF lifecycleVars
<1>. QED BY <1>1, <1>2, <1>3, <1>4, <1>5, <1>6, <1>7, <1>8, <1>9, <1>10, <1>11, <1>12, <1>13,
            <1>14, <1>15, <1>16, <1>17, <1>18
            DEF LifecycleNext, Poll, Resume

\* So the intervals of tracked games are the session's, with ids that endSession knows.
LEMMA LifeLoops ==
  ASSUME LifecycleTypeOK, SameGame, TrackedLoopsBelongToSession, [LifecycleNext]_lifecycleVars
  PROVE  TrackedLoopsBelongToSession'
<1>. USE DEF pollVars, audioVars, runVars, LifecycleTypeOK, Sessions, LoopKinds, SameGame,
             TrackedLoopsBelongToSession, BelongsToSession, Starting
<1>1. CASE GameBegins
  BY <1>1 DEF GameBegins
<1>2. CASE GameEnds
  BY <1>2 DEF GameEnds
<1>3. CASE PollAsks
  BY <1>3 DEF PollAsks
<1>4. CASE LeagueSampled
  BY <1>4 DEF LeagueSampled
<1>5. CASE PollEnds
  BY <1>5 DEF PollEnds, EndSession, Idle
<1>6. CASE PollIdles
  BY <1>6 DEF PollIdles, Retry, Idle
<1>7. CASE PollLooksCloser
  BY <1>7 DEF PollLooksCloser
<1>8. CASE SessionBegins
  BY <1>8, LifecycleAssumption DEF SessionBegins, Idle
<1>9. CASE LiveDataUnusable
  BY <1>9 DEF LiveDataUnusable, Retry, Idle
<1>10. CASE Stop
  BY <1>10 DEF Stop, EndSession
<1>11. ASSUME NEW t \in starts, WindowKnown(t) PROVE TrackedLoopsBelongToSession'
  <2>1. t.at = "window" /\ t.of \in Sessions
          /\ [t EXCEPT !.at = "bounds"] = [of |-> t.of, at |-> "bounds"]
    BY <1>11, StartMoves DEF WindowKnown, At
  <2>. QED BY <1>11, <2>1 DEF WindowKnown
<1>12. ASSUME NEW t \in starts, TrackingFails(t) PROVE TrackedLoopsBelongToSession'
  BY <1>12 DEF TrackingFails, At
<1>13. ASSUME NEW t \in starts, TrackingStarts(t) PROVE TrackedLoopsBelongToSession'
  BY <1>13 DEF TrackingStarts, At, StillWanted, StartsLoops
<1>14. ASSUME NEW t \in starts, TrackingUnwanted(t) PROVE TrackedLoopsBelongToSession'
  BY <1>14 DEF TrackingUnwanted, At
<1>15. ASSUME NEW t \in starts, NEW opened \in BOOLEAN, MicrophoneReady(t, opened)
       PROVE  TrackedLoopsBelongToSession'
  <2>1. t.at = "mic" /\ t.of \in Sessions
          /\ [t EXCEPT !.at = "window"] = [of |-> t.of, at |-> "window"]
    BY <1>15, StartMoves DEF MicrophoneReady, At
  <2>2. CASE gameOf[t.of] \in Unsupported
    BY <1>15, <2>1, <2>2 DEF MicrophoneReady, StartsLoops
  <2>3. CASE gameOf[t.of] \notin Unsupported
    BY <1>15, <2>1, <2>3 DEF MicrophoneReady
  <2>. QED BY <2>2, <2>3
<1>16. ASSUME NEW t \in starts, NEW opened \in BOOLEAN, AudioFails(t, opened)
       PROVE  TrackedLoopsBelongToSession'
  BY <1>16 DEF AudioFails, At
<1>17. ASSUME NEW t \in starts, NEW opened \in BOOLEAN, RetryDone(t, opened)
       PROVE  TrackedLoopsBelongToSession'
  BY <1>17 DEF RetryDone, At
<1>18. CASE UNCHANGED lifecycleVars
  BY <1>18 DEF lifecycleVars
<1>. QED BY <1>1, <1>2, <1>3, <1>4, <1>5, <1>6, <1>7, <1>8, <1>9, <1>10, <1>11, <1>12, <1>13,
            <1>14, <1>15, <1>16, <1>17, <1>18
            DEF LifecycleNext, Poll, Resume


LEMMA LifeInit == LifecycleInit => LifeInv
<1>. SUFFICES ASSUME LifecycleInit PROVE LifeInv
  OBVIOUS
<1>. USE LifecycleAssumption DEF LifecycleInit, Sessions, LoopKinds, Idle
<1>1. LifecycleTypeOK
  <2>1. 0 \in 0..MaxGames
    OBVIOUS
  <2>2. poll \in [stage : {"idle", "asked", "sampled", "live"}, saw : 0..MaxGames]
    BY <2>1
  <2>3. gameOf \in [Sessions -> 0..MaxGames] /\ ids \in [LoopKinds -> {0} \cup Sessions]
    BY <2>1
  <2>. QED BY <2>1, <2>2, <2>3 DEF LifecycleTypeOK
<1>2. OnlySessionScans /\ TrackedLoopsBelongToSession
  BY DEF OnlySessionScans, TrackedLoopsBelongToSession
<1>3. SameGame /\ Latest /\ EndedForGood /\ Retries
  BY DEF SameGame, Latest, EndedForGood, Retries, Starting, Serving
<1>. QED BY <1>1, <1>2, <1>3 DEF LifeInv, OneSession

LEMMA LifeStep == LifeInv /\ [LifecycleNext]_lifecycleVars => LifeInv'
BY LifeType, LifeSameGame, LifeLatest, LifeEnded, LifeRetries, LifeScans, LifeLoops
   DEF LifeInv, OneSession

\* What each session, each suspended startSession and each retry may still do, through
\* every await of startSession and of the League poll.
THEOREM SessionsAreKeptApart == LifecycleSpec => []LifeInv
BY LifeInit, LifeStep, PTL DEF LifecycleSpec

\* Until stop() is called only the current session's tracker scans, and in games on
\* maps the tracker knows every interval is the current session's to clear, whatever
\* startSession calls are still suspended.
THEOREM OneSessionAtATime == LifecycleSpec => []OneSession
<1>1. LifeInv => OneSession
  BY DEF LifeInv
<1>. QED BY SessionsAreKeptApart, <1>1, PTL

\* applyInputDevice holds no microphone for a session that is over.
THEOREM RetriesHoldNoMicrophone == LifecycleSpec => RetryHoldsNoMicrophone
<1> DEFINE Lets(t) == capturing' \subseteq capturing \cup (IF session = 0 THEN {} ELSE {session})
           Step == \A t \in starts : At(t, "retry") /\ t \notin starts' => Lets(t)
<1>1. ASSUME LifeInv, [LifecycleNext]_lifecycleVars, NEW t \in starts, At(t, "retry"), t \notin starts'
      PROVE  Lets(t)
  <2>1. \E opened \in BOOLEAN : RetryDone(t, opened)
    <3>. USE DEF pollVars, audioVars, runVars, At
    <3>1. ~(GameBegins \/ GameEnds \/ Poll \/ Stop)
      BY <1>1 DEF GameBegins, GameEnds, Poll, PollAsks, LeagueSampled, PollEnds, PollIdles,
                  PollLooksCloser, SessionBegins, LiveDataUnusable, Stop
    <3>2. \A u \in starts : ~(WindowKnown(u) \/ TrackingFails(u) \/ TrackingStarts(u) \/ TrackingUnwanted(u))
      BY <1>1 DEF WindowKnown, TrackingFails, TrackingStarts, TrackingUnwanted
    <3>3. \A u \in starts : \A opened \in BOOLEAN : ~(MicrophoneReady(u, opened) \/ AudioFails(u, opened))
      BY <1>1 DEF MicrophoneReady, AudioFails
    <3>4. \A u \in starts : \A opened \in BOOLEAN : RetryDone(u, opened) => u = t
      BY <1>1 DEF RetryDone
    <3>. QED BY <1>1, <3>1, <3>2, <3>3, <3>4 DEF LifecycleNext, Resume, lifecycleVars
  <2>2. t.of \notin disposed => t.of = session /\ t.of # 0
    <3>1. t.of # 0
      BY <1>1 DEF LifeInv, OneSession, LifecycleTypeOK, Sessions
    <3>. QED BY <1>1, <3>1 DEF LifeInv, Retries, At
  <2>. QED BY <2>1, <2>2 DEF RetryDone
<1>2. LifeInv /\ [LifecycleNext]_lifecycleVars => [Step]_lifecycleVars
  BY <1>1
<1>. QED BY SessionsAreKeptApart, <1>2, PTL DEF LifecycleSpec, RetryHoldsNoMicrophone

-----------------------------------------------------------------------------
(* App audio.                                                                *)

Stages      == {"sent", "answered", "building", "closing"}
PageCalls   == [out : Nat \ {0}, op : Ops, at : Stages, rate : Nat]
NativeState == [stream : BOOLEAN, rate : Nat, running : BOOLEAN, error : BOOLEAN, stops : Nat]

AudioTypes ==
  /\ app \in [out : Nat, starting : Nat, made : Nat, disposed : BOOLEAN]
  /\ tasks \subseteq PageCalls
  /\ native \in NativeState
  /\ stopped \subseteq 1..app.made /\ checking \subseteq 1..app.made

\* The output there is takes the voices and was not stopped; and the start of an
\* output is the one call that output has, it is not the voices' output yet, and
\* nothing has stopped it or checks on it.
Routing ==
  /\ voice = app.out /\ app.out <= app.made /\ app.out \notin stopped
  /\ app.disposed => app.out = 0
  /\ \A t \in tasks : t.out <= app.made
  /\ \A t \in tasks : t.op = "start" =>
       /\ t.out # app.out /\ t.out \notin stopped \cup checking
       /\ \A u \in tasks : u.out = t.out => u = t

AudioInv == AudioTypes /\ Routing


\* The calls a step adds, as records.
LEMMA CallRecords ==
  /\ \A o, op : Call(o, op) = [out |-> o, op |-> op, at |-> "sent", rate |-> 0]
  /\ \A o : [Call(o, "stop") EXCEPT !.at = "closing"]
              = [out |-> o, op |-> "stop", at |-> "closing", rate |-> 0]
<1>1. \A o, op : Call(o, op) = [out |-> o, op |-> op, at |-> "sent", rate |-> 0]
  BY DEF Call
<1>2. \A o : [Call(o, "stop") EXCEPT !.at = "closing"]
               = [out |-> o, op |-> "stop", at |-> "closing", rate |-> 0]
  BY DEF Call
<1>. QED BY <1>1, <1>2

\* A call that goes on is still its output's.
LEMMA CallGoesOn ==
  ASSUME NEW t \in PageCalls, NEW at \in Stages, NEW rate \in Nat,
         NEW u, u = [t EXCEPT !.at = at, !.rate = rate]
  PROVE  u \in PageCalls /\ u.op = t.op /\ u.out = t.out
BY DEF PageCalls

\* A new call of an output that has started.
LEMMA NewCallStep ==
  ASSUME AudioInv, UNCHANGED <<app, stopped, checking, voice, native>>,
         NEW u \in PageCalls, tasks' = tasks \cup {u},
         u.op # "start" /\ u.out <= app.made, \A t \in tasks : t.op = "start" => t.out # u.out
  PROVE  AudioInv'
<1>1. AudioTypes'
  BY DEF AudioInv, AudioTypes
<1>2. Routing'
  BY DEF AudioInv, AudioTypes, Routing, PageCalls
<1>. QED BY <1>1, <1>2 DEF AudioInv

\* Stopping the output there is, or one that is no longer known and not starting.
LEMMA StopOutStep ==
  ASSUME AudioInv, NEW o \in 1..app.made, NEW others \in SUBSET tasks, StopOut(o, others),
         \A t \in others : t.op = "start" => t.out # o, UNCHANGED native,
         \/ app' = [app EXCEPT !.out = 0] /\ voice' = 0
         \/ app' = [app EXCEPT !.disposed = TRUE, !.out = 0] /\ voice' = 0
         \/ app.out # o /\ UNCHANGED <<app, voice>>
  PROVE  AudioInv'
<1> DEFINE stop == [out |-> o, op |-> "stop", at |-> "closing", rate |-> 0]
<1>1. tasks' = others \cup {stop} /\ stopped' = stopped \cup {o} /\ checking' = checking \ {o}
  BY CallRecords DEF StopOut
<1>2. o \in Nat \ {0} /\ stop \in PageCalls /\ stop.op = "stop" /\ stop.out = o
  <2>1. o \in Nat \ {0} /\ 0 \in Nat
    BY DEF AudioInv, AudioTypes
  <2>. QED BY <2>1 DEF PageCalls, Ops, Stages
<1>. HIDE DEF stop
<1>3. /\ app' \in [out : Nat, starting : Nat, made : Nat, disposed : BOOLEAN]
      /\ app'.made = app.made /\ app'.out \in {0, app.out}
      /\ voice' = app'.out /\ app'.out # o
      /\ app'.disposed => app'.out = 0
  <2>1. CASE app' = [app EXCEPT !.out = 0] /\ voice' = 0
    BY <1>2, <2>1 DEF AudioInv, AudioTypes, Routing
  <2>2. CASE app' = [app EXCEPT !.disposed = TRUE, !.out = 0] /\ voice' = 0
    BY <1>2, <2>2 DEF AudioInv, AudioTypes, Routing
  <2>3. CASE app.out # o /\ UNCHANGED <<app, voice>>
    BY <1>2, <2>3 DEF AudioInv, AudioTypes, Routing
  <2>. QED BY <2>1, <2>2, <2>3
<1>4. AudioTypes'
  BY <1>1, <1>2, <1>3 DEF AudioInv, AudioTypes
<1>5. Routing'
  <2>1. voice' = app'.out /\ app'.out <= app'.made /\ (app'.disposed => app'.out = 0)
    BY <1>3 DEF AudioInv, AudioTypes, Routing
  <2>2. app'.out \notin stopped'
    BY <1>1, <1>2, <1>3 DEF AudioInv, AudioTypes, Routing
  <2>3. \A t \in tasks' : t.out <= app'.made
    BY <1>1, <1>2, <1>3 DEF AudioInv, AudioTypes, Routing
  <2>4. ASSUME NEW t \in tasks', t.op = "start"
        PROVE  /\ t.out # app'.out /\ t.out \notin stopped' \cup checking'
               /\ \A u \in tasks' : u.out = t.out => u = t
    <3>1. t \in others /\ t.out # o
      BY <1>1, <1>2, <2>4
    <3>2. t.out # app.out /\ t.out # 0 /\ t.out \notin stopped \cup checking
            /\ \A u \in tasks : u.out = t.out => u = t
      BY <2>4, <3>1 DEF AudioInv, AudioTypes, Routing, PageCalls
    <3>. QED BY <1>1, <1>2, <1>3, <3>1, <3>2
  <2>. QED BY <2>1, <2>2, <2>3, <2>4 DEF Routing
<1>. QED BY <1>4, <1>5 DEF AudioInv


\* setAppAudio behind its wait, whatever else is starting.
LEMMA SetStep ==
  ASSUME AudioInv, NEW on, Set(on), UNCHANGED native
  PROVE  AudioInv'
<1> DEFINE start == [out |-> app.made + 1, op |-> "start", at |-> "sent", rate |-> 0]
<1>1. CASE on /\ app.out = 0 /\ ~app.disposed
  <2>1. /\ app' = [app EXCEPT !.starting = app.made + 1, !.made = app.made + 1]
        /\ tasks' = tasks \cup {start} /\ UNCHANGED <<stopped, checking, voice>>
    BY <1>1, CallRecords DEF Set, TurnOn
  <2>2. start \in PageCalls /\ start.op = "start" /\ start.out = app.made + 1
    BY DEF PageCalls, Ops, Stages, AudioInv, AudioTypes
  <2>3. /\ app' \in [out : Nat, starting : Nat, made : Nat, disposed : BOOLEAN]
        /\ app'.made = app.made + 1 /\ app'.out = app.out /\ app'.disposed = app.disposed
    <3>1. app.made + 1 \in Nat
      BY DEF AudioInv, AudioTypes
    <3>. QED BY <2>1, <3>1 DEF AudioInv, AudioTypes
  <2>4. \A o \in stopped \cup checking : o # app.made + 1 /\ o \in Nat /\ o # 0
    BY DEF AudioInv, AudioTypes
  <2>5. /\ app.made \in Nat /\ app.made + 1 # 0 /\ app.made + 1 # app.out
        /\ \A t \in tasks : t.out \in Nat /\ t.out <= app.made /\ t.out # app.made + 1
    BY DEF AudioInv, AudioTypes, Routing, PageCalls
  <2>. HIDE DEF start
  <2>6. AudioTypes'
    BY <2>1, <2>2, <2>3 DEF AudioInv, AudioTypes
  <2>7. Routing'
    BY <1>1, <2>1, <2>2, <2>3, <2>4, <2>5 DEF AudioInv, Routing
  <2>. QED BY <2>6, <2>7 DEF AudioInv
<1>2. CASE ~on /\ app.out # 0
  <2>1. StopOut(app.out, tasks) /\ app' = [app EXCEPT !.out = 0] /\ voice' = 0
    BY <1>2 DEF Set, TurnOff, BackToBrowser
  <2>2. app.out \in 1..app.made /\ \A t \in tasks : t.op = "start" => t.out # app.out
    BY <1>2 DEF AudioInv, AudioTypes, Routing
  <2>. QED BY <1>2, <2>1, <2>2, StopOutStep
<1>3. CASE UNCHANGED <<app, stopped, checking, mixOf, open, tasks, sent, voice, tap>>
  BY <1>3 DEF AudioInv, AudioTypes, Routing
<1>. QED BY <1>1, <1>2, <1>3 DEF Set

LEMMA PageStep ==
  ASSUME AudioInv, NEW on \in BOOLEAN, Toggle(on) \/ Resumed \/ Cleanup \/ SwitchDevice \/ Checks
  PROVE  AudioInv'
<1>1. CASE Toggle(on)
  <2>1. CASE Set(on)
    BY <1>1, <2>1, SetStep DEF Toggle
  <2>2. CASE UNCHANGED <<app, stopped, checking, tasks, voice>>
    BY <1>1, <2>2 DEF Toggle, AudioInv, AudioTypes, Routing
  <2>. QED BY <1>1, <2>1, <2>2 DEF Toggle
<1>2. CASE Resumed
  BY <1>2, SetStep DEF Resumed, Resumes
<1>3. CASE Cleanup
  <2>1. /\ app' = [app EXCEPT !.disposed = TRUE, !.out = 0] /\ voice' = 0 /\ UNCHANGED native
    BY <1>3 DEF Cleanup, BackToBrowser
  <2>2. CASE app.out # 0
    <3>1. app.out \in 1..app.made /\ \A t \in tasks : t.op = "start" => t.out # app.out
      BY <2>2 DEF AudioInv, AudioTypes, Routing
    <3>. QED BY <1>3, <2>1, <2>2, <3>1, StopOutStep DEF Cleanup
  <2>3. CASE app.out = 0
    <3>1. UNCHANGED <<stopped, checking, tasks>>
      BY <1>3, <2>3 DEF Cleanup
    <3>2. /\ app' \in [out : Nat, starting : Nat, made : Nat, disposed : BOOLEAN]
          /\ app'.made = app.made /\ app'.out = app.out
      BY <2>1, <2>3 DEF AudioInv, AudioTypes
    <3>. QED BY <2>1, <2>3, <3>1, <3>2 DEF AudioInv, AudioTypes, Routing
  <2>. QED BY <2>2, <2>3
<1>4. ASSUME NEW o \in 1..app.made, NEW op \in {"switch", "check"},
             \A t \in tasks : t.op = "start" => t.out # o,
             tasks' = tasks \cup {Call(o, op)}, UNCHANGED <<pageVars, native>>
      PROVE  AudioInv'
  <2> DEFINE call == [out |-> o, op |-> op, at |-> "sent", rate |-> 0]
  <2>1. call \in PageCalls /\ call.op = op /\ call.out = o /\ call = Call(o, op)
    <3>1. o \in Nat \ {0} /\ 0 \in Nat
      BY DEF AudioInv, AudioTypes
    <3>2. call = Call(o, op)
      BY CallRecords
    <3>. QED BY <3>1, <3>2 DEF PageCalls, Ops, Stages
  <2>. HIDE DEF call
  <2>2. /\ UNCHANGED <<app, stopped, checking, voice, native>> /\ tasks' = tasks \cup {call}
        /\ call.op # "start" /\ call.out <= app.made
        /\ \A t \in tasks : t.op = "start" => t.out # call.out
    BY <1>4, <2>1 DEF pageVars, AudioInv, AudioTypes
  <2>. QED BY <2>1, <2>2, NewCallStep
<1>5. CASE SwitchDevice
  <2>1. app.out \in 1..app.made /\ \A t \in tasks : t.op = "start" => t.out # app.out
    BY <1>5 DEF SwitchDevice, AudioInv, AudioTypes, Routing
  <2>. QED BY <1>4, <1>5, <2>1 DEF SwitchDevice
<1>6. ASSUME NEW o \in Outs, CheckStatus(o) PROVE AudioInv'
  <2>1. o \in 1..app.made /\ \A t \in tasks : t.op = "start" => t.out # o
    BY <1>6 DEF CheckStatus, AudioInv, AudioTypes, Routing
  <2>. QED BY <1>4, <1>6, <2>1 DEF CheckStatus
<1>. QED BY <1>1, <1>2, <1>3, <1>5, <1>6 DEF Checks

\* A call that goes on, and nothing else that matters here.
LEMMA GoesOnStep ==
  ASSUME AudioInv, UNCHANGED <<app, stopped, checking, voice>>, native' \in NativeState,
         NEW t \in tasks, NEW at \in Stages, NEW rate \in Nat,
         tasks' = (tasks \ {t}) \cup {[t EXCEPT !.at = at, !.rate = rate]}
  PROVE  AudioInv'
<1> DEFINE u == [t EXCEPT !.at = at, !.rate = rate]
<1>1. u \in PageCalls /\ u.op = t.op /\ u.out = t.out
  BY CallGoesOn DEF AudioInv, AudioTypes
<1>. HIDE DEF u
<1>2. tasks' = (tasks \ {t}) \cup {u}
  BY DEF u
<1>3. AudioTypes'
  BY <1>1, <1>2 DEF AudioInv, AudioTypes
<1>4. Routing'
  BY <1>1, <1>2 DEF AudioInv, AudioTypes, Routing
<1>. QED BY <1>3, <1>4 DEF AudioInv

LEMMA NativeTypes ==
  ASSUME AudioInv, StopArrives \/ ThreadStops \/ DeviceLost \/ Reopens
  PROVE  native' \in NativeState
<1>1. native \in NativeState /\ DeviceRates \subseteq Nat
  BY AppAudioAssumption DEF AudioInv, AudioTypes
<1>2. CASE StopArrives
  <2>1. native.stops + 1 \in Nat
    BY <1>1 DEF NativeState
  <2>. QED BY <1>1, <1>2, <2>1 DEF StopArrives, NativeState
<1>3. CASE ThreadStops
  <2>1. native.stops - 1 \in Nat
    BY <1>1, <1>3 DEF NativeState, ThreadStops
  <2>. QED BY <1>3, <2>1 DEF ThreadStops, NativeState, Silent
<1>4. CASE DeviceLost
  BY <1>1, <1>4 DEF DeviceLost, NativeState
<1>5. CASE Reopens
  BY <1>1, <1>5 DEF Reopens, NativeState
<1>. QED BY <1>2, <1>3, <1>4, <1>5

LEMMA NativeStep ==
  ASSUME AudioInv, Arrives \/ ThreadStops \/ DeviceLost \/ Reopens
  PROVE  AudioInv'
<1>1. native \in NativeState /\ native.rate \in Nat /\ DeviceRates \subseteq Nat
  BY AppAudioAssumption DEF AudioInv, AudioTypes, NativeState
<1>2. CASE StopArrives \/ ThreadStops \/ DeviceLost \/ Reopens
  <2>1. UNCHANGED <<pageVars, tasks>>
    BY <1>2 DEF StopArrives, ThreadStops, DeviceLost, Reopens
  <2>. QED BY <1>2, <2>1, NativeTypes DEF pageVars, AudioInv, AudioTypes, Routing
<1>3. ASSUME NEW t \in tasks, Started(t) PROVE AudioInv'
  <2>1. UNCHANGED <<app, stopped, checking, voice>>
    BY <1>3 DEF Started, pageVars
  <2>2. \E rate \in Nat : Answer(t, rate)
    BY <1>1, <1>3 DEF Started
  <2>3. native' \in NativeState
    <3>1. CASE native' = [native EXCEPT !.stream = FALSE]
      BY <1>1, <3>1 DEF NativeState
    <3>2. ASSUME NEW r \in DeviceRates,
                 native' = [stream |-> TRUE, rate |-> r, running |-> TRUE, error |-> FALSE, stops |-> 0]
          PROVE  native' \in NativeState
      BY <1>1, <3>2 DEF NativeState
    <3>. QED BY <1>3, <3>1, <3>2 DEF Started
  <2>. QED BY <2>1, <2>2, <2>3, GoesOnStep DEF Answer, Stages
<1>4. ASSUME NEW t \in tasks, Status(t) PROVE AudioInv'
  <2>1. UNCHANGED <<app, stopped, checking, voice, native>>
    BY <1>4 DEF Status, pageVars
  <2>2. \E rate \in Nat : Answer(t, rate)
    BY <1>1, <1>4 DEF Status
  <2>. QED BY <1>1, <2>1, <2>2, GoesOnStep DEF Answer, Stages
<1>. QED BY <1>2, <1>3, <1>4 DEF Arrives

\* A start that comes back: with no device, or to build its mix.
LEMMA StartAnsweredStep ==
  ASSUME AudioInv, NEW t, StartAnswered(t)
  PROVE  AudioInv'
<1>1. t \in tasks /\ t.op = "start" /\ t.rate \in Nat
        /\ UNCHANGED <<stopped, checking, voice, native>>
  BY DEF StartAnswered, AudioInv, AudioTypes, PageCalls
<1>2. CASE t.rate = 0
  <2>1. app' = [app EXCEPT !.starting = 0] /\ tasks' = tasks \ {t}
    BY <1>2 DEF StartAnswered
  <2>2. /\ app' \in [out : Nat, starting : Nat, made : Nat, disposed : BOOLEAN]
        /\ app'.made = app.made /\ app'.out = app.out /\ app'.disposed = app.disposed
    BY <2>1 DEF AudioInv, AudioTypes
  <2>3. AudioTypes'
    BY <1>1, <2>1, <2>2 DEF AudioInv, AudioTypes
  <2>4. Routing'
    BY <1>1, <2>1, <2>2 DEF AudioInv, AudioTypes, Routing
  <2>. QED BY <2>3, <2>4 DEF AudioInv
<1>3. CASE t.rate # 0
  BY <1>1, <1>3, GoesOnStep DEF StartAnswered, BeginBuild, Stages, AudioInv, AudioTypes
<1>. QED BY <1>2, <1>3

LEMMA LearntStep ==
  ASSUME AudioInv, NEW t, Learnt(t)
  PROVE  AudioInv'
<1>1. /\ t \in tasks /\ t.op # "start" /\ t.rate \in Nat /\ UNCHANGED native
      /\ t.out \in 1..app.made /\ \A u \in tasks : u.op = "start" => u.out # t.out
  BY DEF Learnt, AudioInv, AudioTypes, Routing, PageCalls
<1>2. CASE Fails(t.out, tasks \ {t})
  <2>1. CASE t.out \in stopped
    BY <1>1, <1>2, <2>1 DEF Fails, AudioInv, AudioTypes, Routing
  <2>2. CASE t.out \notin stopped
    <3>1. StopOut(t.out, tasks \ {t})
      BY <1>2, <2>2 DEF Fails
    <3>2. \/ app' = [app EXCEPT !.out = 0] /\ voice' = 0
          \/ app.out # t.out /\ UNCHANGED <<app, voice>>
      BY <1>2, <2>2 DEF Fails, BackToBrowser
    <3>. QED BY <1>1, <3>1, <3>2, StopOutStep
  <2>. QED BY <2>1, <2>2
<1>3. CASE BeginBuild(t, t.rate) /\ UNCHANGED <<app, stopped, checking, voice>>
  BY <1>1, <1>3, GoesOnStep DEF BeginBuild, Stages, AudioInv, AudioTypes
<1>4. CASE tasks' = tasks \ {t} /\ UNCHANGED <<app, stopped, checking, voice>>
  BY <1>1, <1>4 DEF AudioInv, AudioTypes, Routing
<1>. QED BY <1>2, <1>3, <1>4 DEF Learnt

\* A mix is built: the voices go to the output that has started, unless the session is over.
LEMMA BuiltStep ==
  ASSUME AudioInv, NEW t, Built(t)
  PROVE  AudioInv'
<1>1. t \in tasks /\ t \in PageCalls /\ t.out \in Nat /\ t.out # 0 /\ UNCHANGED native
  BY DEF Built, AudioInv, AudioTypes, PageCalls
<1>2. CASE t.op = "start"
  <2>1. t.out \in 1..app.made /\ t.out \notin stopped \cup checking /\ app.made \in Nat
    BY <1>1, <1>2 DEF AudioInv, AudioTypes, Routing
  <2>2. \A u \in tasks \ {t} : u.out # t.out /\ u.out # 0 /\ u.out <= app.made
    BY <1>1, <1>2 DEF AudioInv, AudioTypes, Routing, PageCalls
  <2>3. CASE app.disposed
    <3> DEFINE stop == [out |-> t.out, op |-> "stop", at |-> "closing", rate |-> 0]
    <3>1. /\ app' = [app EXCEPT !.starting = 0] /\ UNCHANGED voice
          /\ tasks' = (tasks \ {t}) \cup {stop} /\ stopped' = stopped \cup {t.out}
          /\ checking' = checking \ {t.out}
      BY <1>2, <2>3, CallRecords DEF Built, StopOut
    <3>2. stop \in PageCalls /\ stop.op = "stop" /\ stop.out = t.out
      BY <1>1 DEF PageCalls, Ops, Stages
    <3>. HIDE DEF stop
    <3>3. /\ app' \in [out : Nat, starting : Nat, made : Nat, disposed : BOOLEAN]
          /\ app'.made = app.made /\ app'.out = app.out /\ app.out = 0
      BY <2>3, <3>1 DEF AudioInv, AudioTypes, Routing
    <3>4. AudioTypes'
      BY <1>1, <2>1, <3>1, <3>2, <3>3 DEF AudioInv, AudioTypes
    <3>5. Routing'
      BY <1>1, <2>1, <2>2, <3>1, <3>2, <3>3 DEF AudioInv, AudioTypes, Routing
    <3>. QED BY <3>4, <3>5 DEF AudioInv
  <2>4. CASE ~app.disposed
    <3>1. /\ app' = [app EXCEPT !.starting = 0, !.out = t.out] /\ voice' = t.out
          /\ tasks' = tasks \ {t} /\ checking' = checking \cup {t.out} /\ UNCHANGED stopped
      BY <1>2, <2>4 DEF Built
    <3>2. /\ app' \in [out : Nat, starting : Nat, made : Nat, disposed : BOOLEAN]
          /\ app'.made = app.made /\ app'.out = t.out /\ app'.disposed = app.disposed
      BY <1>1, <3>1 DEF AudioInv, AudioTypes
    <3>3. AudioTypes'
      BY <1>1, <2>1, <3>1, <3>2 DEF AudioInv, AudioTypes
    <3>4. Routing'
      BY <1>1, <2>1, <2>2, <2>4, <3>1, <3>2 DEF AudioInv, AudioTypes, Routing
    <3>. QED BY <3>3, <3>4 DEF AudioInv
  <2>. QED BY <2>3, <2>4
<1>3. CASE t.op # "start"
  <2>1. UNCHANGED <<app, stopped, checking, voice>> /\ tasks' = tasks \ {t}
    BY <1>3 DEF Built
  <2>. QED BY <1>1, <2>1 DEF AudioInv, AudioTypes, Routing
<1>. QED BY <1>2, <1>3

LEMMA AudioStep == AudioInv /\ [AppAudioNext]_appAudioVars => AudioInv'
<1>. SUFFICES ASSUME AudioInv, [AppAudioNext]_appAudioVars PROVE AudioInv'
  OBVIOUS
<1>1. ASSUME NEW t \in tasks, SendStop(t) PROVE AudioInv'
  BY <1>1 DEF SendStop, pageVars, AudioInv, AudioTypes, Routing
<1>2. ASSUME NEW op \in Ops, Goes(op) PROVE AudioInv'
  BY <1>1, <1>2, StartAnsweredStep, LearntStep, BuiltStep DEF Goes
<1>3. CASE UNCHANGED appAudioVars
  BY <1>3 DEF appAudioVars, AudioInv, AudioTypes, Routing
<1>. QED BY <1>2, <1>3, PageStep, NativeStep DEF AppAudioNext

LEMMA AudioInit == AppAudioInit => AudioInv
<1>. SUFFICES ASSUME AppAudioInit PROVE AudioInv
  OBVIOUS
<1>1. AudioTypes
  BY DEF AppAudioInit, AudioTypes, NativeState, Silent
<1>2. Routing
  BY DEF AppAudioInit, Routing
<1>. QED BY <1>1, <1>2 DEF AudioInv

\* However many calls wait for a start, and however starts - also several at once -, stops,
\* lost devices and status checks cross, the peers are routed to no output that was
\* stopped, and to none that setAppAudio could not turn off.
THEOREM VoicesGoToTheOutput == AppAudioSpec => []RoutedToTheOutput
<1>1. AudioInv => RoutedToTheOutput
  BY DEF AudioInv, Routing, RoutedToTheOutput
<1>. QED BY AudioInit, AudioStep, <1>1, PTL DEF AppAudioSpec

-----------------------------------------------------------------------------
(* Signaling.                                                                *)

\* A socket in use is its owner's, and an app that wants no room has neither a
\* connection nor a pending reconnect.
SocketsOwned ==
  /\ current \in [Apps -> Sockets \cup {NoSocket}]
  /\ wanted \in [Apps -> Rooms \cup {NoRoom}]
  /\ timer \in [Apps -> BOOLEAN]
  /\ owner \in [Sockets -> Apps \cup {NoApp}]
  /\ state \in [Sockets -> {"unused", "connecting", "open", "closing", "closed"}]
  /\ \A s \in Sockets : state[s] # "unused" => owner[s] \in Apps
  /\ \A a \in Apps : current[a] # NoSocket =>
       owner[current[a]] = a /\ state[current[a]] # "unused"

LeftMeansQuiet == \A a \in Apps : wanted[a] = NoRoom => current[a] = NoSocket /\ ~timer[a]

SocketInv == SocketsOwned /\ LeftMeansQuiet

\* openSocket takes a socket that was never used.
LEMMA UnusedTaken ==
  ASSUME Unused # {}
  PROVE  Min(Unused) \in Unused
<1>1. Unused \subseteq Nat
  BY SignalingAssumption DEF Unused
<1> DEFINE Less == {mn \in Nat \X Nat : mn[1] < mn[2]}
<1>2. IsWellFoundedOn(Less, Nat)
  BY NatLessThanWellFounded DEF OpToRel
<1>. HIDE DEF Less
<1>3. PICK m \in Unused : \A n \in Unused : <<n, m>> \notin Less
  BY <1>1, <1>2, WFMin
<1>4. \A x, y \in Nat : <<y, x>> \notin Less => x <= y
  BY DEF Less
<1>5. \A n \in Unused : m <= n
  BY <1>1, <1>3, <1>4
<1>. QED BY <1>5 DEF Min

LEMMA OpenSocketStep ==
  ASSUME SocketInv, NEW a \in Apps, OpenSocket(a),
         timer' \in [Apps -> BOOLEAN], \A b \in Apps : b # a => timer'[b] = timer[b],
         wanted' \in [Apps -> Rooms \cup {NoRoom}], wanted'[a] # NoRoom,
         \A b \in Apps : b # a => wanted'[b] = wanted[b]
  PROVE  SocketInv'
<1> DEFINE s == Min(Unused)
<1>1. s \in Sockets /\ state[s] = "unused"
  BY UnusedTaken DEF OpenSocket, Unused
<1>2. /\ state' = [HangUp(a, state) EXCEPT ![s] = "connecting"]
      /\ owner' = [owner EXCEPT ![s] = a] /\ current' = [current EXCEPT ![a] = s]
  BY DEF OpenSocket
<1>. HIDE DEF s
<1>3. /\ HangUp(a, state) \in [Sockets -> {"unused", "connecting", "open", "closing", "closed"}]
      /\ \A t \in Sockets : t # current[a] => HangUp(a, state)[t] = state[t]
      /\ \A t \in Sockets : HangUp(a, state)[t] = "unused" <=> state[t] = "unused"
  BY DEF HangUp, ClosedBy, SocketInv, SocketsOwned
<1>4. SocketsOwned'
  BY <1>1, <1>2, <1>3 DEF SocketInv, SocketsOwned
<1>5. LeftMeansQuiet'
  BY <1>2 DEF SocketInv, SocketsOwned, LeftMeansQuiet
<1>. QED BY <1>4, <1>5 DEF SocketInv

LEMMA ClosedStep ==
  ASSUME SocketInv, NEW s \in Sockets, state[s] # "unused", NEW code, Closed(s, code)
  PROVE  SocketInv'
<1>1. owner[s] \in Apps
  BY DEF SocketInv, SocketsOwned
<1>2. /\ state' = [state EXCEPT ![s] = "closed"] /\ UNCHANGED <<current, wanted, owner>>
      /\ \/ timer' = timer
         \/ current[owner[s]] = s /\ timer' = [timer EXCEPT ![owner[s]] = code # 4000]
  BY DEF Closed, IsCurrent
<1>3. SocketsOwned'
  <2>1. \/ timer' = timer
        \/ timer' = [timer EXCEPT ![owner[s]] = FALSE]
        \/ timer' = [timer EXCEPT ![owner[s]] = TRUE]
    <3>1. CASE code = 4000
      BY <1>2, <3>1
    <3>2. CASE code # 4000
      BY <1>2, <3>2
    <3>. QED BY <3>1, <3>2
  <2>2. timer' \in [Apps -> BOOLEAN]
    BY <2>1 DEF SocketInv, SocketsOwned
  <2>3. /\ state' \in [Sockets -> {"unused", "connecting", "open", "closing", "closed"}]
        /\ \A t \in Sockets : state'[t] = "unused" => state[t] = "unused"
        /\ \A t \in Sockets : state[t] # "unused" => state'[t] # "unused"
    BY <1>2 DEF SocketInv, SocketsOwned
  <2>. QED BY <1>2, <2>2, <2>3 DEF SocketInv, SocketsOwned
<1>4. LeftMeansQuiet'
  BY <1>1, <1>2, SignalingAssumption DEF SocketInv, SocketsOwned, LeftMeansQuiet
<1>. QED BY <1>3, <1>4 DEF SocketInv

LEMMA SocketStep ==
  ASSUME SocketInv, [SignalingNext]_allVars
  PROVE  SocketInv'
<1>1. ASSUME NEW a \in Apps, NEW r \in Rooms, JoinRoom(a, r) PROVE SocketInv'
  BY <1>1, OpenSocketStep, SignalingAssumption DEF JoinRoom, SocketInv, SocketsOwned
<1>2. ASSUME NEW a \in Apps, LeaveRoom(a) PROVE SocketInv'
  <2>1. /\ timer' = [timer EXCEPT ![a] = FALSE] /\ wanted' = [wanted EXCEPT ![a] = NoRoom]
        /\ state' = HangUp(a, state) /\ current' = [current EXCEPT ![a] = NoSocket]
        /\ UNCHANGED owner
    BY <1>2 DEF LeaveRoom
  <2>2. /\ HangUp(a, state) \in [Sockets -> {"unused", "connecting", "open", "closing", "closed"}]
        /\ \A t \in Sockets : t # current[a] => HangUp(a, state)[t] = state[t]
        /\ \A t \in Sockets : HangUp(a, state)[t] = "unused" <=> state[t] = "unused"
    BY DEF HangUp, ClosedBy, SocketInv, SocketsOwned
  <2>3. \A b \in Apps : b # a /\ current[b] # NoSocket => current[b] # current[a]
    BY DEF SocketInv, SocketsOwned
  <2>4. SocketsOwned'
    <3>1. /\ current' \in [Apps -> Sockets \cup {NoSocket}]
            /\ wanted' \in [Apps -> Rooms \cup {NoRoom}]
          /\ timer' \in [Apps -> BOOLEAN] /\ owner' = owner
          /\ \A b \in Apps : current'[b] # NoSocket => current'[b] = current[b]
      BY <2>1 DEF SocketInv, SocketsOwned
    <3>. QED BY <2>1, <2>2, <3>1 DEF SocketInv, SocketsOwned
  <2>5. LeftMeansQuiet'
    BY <2>1, <2>2, <2>3 DEF SocketInv, SocketsOwned, LeftMeansQuiet
  <2>. QED BY <2>4, <2>5 DEF SocketInv
<1>3. ASSUME NEW a \in Apps, TimerFires(a) PROVE SocketInv'
  <2>1. wanted[a] # NoRoom
    BY <1>3 DEF TimerFires, SocketInv, LeftMeansQuiet
  <2>. QED BY <1>3, <2>1, OpenSocketStep DEF TimerFires, SocketInv, SocketsOwned
<1>4. ASSUME NEW s \in Sockets, Opened(s) PROVE SocketInv'
  <2>1. /\ state[s] = "connecting" /\ state' = [state EXCEPT ![s] = "open"]
        /\ UNCHANGED <<current, wanted, timer, owner>>
    BY <1>4 DEF Opened
  <2>. QED BY <2>1 DEF SocketInv, SocketsOwned, LeftMeansQuiet
<1>5. ASSUME NEW s \in Sockets, Replaced(s) \/ ReplacedUnheard(s) \/ Dropped(s) PROVE SocketInv'
  BY <1>5, ClosedStep DEF Replaced, ReplacedUnheard, Dropped
<1>6. ASSUME NEW s \in Sockets, ServerLearns(s) PROVE SocketInv'
  <2>1. /\ state[s] # "unused" /\ state' = [state EXCEPT ![s] = "closed"]
        /\ UNCHANGED <<current, wanted, timer, owner>>
    BY <1>6 DEF ServerLearns
  <2>. QED BY <2>1 DEF SocketInv, SocketsOwned, LeftMeansQuiet
<1>7. ASSUME UNCHANGED <<current, wanted, timer, owner, state>> PROVE SocketInv'
  BY <1>7 DEF SocketInv, SocketsOwned, LeftMeansQuiet
<1>8. ASSUME NEW s \in Sockets, Accept(s) \/ ServerJoin(s) \/ ServerTimer(s) \/ ServerClose(s)
      PROVE  SocketInv'
  BY <1>7, <1>8 DEF Accept, ServerJoin, ServerTimer, ServerClose, clientVars
<1>9. CASE UNCHANGED allVars
  BY <1>7, <1>9 DEF allVars, clientVars
<1>. QED BY <1>1, <1>2, <1>3, <1>4, <1>5, <1>6, <1>8, <1>9 DEF SignalingNext

LEMMA SocketInit == SignalingInit => SocketInv
BY SignalingAssumption DEF SignalingInit, SocketInv, SocketsOwned, LeftMeansQuiet

\* A step that arms no timer, keeps the connection and revives nothing threatens no one.
LEMMA NoNewThreat ==
  ASSUME SocketInv, NEW a \in Apps, timer'[a] => timer[a], current'[a] = current[a],
         \A t \in Sockets : state[t] = "closed" => state'[t] = "closed"
  PROVE  Threatened(a)' => Threatened(a)
BY DEF SocketInv, SocketsOwned, Threatened

\* openSocket revives nothing and is no other app's.
LEMMA OpenSocketSpares ==
  ASSUME SocketInv, NEW a \in Apps, OpenSocket(a)
  PROVE  /\ \A t \in Sockets : state[t] = "closed" => state'[t] = "closed"
         /\ \A b \in Apps : b # a => current'[b] = current[b]
<1>1. Min(Unused) \in Sockets /\ state[Min(Unused)] = "unused"
  BY UnusedTaken DEF OpenSocket, Unused
<1>2. \A t \in Sockets : state[t] = "closed" => HangUp(a, state)[t] = "closed"
  BY DEF HangUp, ClosedBy, SocketInv, SocketsOwned
<1>3. HangUp(a, state) \in [Sockets -> {"unused", "connecting", "open", "closing", "closed"}]
  BY DEF HangUp, ClosedBy, SocketInv, SocketsOwned
<1>. QED BY <1>1, <1>2, <1>3 DEF OpenSocket, SocketInv, SocketsOwned

\* A reconnect that is under way turns on a live connection only where joinRoom is called
\* for an app that has not left its room: the close of the current socket is the one
\* thing that arms it, and leaveRoom disarms it.
THEOREM OnlyRejoiningThreatens == SignalingSpec => ThreatenedOnlyByRejoining
<1> DEFINE Step == \A a \in Apps : Threatened(a)' =>
                     Threatened(a) \/ (wanted[a] # NoRoom /\ \E r \in Rooms : JoinRoom(a, r))
<1>1. ASSUME SocketInv, SignalingNext PROVE Step
  <2>. SUFFICES ASSUME NEW a \in Apps, Threatened(a)'
                PROVE  Threatened(a) \/ (wanted[a] # NoRoom /\ \E r \in Rooms : JoinRoom(a, r))
    OBVIOUS
  <2>1. ASSUME NEW b \in Apps, NEW r \in Rooms, JoinRoom(b, r)
        PROVE  Threatened(a) \/ (wanted[a] # NoRoom /\ \E q \in Rooms : JoinRoom(a, q))
    <3>1. CASE b = a
      BY <1>1, <2>1, <3>1 DEF JoinRoom, Threatened, SocketInv, LeftMeansQuiet
    <3>2. CASE b # a
      BY <1>1, <2>1, <3>2, OpenSocketSpares, NoNewThreat DEF JoinRoom
    <3>. QED BY <3>1, <3>2
  <2>2. ASSUME NEW b \in Apps, LeaveRoom(b) PROVE Threatened(a)
    <3>1. /\ timer' = [timer EXCEPT ![b] = FALSE] /\ current' = [current EXCEPT ![b] = NoSocket]
          /\ state' = HangUp(b, state)
      BY <2>2 DEF LeaveRoom
    <3>2. a # b
      BY <1>1, <3>1 DEF Threatened, SocketInv, SocketsOwned
    <3>3. \A t \in Sockets : state[t] = "closed" => state'[t] = "closed"
      BY <1>1, <3>1 DEF HangUp, ClosedBy, SocketInv, SocketsOwned
    <3>. QED BY <1>1, <3>1, <3>2, <3>3, NoNewThreat DEF SocketInv, SocketsOwned
  <2>3. ASSUME NEW b \in Apps, TimerFires(b) PROVE Threatened(a)
    <3>1. wanted[b] # NoRoom /\ OpenSocket(b) /\ timer' = [timer EXCEPT ![b] = FALSE]
      BY <1>1, <2>3 DEF TimerFires, SocketInv, LeftMeansQuiet
    <3>2. a # b
      BY <1>1, <3>1 DEF Threatened, SocketInv, SocketsOwned
    <3>. QED BY <1>1, <3>1, <3>2, OpenSocketSpares, NoNewThreat DEF SocketInv, SocketsOwned
  <2>4. ASSUME NEW s \in Sockets, Opened(s) PROVE Threatened(a)
    <3>1. /\ state[s] = "connecting" /\ state' = [state EXCEPT ![s] = "open"]
          /\ UNCHANGED <<current, timer>>
      BY <2>4 DEF Opened
    <3>. QED BY <1>1, <3>1, NoNewThreat DEF SocketInv, SocketsOwned
  <2>5. ASSUME NEW s \in Sockets, NEW code, Closed(s, code), state[s] # "unused" PROVE Threatened(a)
    <3>1. /\ state' = [state EXCEPT ![s] = "closed"] /\ UNCHANGED current /\ owner[s] \in Apps
          /\ \/ timer' = timer
             \/ current[owner[s]] = s /\ timer' = [timer EXCEPT ![owner[s]] = code # 4000]
      BY <1>1, <2>5 DEF Closed, IsCurrent, SocketInv, SocketsOwned
    <3>2. current[a] # s
      BY <1>1, <3>1 DEF Threatened, SocketInv, SocketsOwned
    <3>3. timer'[a] => timer[a]
      BY <1>1, <3>1, <3>2 DEF SocketInv, SocketsOwned
    <3>. QED BY <1>1, <3>1, <3>3, NoNewThreat DEF SocketInv, SocketsOwned
  <2>6. ASSUME NEW s \in Sockets, Replaced(s) \/ ReplacedUnheard(s) \/ Dropped(s) PROVE Threatened(a)
    BY <2>5, <2>6 DEF Replaced, ReplacedUnheard, Dropped
  <2>7. ASSUME NEW s \in Sockets, ServerLearns(s) PROVE Threatened(a)
    <3>1. state' = [state EXCEPT ![s] = "closed"] /\ UNCHANGED <<current, timer>>
      BY <2>7 DEF ServerLearns
    <3>. QED BY <1>1, <3>1, NoNewThreat DEF SocketInv, SocketsOwned
  <2>8. ASSUME NEW s \in Sockets, Accept(s) \/ ServerJoin(s) \/ ServerTimer(s) \/ ServerClose(s)
        PROVE  Threatened(a)
    BY <2>8 DEF Accept, ServerJoin, ServerTimer, ServerClose, clientVars, Threatened
  <2>. QED BY <1>1, <2>1, <2>2, <2>3, <2>4, <2>6, <2>7, <2>8 DEF SignalingNext
<1>2. SocketInv /\ [SignalingNext]_allVars => [Step]_allVars
  BY <1>1
<1>3. SocketInv /\ [SignalingNext]_allVars => SocketInv'
  BY SocketStep
<1>. QED BY SocketInit, <1>2, <1>3, PTL DEF SignalingSpec, ThreatenedOnlyByRejoining

=============================================================================
