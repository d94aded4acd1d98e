------------------------------ MODULE MCClient ------------------------------
(* The client's signaling connections, its sessions and its own audio output.   *)
(* They share no state, so a behaviour is about one of them (`focus`) and the    *)
(* others keep their first state.                                                *)
EXTENDS MCSignaling, SessionLifecycle, AppAudio

VARIABLE focus

ClientInit ==
  /\ SignalingInit /\ LifecycleInit /\ AppAudioInit
  /\ focus \in {"signaling", "sessions", "app audio"}

ClientNext ==
  /\ \/ focus = "signaling" /\ MCNext /\ UNCHANGED <<lifecycleVars, appAudioVars>>
     \/ focus = "sessions" /\ LifecycleNext /\ UNCHANGED <<allVars, appAudioVars>>
     \/ focus = "app audio" /\ AppAudioNext /\ UNCHANGED <<allVars, lifecycleVars>>
  /\ UNCHANGED focus

everything == <<allVars, lifecycleVars, appAudioVars, focus>>

\* Each part is scheduled as it is alone.  At rest the others have nothing to do
\* but the poll of a game, which is left out where sessions are not the subject.
FairClientSpec ==
  /\ ClientInit /\ [][ClientNext]_everything
  /\ SignalingFairness
  /\ AppAudioFairness
  /\ WF_lifecycleVars(focus = "sessions" /\ Poll)
  /\ WF_lifecycleVars(\E t \in starts : Resume(t))
=============================================================================
