------------------------------ MODULE MCNative ------------------------------
(* What surrounds the voices in the app: the death watch, the classifier's      *)
(* evidence, a game's debug bundle, the push-to-talk keys and the native output's *)
(* buffer.  They share no state, so a behaviour is about one of them (`focus`)  *)
(* and the others keep their first state.                                       *)
EXTENDS DeathWatch, LockEvidence, GameBundle, PushToTalk, Jitter

VARIABLE focus

NativeInit ==
  /\ DeathInit /\ EvidenceInit /\ BundleInit /\ PttInit /\ JitterInit
  /\ focus \in {"death", "evidence", "bundle", "keys", "jitter"}
  /\ focus = "keys" \/ hook.vk = Other     \* one first state for the others

NativeNext ==
  /\ \/ focus = "death" /\ DeathNext /\ UNCHANGED <<lockVars, bundleVars, pttVars, jitterVars>>
     \/ focus = "evidence" /\ EvidenceNext /\ UNCHANGED <<deathVars, bundleVars, pttVars, jitterVars>>
     \/ focus = "bundle" /\ BundleNext /\ UNCHANGED <<deathVars, lockVars, pttVars, jitterVars>>
     \/ focus = "keys" /\ PttNext /\ UNCHANGED <<deathVars, lockVars, bundleVars, jitterVars>>
     \/ focus = "jitter" /\ JitterNext /\ UNCHANGED <<deathVars, lockVars, bundleVars, pttVars>>
  /\ UNCHANGED focus

NativeSpec == NativeInit /\ [][NativeNext]_<<deathVars, lockVars, bundleVars, pttVars, jitterVars, focus>>
=============================================================================
