----------------------------- MODULE PushToTalk -----------------------------
(***************************************************************************)
(* Push-to-talk: the keyboard hook (src-tauri/global_keys.rs) and its      *)
(* decision (key_decision.rs), the events it sends to the page over a      *)
(* channel (background.ts), the binds and the input mode the panel sends   *)
(* the other way (overlay.ts), and the microphone they open (audio.ts).    *)
(*                                                                         *)
(* Windows is the environment: it repeats a held key's down edge, toggles  *)
(* Caps Lock once for each press and passes what SendInput injects back    *)
(* through the hook, after whatever the player has typed by then.          *)
(***************************************************************************)
EXTENDS Integers, Sequences

CONSTANTS
  Caps,        \* VK_CAPITAL
  Other,       \* the other key push-to-talk may be bound to
  MuteKey,     \* the key bound to toggle-mute
  MaxPresses,  \* bound: key presses
  MaxChanges,  \* bound: rebindings, changes of the mode, new sessions
  MaxQueue     \* bound: events in a queue

\* 0 stands for no key.
ASSUME KeysAssumption ==
  /\ Caps # Other /\ Caps # MuteKey /\ Other # MuteKey /\ 0 \notin {Caps, Other, MuteKey}
  /\ {MaxPresses, MaxChanges, MaxQueue} \subseteq Nat

VARIABLES
  keys,      \* [down, injected, capsOn]: the keyboard and its input queue
  hook,      \* PTT_VK, PTT_ACTIVE, CAPS_HELD: [vk, active, capsHeld]
  binds,     \* on their way from the panel: set_ptt_key, set_ptt_active
  events,    \* on their way to the page
  mic,       \* [mode, pttHeld, muted]: this session's AudioService
  mutedPref, \* selfMutedPref: what the panel shows
  presses,   \* how many, and whether an odd number of Caps Lock as a plain key (plain)
             \* and of MuteKey's down edges, repeats included (mutes): [made, plain, mutes]
  changes,
  changed    \* a bind, the mode or the session changed since the key last went up
pttVars == <<keys, hook, binds, events, mic, mutedPref, presses, changes, changed>>

Keys == {Caps, Other, MuteKey}

PttInit ==
  /\ keys = [down |-> {}, injected |-> <<>>, capsOn |-> FALSE]
  /\ \E k \in {Caps, Other} : hook = [vk |-> k, active |-> FALSE, capsHeld |-> FALSE]
  /\ binds = <<>> /\ events = <<>>
  /\ mic = [mode |-> "always", pttHeld |-> FALSE, muted |-> FALSE]
  /\ mutedPref = FALSE
  /\ presses = [made |-> 0, plain |-> FALSE, mutes |-> FALSE]
  /\ changes = 0 /\ changed = FALSE

-----------------------------------------------------------------------------
(* decide.                                                                 *)

Watched == IF hook.active THEN hook.vk ELSE 0

\* Wrong variant of CapsHeld: followed only while it is the push-to-talk key.
CapsHeldWhileWatched(k, edge) ==
  IF k = Caps /\ Watched = Caps THEN edge = "down" ELSE hook.capsHeld
CapsHeld(k, edge) == IF k = Caps THEN edge = "down" ELSE hook.capsHeld

\* The first down edge of a press, and never a release or a repeat.
FlipsBack(k, edge) == Watched = Caps /\ k = Caps /\ edge = "down" /\ ~hook.capsHeld

Emitted(k, edge) ==
  CASE k = Watched -> <<IF edge = "down" THEN "pttDown" ELSE "pttUp">>
    [] k = MuteKey /\ k # Watched /\ edge = "down" -> <<"toggleMute">>
    [] OTHER -> <<>>

\* hook_proc for an event the player caused.  flip_caps_lock_back injects a press.
Hooked(k, edge, queue) ==
  /\ hook' = [hook EXCEPT !.capsHeld = CapsHeld(k, edge)]
  /\ events' = events \o Emitted(k, edge)
  /\ queue = keys.injected \o (IF FlipsBack(k, edge) THEN <<"down", "up">> ELSE <<>>)

-----------------------------------------------------------------------------
(* The player and Windows.                                                 *)

Press(k) ==
  /\ k \notin keys.down /\ presses.made < MaxPresses /\ Len(events) < MaxQueue
  /\ \E queue \in {keys.injected, keys.injected \o <<"down", "up">>} :
       /\ Hooked(k, "down", queue)
       /\ keys' = [down |-> keys.down \cup {k}, injected |-> queue,
                   capsOn |-> IF k = Caps THEN ~keys.capsOn ELSE keys.capsOn]
  /\ presses' = [made  |-> presses.made + 1,
                 plain |-> IF k = Caps /\ Watched # Caps THEN ~presses.plain ELSE presses.plain,
                 mutes |-> IF k = MuteKey THEN ~presses.mutes ELSE presses.mutes]
  /\ UNCHANGED <<binds, mic, mutedPref, changes, changed>>

\* A key held long enough goes down again and again.
Repeat(k) ==
  /\ k \in keys.down /\ Len(events) < MaxQueue
  /\ \E queue \in {keys.injected, keys.injected \o <<"down", "up">>} :
       Hooked(k, "down", queue) /\ keys' = [keys EXCEPT !.injected = queue]
  /\ presses' = [presses EXCEPT !.mutes = IF k = MuteKey THEN ~@ ELSE @]
  /\ UNCHANGED <<binds, mic, mutedPref, changes, changed>>

Release(k) ==
  /\ k \in keys.down /\ Len(events) < MaxQueue
  /\ Hooked(k, "up", keys.injected)
  /\ keys' = [keys EXCEPT !.down = @ \ {k}]
  /\ UNCHANGED <<binds, mic, mutedPref, presses, changes, changed>>

\* An injected press toggles Caps Lock like any other and means nothing to the hook.
Injected ==
  /\ keys.injected # <<>>
  /\ keys' = [keys EXCEPT !.injected = Tail(@),
                          !.capsOn = IF Head(keys.injected) = "down" THEN ~@ ELSE @]
  /\ UNCHANGED <<hook, binds, events, mic, mutedPref, presses, changes, changed>>

-----------------------------------------------------------------------------
(* The page.                                                               *)

\* The global_shortcut listener.
Shortcut ==
  /\ events # <<>>
  /\ events' = Tail(events)
  /\ CASE Head(events) = "toggleMute" -> mutedPref' = ~mutedPref /\ mic' = [mic EXCEPT !.muted = ~mutedPref]
       [] Head(events) = "pttDown" -> mic' = [mic EXCEPT !.pttHeld = TRUE] /\ UNCHANGED mutedPref
       [] Head(events) = "pttUp" -> mic' = [mic EXCEPT !.pttHeld = FALSE] /\ UNCHANGED mutedPref
  /\ UNCHANGED <<keys, hook, binds, presses, changes, changed>>

Change == changes < MaxChanges /\ changes' = changes + 1 /\ changed' = TRUE

\* setupBindButton: the new key is sent off.
Rebind(k) ==
  /\ Change
  /\ binds' = Append(binds, [set |-> "key", to |-> k])
  /\ UNCHANGED <<keys, hook, events, mic, mutedPref, presses>>

\* applyInputMode: the AudioService at once, the hook when the call arrives.
SetMode(mode) ==
  /\ Change /\ mode # mic.mode
  /\ mic' = [mic EXCEPT !.mode = mode]
  /\ binds' = Append(binds, [set |-> "active", to |-> mode = "ptt"])
  /\ UNCHANGED <<keys, hook, events, mutedPref, presses>>

\* set_ptt_key, set_ptt_active.
Bound ==
  /\ binds # <<>>
  /\ binds' = Tail(binds)
  /\ hook' = IF Head(binds).set = "key" THEN [hook EXCEPT !.vk = Head(binds).to]
             ELSE [hook EXCEPT !.active = Head(binds).to]
  /\ changed' = TRUE
  /\ UNCHANGED <<keys, events, mic, mutedPref, presses, changes>>

\* Wrong variant of NewSession: the mute is not passed on.
NewSessionUnmuted ==
  /\ Change
  /\ mic' = [mic EXCEPT !.pttHeld = FALSE, !.muted = FALSE]
  /\ UNCHANGED <<keys, hook, binds, events, mutedPref, presses>>
\* startSession gives its AudioService the mode and the mute there were.
NewSession ==
  /\ Change
  /\ mic' = [mic EXCEPT !.pttHeld = FALSE, !.muted = mutedPref]
  /\ UNCHANGED <<keys, hook, binds, events, mutedPref, presses>>

\* The hands are off the keyboard and the page has heard of it.
Settled ==
  /\ changed /\ keys.down = {} /\ events = <<>> /\ binds = <<>> /\ ~mic.pttHeld
  /\ changed' = FALSE
  /\ UNCHANGED <<keys, hook, binds, events, mic, mutedPref, presses, changes>>

PttNext ==
  \/ \E k \in Keys : Press(k) \/ Repeat(k) \/ Release(k)
  \/ Injected \/ Shortcut
  \/ \E k \in {Caps, Other} : Rebind(k)
  \/ \E mode \in {"always", "ptt"} : SetMode(mode)
  \/ Bound \/ NewSession \/ Settled

PttSpec == PttInit /\ [][PttNext]_pttVars

-----------------------------------------------------------------------------
\* "a PTT press leaves Caps Lock (and its LED) exactly as it found it" (global_keys.rs):
\* with no flip on its way, Caps Lock is on after an odd number of the presses that
\* began while it was a plain key - whatever was repeated, released in between, rebound
\* or switched in the middle of a press.
CapsLockUntouched == keys.injected = <<>> => keys.capsOn = presses.plain

\* The microphone follows the hand: once the page has heard of everything, and no
\* bind, mode or session has changed since the key was last up, it is open for just
\* as long as the key is held, and what MuteKey's down edges have come to is the mute
\* of this session and of every later one.
MicFollowsHand ==
  events = <<>> =>
    /\ mic.muted = presses.mutes
    /\ ~changed /\ mic.mode = "ptt" => (mic.pttHeld = (Watched \in keys.down))

=============================================================================
