-------------------------- MODULE NativeProofs --------------------------
(***************************************************************************)
(* Proofs about what surrounds the voices in the app: the native output's  *)
(* buffer, the push-to-talk keys, the classifier's evidence, a game's debug *)
(* bundle, and the deaths the tracker is told of.                          *)
(***************************************************************************)
EXTENDS Jitter, PushToTalk, LockEvidence, GameBundle, DeathWatch, SequenceTheorems, TLAPS

-----------------------------------------------------------------------------
(* The jitter buffer.                                                     *)

\* What is held is bounded, and so is what was sent since the last callback.
JitterOK == JitterTypeOK /\ since <= Chunk + 1 /\ DelayIsBounded

LEMMA JitterNumbers ==
  /\ Target \in Nat /\ Target > 0 /\ Most \in Nat /\ Chunk \in Nat /\ Chunk > 0 /\ Burst \in Nat
  /\ Most >= 2 * Target + Chunk + 1
BY JitterAssumption

\* A callback trims a sample exactly where Target and a callback are held twice over,
\* which is more than a page that keeps up can have added since the last one.
LEMMA PullKeepsBounds ==
  ASSUME JitterOK, Pull
  PROVE  JitterOK'
<1> USE JitterNumbers DEF JitterOK, JitterTypeOK
<1> DEFINE left == Trimmed
<1>1. left \in Nat /\ left <= held BY DEF Trimmed
<1>2. calm => left - Chunk <= 2 * Target
  BY DEF DelayIsBounded, Trimmed
<1>3. held' = IF left >= Chunk THEN left - Chunk ELSE 0
  BY DEF Pull
<1>4. held' \in Nat /\ held' <= held /\ (calm => held' <= 2 * Target)
  BY <1>1, <1>2, <1>3
<1>5. since' = 0 /\ playing' \in BOOLEAN /\ calm' \in BOOLEAN /\ (calm' => held' <= 2 * Target)
  BY <1>4 DEF Pull
<1>. QED
  BY <1>4, <1>5 DEF DelayIsBounded

LEMMA JitterStep == JitterOK /\ [JitterNext]_jitterVars => JitterOK'
<1> SUFFICES ASSUME JitterOK, [JitterNext]_jitterVars PROVE JitterOK'
  OBVIOUS
<1> USE JitterNumbers DEF JitterOK, JitterTypeOK, DelayIsBounded
<1>1. ASSUME NEW n \in 1..(Chunk + 1), Push(n) PROVE JitterOK'
  <2>1. held' \in Nat /\ held' <= Most /\ since' \in Nat /\ since' <= Chunk + 1
    BY <1>1 DEF Push, Pushed
  <2>2. held <= 2 * Target + since => held' <= 2 * Target + since'
    BY <1>1 DEF Push, Pushed
  <2>3. calm' = calm /\ playing' = playing
    BY <1>1 DEF Push
  <2>. QED  BY <2>1, <2>2, <2>3
<1>2. ASSUME NEW n \in 1..Burst, PushBurst(n) PROVE JitterOK'
  <2>1. held' \in Nat /\ held' <= Most
    BY <1>2 DEF PushBurst, Pushed
  <2>2. since' = 0 /\ ~calm' /\ calm' \in BOOLEAN /\ playing' \in BOOLEAN
    BY <1>2 DEF PushBurst
  <2>. QED  BY <2>1, <2>2
<1>3. CASE PullSilence
  <2>1. held' = held /\ since' = 0 /\ held < Target /\ playing' = playing
    BY <1>3 DEF PullSilence
  <2>2. held' \in Nat /\ held' <= Most /\ since' \in Nat /\ since' <= Chunk + 1
        /\ held' <= 2 * Target + since'
    BY <2>1
  <2>3. calm' \in BOOLEAN
    BY <1>3 DEF PullSilence
  <2>. QED  BY <2>1, <2>2, <2>3
<1>4. CASE Pull
  BY <1>4, PullKeepsBounds
<1>5. CASE Clear
  <2>1. held' = 0 /\ since' = 0  BY <1>5 DEF Clear
  <2>2. held' \in Nat /\ held' <= Most /\ since' \in Nat /\ since' <= Chunk + 1
        /\ held' <= 2 * Target + since'
    BY <2>1
  <2>3. calm' \in BOOLEAN /\ playing' \in BOOLEAN
    BY <1>5 DEF Clear
  <2>. QED  BY <2>2, <2>3
<1>6. CASE UNCHANGED jitterVars
  BY <1>6 DEF jitterVars
<1>. QED
  BY <1>1, <1>2, <1>3, <1>4, <1>5, <1>6 DEF JitterNext

\* The delay is bounded, whatever the sizes and however the two clocks run.
THEOREM DelayBounded == JitterSpec => []DelayIsBounded
<1>1. JitterInit => JitterOK
  <2>1. SUFFICES ASSUME JitterInit PROVE JitterOK
    OBVIOUS
  <2>2. held = 0 /\ since = 0
    BY <2>1 DEF JitterInit
  <2>3. held \in Nat /\ held <= Most /\ since \in Nat /\ since <= Chunk + 1
        /\ held <= 2 * Target + since
    BY <2>2, JitterNumbers
  <2>4. calm \in BOOLEAN /\ playing \in BOOLEAN
    BY <2>1 DEF JitterInit
  <2>. QED
    BY <2>3, <2>4 DEF JitterOK, JitterTypeOK, DelayIsBounded
<1>2. JitterOK => DelayIsBounded
  BY DEF JitterOK
<1>. QED
  BY <1>1, <1>2, JitterStep, PTL DEF JitterSpec

-----------------------------------------------------------------------------
(* Queues.  What a reader makes of a queue, entry by entry, is a path: where it *)
(* stands, step by step, to where it will stand when all has been read.       *)

Path(step, from, q, to) ==
  \E at \in [0..Len(q) -> BOOLEAN] :
    /\ at[0] = from /\ at[Len(q)] = to
    /\ \A i \in 1..Len(q) : at[i] = step[q[i]][at[i - 1]]

LEMMA PathEnds ==
  ASSUME NEW step, NEW from \in BOOLEAN, NEW to \in BOOLEAN
  PROVE  Path(step, from, <<>>, to) <=> from = to
<1>1. ASSUME from = to PROVE Path(step, from, <<>>, to)
  <2> DEFINE at == [i \in 0..Len(<<>>) |-> from]
  <2>1. at \in [0..Len(<<>>) -> BOOLEAN] /\ at[0] = from /\ at[Len(<<>>)] = to
    BY <1>1
  <2>2. \A i \in 1..Len(<<>>) : at[i] = step[<<>>[i]][at[i - 1]]
    OBVIOUS
  <2>. HIDE DEF at
  <2>. QED BY <2>1, <2>2 DEF Path
<1>2. ASSUME Path(step, from, <<>>, to) PROVE from = to
  BY <1>2 DEF Path
<1>. QED BY <1>1, <1>2

LEMMA PathGrows ==
  ASSUME NEW E, NEW step \in [E -> [BOOLEAN -> BOOLEAN]], NEW q \in Seq(E), NEW e \in E,
         NEW from \in BOOLEAN, NEW to \in BOOLEAN, Path(step, from, q, to)
  PROVE  Path(step, from, Append(q, e), step[e][to])
<1>1. PICK at \in [0..Len(q) -> BOOLEAN] :
        /\ at[0] = from /\ at[Len(q)] = to
        /\ \A i \in 1..Len(q) : at[i] = step[q[i]][at[i - 1]]
  BY DEF Path
<1> DEFINE n == Len(q)
           more == [i \in 0..(n + 1) |-> IF i = n + 1 THEN step[e][to] ELSE at[i]]
<1>2. n \in Nat /\ Len(Append(q, e)) = n + 1 /\ step[e][to] \in BOOLEAN
  OBVIOUS
<1>3. more \in [0..(n + 1) -> BOOLEAN]
  BY <1>2
<1>4. more[0] = from /\ more[n + 1] = step[e][to]
  BY <1>1, <1>2
<1>5. ASSUME NEW i \in 1..(n + 1) PROVE more[i] = step[Append(q, e)[i]][more[i - 1]]
  <2>1. CASE i = n + 1
    BY <1>1, <1>2, <2>1
  <2>2. CASE i # n + 1
    <3>1. i \in 1..n /\ Append(q, e)[i] = q[i]
      BY <1>2, <2>2
    <3>. QED BY <1>1, <1>2, <3>1
  <2>. QED BY <2>1, <2>2
<1>. HIDE DEF more
<1>. QED BY <1>2, <1>3, <1>4, <1>5 DEF Path

LEMMA PathShrinks ==
  ASSUME NEW E, NEW step \in [E -> [BOOLEAN -> BOOLEAN]], NEW q \in Seq(E), q # <<>>,
         NEW from \in BOOLEAN, NEW to \in BOOLEAN, Path(step, from, q, to)
  PROVE  Path(step, step[Head(q)][from], Tail(q), to)
<1>1. PICK at \in [0..Len(q) -> BOOLEAN] :
        /\ at[0] = from /\ at[Len(q)] = to
        /\ \A i \in 1..Len(q) : at[i] = step[q[i]][at[i - 1]]
  BY DEF Path
<1> DEFINE n == Len(Tail(q))
           rest == [i \in 0..n |-> at[i + 1]]
<1>2. n \in Nat /\ Len(q) = n + 1 /\ Head(q) = q[1] /\ \A i \in 1..n : Tail(q)[i] = q[i + 1]
  BY HeadTailProperties
<1>. HIDE DEF n
<1>3. rest \in [0..n -> BOOLEAN]
  BY <1>2
<1>4. rest[0] = step[Head(q)][from] /\ rest[n] = to
  BY <1>1, <1>2
<1>5. ASSUME NEW i \in 1..n PROVE rest[i] = step[Tail(q)[i]][rest[i - 1]]
  <2>1. i + 1 \in 1..Len(q) /\ i - 1 \in 0..n /\ (i - 1) + 1 = i /\ (i + 1) - 1 = i
    BY <1>2
  <2>. QED BY <1>1, <1>2, <2>1
<1>. HIDE DEF rest
<1>. QED BY <1>3, <1>4, <1>5 DEF Path, n

-----------------------------------------------------------------------------
(* Caps Lock.                                                               *)

\* What SendInput injected and is still on its way ends with a whole press, so that
\* the number of down edges in it is told by its length.
Presses(q) ==
  \A i \in 1..Len(q), k \in Nat : /\ Len(q) - i = 2 * k => q[i] = "up"
                                  /\ Len(q) - i = 2 * k + 1 => q[i] = "down"
Downs(q, odd) == \E k \in Nat : Len(q) = 4 * k + 2 * odd \/ Len(q) = 4 * k + 2 * odd + 1

CapsInv ==
  /\ keys.capsOn \in BOOLEAN /\ presses.plain \in BOOLEAN
  /\ hook.capsHeld = (Caps \in keys.down)
  /\ keys.injected \in Seq({"down", "up"}) /\ Presses(keys.injected)
  /\ \E odd \in {0, 1} : Downs(keys.injected, odd) /\ (odd = 0 <=> keys.capsOn = presses.plain)

LEMMA AnotherPress ==
  ASSUME NEW q \in Seq({"down", "up"}), Presses(q), NEW odd \in {0, 1}, Downs(q, odd)
  PROVE  LET more == q \o <<"down", "up">>
         IN more \in Seq({"down", "up"}) /\ Presses(more) /\ Downs(more, 1 - odd)
<1> DEFINE more == q \o <<"down", "up">>  n == Len(q)
<1>1. /\ more \in Seq({"down", "up"}) /\ n \in Nat /\ Len(more) = n + 2
      /\ \A i \in 1..n : more[i] = q[i]
      /\ more[n + 1] = "down" /\ more[n + 2] = "up"
  OBVIOUS
<1>. HIDE DEF more
<1>2. ASSUME NEW i \in 1..Len(more), NEW k \in Nat
      PROVE  /\ Len(more) - i = 2 * k => more[i] = "up"
             /\ Len(more) - i = 2 * k + 1 => more[i] = "down"
  <2>. HIDE DEF n
  <2>1. CASE i = n + 2
    BY <1>1, <2>1
  <2>2. CASE i = n + 1
    BY <1>1, <2>2
  <2>3. CASE i \in 1..n
    <3>1. n - i = 2 * (k - 1) /\ k - 1 \in Nat => q[i] = "up"
      BY <2>3 DEF Presses, n
    <3>2. n - i = 2 * (k - 1) + 1 /\ k - 1 \in Nat => q[i] = "down"
      BY <2>3 DEF Presses, n
    <3>. QED BY <1>1, <2>3, <3>1, <3>2
  <2>. QED BY <1>1, <2>1, <2>2, <2>3
<1>3. Downs(more, 1 - odd)
  <2>1. PICK k \in Nat : n = 4 * k + 2 * odd \/ n = 4 * k + 2 * odd + 1
    BY DEF Downs
  <2>2. CASE odd = 0
    <3>1. Len(more) = 4 * k + 2 * 1 \/ Len(more) = 4 * k + 2 * 1 + 1
      BY <1>1, <2>1, <2>2
    <3>. QED BY <2>2, <3>1 DEF Downs
  <2>3. CASE odd = 1
    <3>1. k + 1 \in Nat /\ (Len(more) = 4 * (k + 1) + 2 * 0 \/ Len(more) = 4 * (k + 1) + 2 * 0 + 1)
      BY <1>1, <2>1, <2>3
    <3>2. 1 - odd = 0
      BY <2>3
    <3>3. \E j \in Nat : Len(more) = 4 * j + 2 * 0 \/ Len(more) = 4 * j + 2 * 0 + 1
      BY <3>1
    <3>. QED BY <3>2, <3>3 DEF Downs
  <2>. QED BY <2>2, <2>3
<1>. QED BY <1>1, <1>2, <1>3 DEF Presses, more

LEMMA OneComesBack ==
  ASSUME NEW q \in Seq({"down", "up"}), Presses(q), NEW odd \in {0, 1}, Downs(q, odd), q # <<>>
  PROVE  /\ Tail(q) \in Seq({"down", "up"}) /\ Presses(Tail(q))
         /\ Head(q) = "down" => Downs(Tail(q), 1 - odd)
         /\ Head(q) # "down" => Downs(Tail(q), odd)
<1> DEFINE rest == Tail(q)  n == Len(rest)
<1>1. /\ rest \in Seq({"down", "up"}) /\ n \in Nat /\ Len(q) = n + 1 /\ Head(q) = q[1]
      /\ \A i \in 1..n : rest[i] = q[i + 1]
  BY HeadTailProperties
<1>. HIDE DEF n, rest
<1>2. Presses(rest)
  <2>1. ASSUME NEW i \in 1..n, NEW k \in Nat
        PROVE  /\ n - i = 2 * k => rest[i] = "up"
               /\ n - i = 2 * k + 1 => rest[i] = "down"
    <3>1. i + 1 \in 1..Len(q) /\ Len(q) - (i + 1) = n - i
      BY <1>1
    <3>. QED BY <1>1, <3>1 DEF Presses
  <2>. QED BY <2>1 DEF Presses, n
<1>3. PICK k \in Nat : n + 1 = 4 * k + 2 * odd \/ n + 1 = 4 * k + 2 * odd + 1
  BY <1>1 DEF Downs
<1>4. ASSUME NEW j \in Nat
      PROVE  /\ n = 2 * j => Head(q) = "up"
             /\ n = 2 * j + 1 => Head(q) = "down"
  <2>1. 1 \in 1..Len(q) /\ Len(q) - 1 = n
    BY <1>1
  <2>. QED BY <1>1, <2>1 DEF Presses
<1>5. CASE n + 1 = 4 * k + 2 * odd + 1
  <2>1. 2 * k + odd \in Nat /\ n = 2 * (2 * k + odd)
    BY <1>1, <1>5
  <2>2. Head(q) = "up"
    BY <1>4, <2>1
  <2>3. n = 4 * k + 2 * odd
    BY <1>1, <1>5
  <2>. QED BY <1>1, <1>2, <2>2, <2>3 DEF Downs, rest, n
<1>6. CASE n + 1 = 4 * k + 2 * odd
  <2>1. CASE odd = 1
    <3>1. Head(q) = "down"
      <4>1. 2 * k \in Nat /\ n = 2 * (2 * k) + 1
        BY <1>1, <1>6, <2>1
      <4>. QED BY <1>4, <4>1
    <3>2. n = 4 * k + 2 * 0 + 1
      BY <1>1, <1>6, <2>1
    <3>3. 1 - odd = 0 /\ Downs(rest, 0)
      BY <2>1, <3>2 DEF Downs, n
    <3>. QED BY <1>1, <1>2, <3>1, <3>3 DEF rest
  <2>2. CASE odd = 0
    <3>1. Head(q) = "down"
      <4>1. 2 * k - 1 \in Nat /\ n = 2 * (2 * k - 1) + 1
        BY <1>1, <1>6, <2>2
      <4>. QED BY <1>4, <4>1
    <3>2. k - 1 \in Nat /\ n = 4 * (k - 1) + 2 * 1 + 1
      BY <1>1, <1>6, <2>2
    <3>3. \E j \in Nat : n = 4 * j + 2 * 1 \/ n = 4 * j + 2 * 1 + 1
      BY <3>2
    <3>4. 1 - odd = 1 /\ Downs(rest, 1)
      BY <2>2, <3>3 DEF Downs, n
    <3>. QED BY <1>1, <1>2, <3>1, <3>4 DEF rest
  <2>. QED BY <2>1, <2>2
<1>. QED BY <1>3, <1>5, <1>6

Keyboard  == [down : SUBSET Keys, injected : Seq({"down", "up"}), capsOn : BOOLEAN]
Microphone == [mode : {"always", "ptt"}, pttHeld : BOOLEAN, muted : BOOLEAN]
Shortcuts == {"pttDown", "pttUp", "toggleMute"}
Binds     == [set : {"key"}, to : {Caps, Other}] \cup [set : {"active"}, to : BOOLEAN]

KeysOK ==
  /\ keys \in Keyboard
  /\ presses \in [made : Nat, plain : BOOLEAN, mutes : BOOLEAN]
  /\ hook \in [vk : {Caps, Other}, active : BOOLEAN, capsHeld : BOOLEAN]
  /\ binds \in Seq(Binds) /\ events \in Seq(Shortcuts)
  /\ mic \in Microphone
  /\ mutedPref \in BOOLEAN /\ changed \in BOOLEAN

\* An edge of the player's, through the hook.
LEMMA EdgeKeepsCaps ==
  ASSUME KeysOK, CapsInv, NEW k \in Keys, NEW edge \in {"down", "up"}, NEW queue, Hooked(k, edge, queue),
         keys'.injected = queue, keys'.down \in SUBSET Keys,
         \/ edge = "down" /\ keys'.down = keys.down \cup {k}
         \/ edge = "up" /\ keys'.down = keys.down \ {k},
         \/ /\ k = Caps /\ edge = "down" /\ Caps \notin keys.down
            /\ keys'.capsOn = ~keys.capsOn
            /\ presses'.plain = (IF Watched # Caps THEN ~presses.plain ELSE presses.plain)
         \/ /\ ~(k = Caps /\ edge = "down" /\ Caps \notin keys.down)
            /\ keys'.capsOn = keys.capsOn /\ presses'.plain = presses.plain
  PROVE  CapsInv'
<1>1. hook'.capsHeld = (Caps \in keys'.down)
  BY DEF Hooked, CapsHeld, CapsInv, KeysOK
<1>2. keys'.capsOn \in BOOLEAN /\ presses'.plain \in BOOLEAN
  BY DEF CapsInv
<1>3. PICK odd \in {0, 1} : Downs(keys.injected, odd) /\ (odd = 0 <=> keys.capsOn = presses.plain)
  BY DEF CapsInv
<1>4. CASE FlipsBack(k, edge)
  <2>1. k = Caps /\ edge = "down" /\ Caps \notin keys.down /\ Watched = Caps
    BY <1>4 DEF FlipsBack, CapsInv
  <2>2. keys'.injected = keys.injected \o <<"down", "up">>
    BY <1>4 DEF Hooked
  <2>3. keys'.injected \in Seq({"down", "up"}) /\ Presses(keys'.injected)
          /\ Downs(keys'.injected, 1 - odd)
    BY <1>3, <2>2, AnotherPress DEF CapsInv
  <2>4. 1 - odd \in {0, 1} /\ (1 - odd = 0 <=> keys'.capsOn = presses'.plain)
    BY <1>3, <2>1 DEF CapsInv
  <2>. QED BY <1>1, <1>2, <2>3, <2>4 DEF CapsInv
<1>5. CASE ~FlipsBack(k, edge)
  <2>1. keys'.injected = keys.injected
    BY <1>5 DEF Hooked, CapsInv
  <2>2. keys'.capsOn = presses'.plain <=> keys.capsOn = presses.plain
    BY <1>5 DEF CapsInv, FlipsBack
  <2>. QED BY <1>1, <1>2, <1>3, <2>1, <2>2 DEF CapsInv
<1>. QED BY <1>4, <1>5

-----------------------------------------------------------------------------
(* Types.                                                                   *)

LEMMA EmittedType ==
  ASSUME NEW k \in Keys, NEW edge \in {"down", "up"}
  PROVE  Emitted(k, edge) = <<>> \/ \E e \in Shortcuts : Emitted(k, edge) = <<e>>
BY DEF Emitted, Shortcuts

LEMMA Reads ==
  ASSUME KeysOK, NEW k \in Keys, NEW edge \in {"down", "up"}
  PROVE  /\ events \o Emitted(k, edge) \in Seq(Shortcuts)
         /\ \/ Emitted(k, edge) = <<>> /\ events \o Emitted(k, edge) = events
            \/ \E e \in Shortcuts : /\ Emitted(k, edge) = <<e>>
                                    /\ events \o Emitted(k, edge) = Append(events, e)
<1>1. events \in Seq(Shortcuts)
  BY DEF KeysOK
<1>2. CASE Emitted(k, edge) = <<>>
  BY <1>1, <1>2
<1>3. ASSUME NEW e \in Shortcuts, Emitted(k, edge) = <<e>>
      PROVE  /\ events \o Emitted(k, edge) = Append(events, e)
             /\ events \o Emitted(k, edge) \in Seq(Shortcuts)
  BY <1>1, <1>3
<1>. QED BY <1>2, <1>3, EmittedType

LEMMA QueueChanges ==
  ASSUME NEW ks \in Keyboard, NEW q \in Seq({"down", "up"})
  PROVE  /\ [ks EXCEPT !.injected = q] \in Keyboard /\ [ks EXCEPT !.injected = q].injected = q
         /\ [ks EXCEPT !.injected = q].down = ks.down
              /\ [ks EXCEPT !.injected = q].capsOn = ks.capsOn
BY DEF Keyboard

LEMMA DownChanges ==
  ASSUME NEW ks \in Keyboard, NEW d \in SUBSET Keys
  PROVE  /\ [ks EXCEPT !.down = d] \in Keyboard /\ [ks EXCEPT !.down = d].down = d
         /\ [ks EXCEPT !.down = d].injected = ks.injected
              /\ [ks EXCEPT !.down = d].capsOn = ks.capsOn
BY DEF Keyboard

Popped(ks, q, on) == [ks EXCEPT !.injected = q, !.capsOn = on]

LEMMA CapsChanges ==
  ASSUME NEW ks \in Keyboard, NEW q \in Seq({"down", "up"}), NEW on \in BOOLEAN
  PROVE  /\ Popped(ks, q, on) \in Keyboard /\ Popped(ks, q, on).injected = q
         /\ Popped(ks, q, on).capsOn = on /\ Popped(ks, q, on).down = ks.down
BY DEF Keyboard, Popped

\* What comes off the queue toggles Caps Lock or does not.
LEMMA InjectedChanges ==
  ASSUME KeysOK, Injected
  PROVE  /\ keys' \in Keyboard /\ keys'.injected = Tail(keys.injected) /\ keys'.down = keys.down
         /\ Head(keys.injected) = "down" => keys'.capsOn = ~keys.capsOn
         /\ Head(keys.injected) # "down" => keys'.capsOn = keys.capsOn
<1>1. /\ keys \in Keyboard /\ keys.injected \in Seq({"down", "up"}) /\ keys.injected # <<>>
      /\ keys.capsOn \in BOOLEAN /\ (~keys.capsOn) \in BOOLEAN
  BY DEF KeysOK, Keyboard, Injected
<1> DEFINE rest == Tail(keys.injected)
<1>2. rest \in Seq({"down", "up"})
  BY <1>1
<1>. HIDE DEF rest
<1>3. CASE Head(keys.injected) = "down"
  <2>1. PICK on \in BOOLEAN : on = ~keys.capsOn
    BY <1>1
  <2>2. keys' = Popped(keys, rest, on)
    BY <1>1, <1>3, <2>1 DEF Injected, Keyboard, Popped, rest
  <2>3. /\ keys' \in Keyboard /\ keys'.injected = rest
        /\ keys'.capsOn = on /\ keys'.down = keys.down
    BY <1>1, <1>2, <2>2, CapsChanges
  <2>. QED BY <1>3, <2>1, <2>3 DEF rest
<1>4. CASE Head(keys.injected) # "down"
  <2>1. PICK on \in BOOLEAN : on = keys.capsOn
    BY <1>1
  <2>2. keys' = Popped(keys, rest, on)
    BY <1>1, <1>4, <2>1 DEF Injected, Keyboard, Popped, rest
  <2>3. /\ keys' \in Keyboard /\ keys'.injected = rest
        /\ keys'.capsOn = on /\ keys'.down = keys.down
    BY <1>1, <1>2, <2>2, CapsChanges
  <2>. QED BY <1>4, <2>1, <2>3 DEF rest
<1>. QED BY <1>3, <1>4

LEMMA LongerQueue ==
  ASSUME KeysOK
  PROVE  /\ keys.injected \in Seq({"down", "up"})
         /\ keys.injected \o <<"down", "up">> \in Seq({"down", "up"})
<1>1. \A q \in Seq({"down", "up"}) : q \o <<"down", "up">> \in Seq({"down", "up"})
  OBVIOUS
<1>. QED BY <1>1 DEF KeysOK, Keyboard

LEMMA HookChanges ==
  ASSUME NEW h \in [vk : {Caps, Other}, active : BOOLEAN, capsHeld : BOOLEAN],
         NEW v \in {Caps, Other}, NEW b \in BOOLEAN
  PROVE  /\ [h EXCEPT !.vk = v] = [vk |-> v, active |-> h.active, capsHeld |-> h.capsHeld]
         /\ [h EXCEPT !.active = b] = [vk |-> h.vk, active |-> b, capsHeld |-> h.capsHeld]
         /\ [h EXCEPT !.capsHeld = b] = [vk |-> h.vk, active |-> h.active, capsHeld |-> b]
OBVIOUS

LEMMA MutedChanges ==
  ASSUME NEW m \in Microphone, NEW b \in BOOLEAN
  PROVE  /\ [m EXCEPT !.muted = b] \in Microphone /\ [m EXCEPT !.muted = b].muted = b
         /\ [m EXCEPT !.muted = b].pttHeld = m.pttHeld
BY DEF Microphone

LEMMA HeldChanges ==
  ASSUME NEW m \in Microphone, NEW b \in BOOLEAN
  PROVE  /\ [m EXCEPT !.pttHeld = b] \in Microphone /\ [m EXCEPT !.pttHeld = b].pttHeld = b
         /\ [m EXCEPT !.pttHeld = b].muted = m.muted
BY DEF Microphone

LEMMA ModeChanges ==
  ASSUME NEW m \in Microphone, NEW mode \in {"always", "ptt"}
  PROVE  [m EXCEPT !.mode = mode] \in Microphone /\ [m EXCEPT !.mode = mode].muted = m.muted
BY DEF Microphone

LEMMA SessionChanges ==
  ASSUME NEW m \in Microphone, NEW b \in BOOLEAN
  PROVE  /\ [m EXCEPT !.pttHeld = FALSE, !.muted = b] \in Microphone
         /\ [m EXCEPT !.pttHeld = FALSE, !.muted = b].muted = b
BY DEF Microphone

\* What the page makes of the event at the head of the queue.
LEMMA ShortcutChanges ==
  ASSUME KeysOK, Shortcut
  PROVE  /\ mic' \in Microphone /\ mutedPref' \in BOOLEAN
         /\ Head(events) = "toggleMute" => /\ mutedPref' = ~mutedPref /\ mic'.muted = mutedPref'
                                           /\ mic'.pttHeld = mic.pttHeld
         /\ Head(events) = "pttDown" => mic'.pttHeld = TRUE
         /\ Head(events) = "pttUp" => mic'.pttHeld = FALSE
         /\ Head(events) # "toggleMute" => mutedPref' = mutedPref /\ mic'.muted = mic.muted
<1>1. mic \in Microphone /\ mutedPref \in BOOLEAN /\ (~mutedPref) \in BOOLEAN
        /\ Head(events) \in Shortcuts
  BY DEF KeysOK, Shortcut
<1>2. CASE Head(events) = "toggleMute"
  <2>1. mutedPref' = ~mutedPref /\ mic' = [mic EXCEPT !.muted = ~mutedPref]
    BY <1>2 DEF Shortcut
  <2>. QED BY <1>1, <1>2, <2>1, MutedChanges
<1>3. CASE Head(events) = "pttDown"
  <2>1. mutedPref' = mutedPref /\ mic' = [mic EXCEPT !.pttHeld = TRUE]
    BY <1>3 DEF Shortcut
  <2>. QED BY <1>1, <1>3, <2>1, HeldChanges
<1>4. CASE Head(events) = "pttUp"
  <2>1. mutedPref' = mutedPref /\ mic' = [mic EXCEPT !.pttHeld = FALSE]
    BY <1>4 DEF Shortcut
  <2>. QED BY <1>1, <1>4, <2>1, HeldChanges
<1>. QED BY <1>1, <1>2, <1>3, <1>4 DEF Shortcuts

LEMMA HookTypes ==
  ASSUME KeysOK, NEW k \in Keys, NEW edge \in {"down", "up"}, NEW queue \in Seq({"down", "up"}),
         Hooked(k, edge, queue)
  PROVE  /\ hook' \in [vk : {Caps, Other}, active : BOOLEAN, capsHeld : BOOLEAN]
         /\ hook'.vk = hook.vk /\ hook'.active = hook.active /\ Watched' = Watched
         /\ events' = events \o Emitted(k, edge) /\ events' \in Seq(Shortcuts)
<1>1. CapsHeld(k, edge) \in BOOLEAN
  BY DEF CapsHeld, KeysOK
<1>2. hook' = [vk |-> hook.vk, active |-> hook.active, capsHeld |-> CapsHeld(k, edge)]
  BY <1>1, HookChanges DEF Hooked, KeysOK
<1>3. events' = events \o Emitted(k, edge)
  BY DEF Hooked
<1>4. events' \in Seq(Shortcuts)
  BY <1>3, Reads
<1>. QED BY <1>1, <1>2, <1>3, <1>4 DEF KeysOK, Watched

LEMMA KeysStep ==
  ASSUME KeysOK, [PttNext]_pttVars
  PROVE  KeysOK'
<1> USE DEF KeysOK
<1>1. ASSUME NEW q \in {keys.injected, keys.injected \o <<"down", "up">>}
      PROVE  q \in Seq({"down", "up"})
  BY LongerQueue
<1>2. ASSUME NEW k \in Keys, Press(k) PROVE KeysOK'
  <2>1. PICK q \in Seq({"down", "up"}) :
          /\ Hooked(k, "down", q)
          /\ keys' = [down |-> keys.down \cup {k}, injected |-> q,
                      capsOn |-> IF k = Caps THEN ~keys.capsOn ELSE keys.capsOn]
    BY <1>1, <1>2 DEF Press
  <2>2. keys' \in Keyboard
    BY <2>1 DEF Keyboard
  <2>3. presses' \in [made : Nat, plain : BOOLEAN, mutes : BOOLEAN]
    <3> DEFINE plain == IF k = Caps /\ Watched # Caps THEN ~presses.plain ELSE presses.plain
               mutes == IF k = MuteKey THEN ~presses.mutes ELSE presses.mutes
    <3>1. /\ presses.plain \in BOOLEAN /\ (~presses.plain) \in BOOLEAN
          /\ presses.mutes \in BOOLEAN /\ (~presses.mutes) \in BOOLEAN
      OBVIOUS
    <3>2. plain \in BOOLEAN
      BY <3>1, Zenon
    <3>3. mutes \in BOOLEAN
      BY <3>1, Zenon
    <3>4. presses.made + 1 \in Nat
      OBVIOUS
    <3>5. presses' = [made |-> presses.made + 1, plain |-> plain, mutes |-> mutes]
      BY <1>2 DEF Press
    <3>. HIDE DEF plain, mutes
    <3>. QED BY <3>2, <3>3, <3>4, <3>5
  <2>. QED BY <1>2, <2>1, <2>2, <2>3, HookTypes DEF Press
<1>3. ASSUME NEW k \in Keys, Repeat(k) PROVE KeysOK'
  <2>1. PICK q \in Seq({"down", "up"}) :
          Hooked(k, "down", q) /\ keys' = [keys EXCEPT !.injected = q]
    BY <1>1, <1>3 DEF Repeat
  <2>2. presses' \in [made : Nat, plain : BOOLEAN, mutes : BOOLEAN]
    BY <1>3 DEF Repeat
  <2>. QED BY <1>3, <2>1, <2>2, HookTypes, QueueChanges DEF Repeat
<1>4. ASSUME NEW k \in Keys, Release(k) PROVE KeysOK'
  <2>1. keys.injected \in Seq({"down", "up"})
    BY DEF Keyboard
  <2>2. keys' \in Keyboard
    BY <1>4, <2>1, DownChanges DEF Release, Keyboard
  <2>. QED BY <1>4, <2>1, <2>2, HookTypes DEF Release
<1>5. CASE Injected
  BY <1>5, InjectedChanges DEF Injected
<1>6. CASE Shortcut
  <2>1. events # <<>> /\ events' = Tail(events) /\ Head(events) \in Shortcuts
          /\ events' \in Seq(Shortcuts)
    BY <1>6 DEF Shortcut
  <2>2. mutedPref' \in BOOLEAN /\ mic' \in Microphone
    BY <1>6, ShortcutChanges
  <2>. QED BY <1>6, <2>1, <2>2 DEF Shortcut
<1>7. ASSUME NEW k \in {Caps, Other}, Rebind(k) PROVE KeysOK'
  BY <1>7 DEF Rebind, Change, Binds
<1>8. ASSUME NEW mode \in {"always", "ptt"}, SetMode(mode) PROVE KeysOK'
  <2>1. (mode = "ptt") \in BOOLEAN
    OBVIOUS
  <2>2. [set |-> "active", to |-> mode = "ptt"] \in Binds
    BY <2>1 DEF Binds
  <2>3. binds' \in Seq(Binds) /\ mic' \in Microphone
    BY <1>8, <2>2, ModeChanges, AppendProperties DEF SetMode
  <2>. QED BY <1>8, <2>3 DEF SetMode, Change
<1>9. CASE Bound
  <2>1. Head(binds) \in Binds /\ binds' \in Seq(Binds)
    BY <1>9 DEF Bound
  <2>2. hook' \in [vk : {Caps, Other}, active : BOOLEAN, capsHeld : BOOLEAN]
    BY <1>9, <2>1, HookChanges DEF Bound, Binds
  <2>. QED BY <1>9, <2>1, <2>2 DEF Bound
<1>10. CASE NewSession
  BY <1>10, SessionChanges DEF NewSession, Change
<1>11. CASE Settled
  BY <1>11 DEF Settled
<1>12. CASE UNCHANGED pttVars
  BY <1>12 DEF pttVars
<1>. QED BY <1>2, <1>3, <1>4, <1>5, <1>6, <1>7, <1>8, <1>9, <1>10, <1>11, <1>12 DEF PttNext

-----------------------------------------------------------------------------
LEMMA CapsStep ==
  ASSUME KeysOK, CapsInv, [PttNext]_pttVars
  PROVE  CapsInv'
<1>1. ASSUME NEW k \in Keys, Press(k) PROVE CapsInv'
  <2>1. PICK q :
          /\ Hooked(k, "down", q)
          /\ keys' = [down |-> keys.down \cup {k}, injected |-> q,
                      capsOn |-> IF k = Caps THEN ~keys.capsOn ELSE keys.capsOn]
    BY <1>1 DEF Press
  <2>2. /\ k \notin keys.down
        /\ presses'.plain = IF k = Caps /\ Watched # Caps THEN ~presses.plain ELSE presses.plain
    BY <1>1 DEF Press
  <2>3. keys.down \cup {k} \in SUBSET Keys
    BY DEF KeysOK, Keyboard
  <2>. QED BY <2>1, <2>2, <2>3, EdgeKeepsCaps
<1>2. ASSUME NEW k \in Keys, Repeat(k) PROVE CapsInv'
  <2>1. PICK q \in {keys.injected, keys.injected \o <<"down", "up">>} :
          Hooked(k, "down", q) /\ keys' = [keys EXCEPT !.injected = q]
    BY <1>2 DEF Repeat
  <2>2. q \in Seq({"down", "up"})
    BY <2>1, LongerQueue
  <2>3. /\ keys'.injected = q /\ keys'.down = keys.down /\ keys'.capsOn = keys.capsOn
        /\ keys.down \in SUBSET Keys /\ k \in keys.down
    BY <1>2, <2>1, <2>2, QueueChanges DEF KeysOK, Keyboard, Repeat
  <2>4. presses'.plain = presses.plain
    BY <1>2 DEF Repeat, KeysOK
  <2>5. keys'.down = keys.down \cup {k}
    BY <2>3
  <2>. QED BY <2>1, <2>3, <2>4, <2>5, EdgeKeepsCaps
<1>3. ASSUME NEW k \in Keys, Release(k) PROVE CapsInv'
  <2>1. Hooked(k, "up", keys.injected) /\ keys' = [keys EXCEPT !.down = @ \ {k}]
          /\ presses' = presses
    BY <1>3 DEF Release
  <2>2. keys \in Keyboard /\ keys.down \ {k} \in SUBSET Keys /\ keys.down \in SUBSET Keys
    BY DEF KeysOK, Keyboard
  <2>3. keys'.injected = keys.injected /\ keys'.down = keys.down \ {k} /\ keys'.capsOn = keys.capsOn
    BY <2>1, <2>2, DownChanges
  <2>. QED BY <2>1, <2>2, <2>3, EdgeKeepsCaps
<1>4. CASE Injected
  <2>1. UNCHANGED <<hook, presses>> /\ keys.injected # <<>>
    BY <1>4 DEF Injected
  <2>2. Tail(keys.injected) \in Seq({"down", "up"})
    BY <2>1, LongerQueue
  <2>3. /\ keys'.injected = Tail(keys.injected) /\ keys'.down = keys.down
        /\ Head(keys.injected) = "down" => keys'.capsOn = ~keys.capsOn
        /\ Head(keys.injected) # "down" => keys'.capsOn = keys.capsOn
    BY <1>4, InjectedChanges
  <2>4. PICK odd \in {0, 1} : Downs(keys.injected, odd) /\ (odd = 0 <=> keys.capsOn = presses.plain)
    BY DEF CapsInv
  <2>5. /\ Presses(Tail(keys.injected))
        /\ Head(keys.injected) = "down" => Downs(Tail(keys.injected), 1 - odd)
        /\ Head(keys.injected) # "down" => Downs(Tail(keys.injected), odd)
    BY <2>1, <2>4, OneComesBack DEF CapsInv
  <2>6. CASE Head(keys.injected) = "down"
    <3>1. 1 - odd \in {0, 1} /\ (1 - odd = 0 <=> keys'.capsOn = presses'.plain)
      BY <2>1, <2>3, <2>4, <2>6 DEF CapsInv
    <3>. QED BY <2>1, <2>2, <2>3, <2>5, <2>6, <3>1 DEF CapsInv
  <2>7. CASE Head(keys.injected) # "down"
    <3>1. odd = 0 <=> keys'.capsOn = presses'.plain
      BY <2>1, <2>3, <2>4, <2>7 DEF CapsInv
    <3>. QED BY <2>1, <2>2, <2>3, <2>4, <2>5, <2>7, <3>1 DEF CapsInv
  <2>. QED BY <2>6, <2>7
<1>5. CASE UNCHANGED <<keys, presses>> /\ hook'.capsHeld = hook.capsHeld
  BY <1>5 DEF CapsInv
<1>6. ASSUME Shortcut \/ NewSession \/ Settled \/ UNCHANGED pttVars
             \/ (\E k \in {Caps, Other} : Rebind(k)) \/ (\E mode \in {"always", "ptt"} : SetMode(mode))
      PROVE  CapsInv'
  BY <1>5, <1>6 DEF Shortcut, NewSession, Settled, pttVars, Rebind, SetMode
<1>7. CASE Bound
  <2>1. Head(binds) \in Binds
    BY <1>7 DEF Bound, KeysOK
  <2>2. hook'.capsHeld = hook.capsHeld
    BY <1>7, <2>1, HookChanges DEF Bound, Binds, KeysOK
  <2>. QED BY <1>5, <1>7, <2>2 DEF Bound
<1>. QED BY <1>1, <1>2, <1>3, <1>4, <1>6, <1>7 DEF PttNext

-----------------------------------------------------------------------------
(* The microphone.                                                          *)

Mute == [e \in Shortcuts |-> [m \in BOOLEAN |-> IF e = "toggleMute" THEN ~m ELSE m]]
Hold == [e \in Shortcuts |-> [h \in BOOLEAN |-> IF e = "pttDown" THEN TRUE
                                                ELSE IF e = "pttUp" THEN FALSE ELSE h]]

\* Once the page has read what is on its way to it, its mute is what MuteKey's edges
\* came to and it holds the key the hand holds.
MicInv ==
  /\ mic.muted = mutedPref
  /\ Path(Mute, mutedPref, events, presses.mutes)
  /\ ~changed => Path(Hold, mic.pttHeld, events, Watched \in keys.down)

LEMMA EventsRead ==
  /\ Mute \in [Shortcuts -> [BOOLEAN -> BOOLEAN]] /\ Hold \in [Shortcuts -> [BOOLEAN -> BOOLEAN]]
  /\ \A m \in BOOLEAN : /\ Mute["toggleMute"][m] = ~m /\ Mute["pttDown"][m] = m
       /\ Mute["pttUp"][m] = m
                        /\ Hold["pttDown"][m] = TRUE /\ Hold["pttUp"][m] = FALSE
                        /\ Hold["toggleMute"][m] = m
BY DEF Mute, Hold, Shortcuts

LEMMA EventTypes ==
  Mute \in [Shortcuts -> [BOOLEAN -> BOOLEAN]] /\ Hold \in [Shortcuts -> [BOOLEAN -> BOOLEAN]]
BY EventsRead

\* The events on their way, but for the mute and the key they may change.
LEMMA EdgeKeepsMic ==
  ASSUME KeysOK, MicInv, NEW k \in Keys, NEW edge \in {"down", "up"},
         events' = events \o Emitted(k, edge), mic' = mic, mutedPref' = mutedPref,
         changed' = changed, Watched' = Watched, keys'.down \in SUBSET Keys,
         \/ edge = "down" /\ keys'.down = keys.down \cup {k}
         \/ edge = "up" /\ keys'.down = keys.down \ {k},
         presses'.mutes = (IF k = MuteKey /\ edge = "down" THEN ~presses.mutes ELSE presses.mutes)
  PROVE  MicInv'
<1>1. /\ events \in Seq(Shortcuts) /\ mutedPref \in BOOLEAN /\ mic.pttHeld \in BOOLEAN
      /\ presses.mutes \in BOOLEAN /\ (~presses.mutes) \in BOOLEAN
  BY DEF KeysOK, Microphone
<1>2. Watched # MuteKey
  BY KeysAssumption DEF Watched, KeysOK
<1>3. /\ k # Watched => ((Watched' \in keys'.down) <=> (Watched \in keys.down))
      /\ k = Watched => ((Watched' \in keys'.down) <=> edge = "down")
  OBVIOUS
<1> DEFINE pressed == Watched \in keys.down  pressed1 == Watched' \in keys'.down
<1>4. pressed \in BOOLEAN /\ pressed1 \in BOOLEAN
  OBVIOUS
<1>5. Path(Mute, mutedPref, events', presses'.mutes)
  <2>1. Path(Mute, mutedPref, events, presses.mutes)
    BY DEF MicInv
  <2>2. CASE Emitted(k, edge) = <<>>
    <3>1. events' = events
      BY <2>2, Reads
    <3>2. ~(k = MuteKey /\ edge = "down")
      BY <1>2, <2>2 DEF Emitted
    <3>. QED BY <2>1, <3>1, <3>2
  <2>3. ASSUME NEW e \in Shortcuts, Emitted(k, edge) = <<e>>, events' = Append(events, e)
        PROVE  Path(Mute, mutedPref, events', presses'.mutes)
    <3>1. Path(Mute, mutedPref, events', Mute[e][presses.mutes])
      <4>1. PICK to \in BOOLEAN : to = presses.mutes
        BY <1>1
      <4>2. Path(Mute, mutedPref, Append(events, e), Mute[e][to])
        BY <1>1, <2>1, <4>1, EventTypes, PathGrows
      <4>. QED BY <2>3, <4>1, <4>2
    <3>2. e = "toggleMute" <=> k = MuteKey /\ edge = "down"
      BY <1>2, <2>3 DEF Emitted
    <3>3. Mute[e][presses.mutes] = presses'.mutes
      BY <1>1, <3>2, EventsRead DEF Shortcuts
    <3>. QED BY <3>1, <3>3
  <2>. QED BY <2>2, <2>3, Reads
<1>6. ASSUME ~changed PROVE Path(Hold, mic.pttHeld, events', pressed1)
  <2>1. Path(Hold, mic.pttHeld, events, pressed)
    BY <1>6 DEF MicInv
  <2>2. CASE Emitted(k, edge) = <<>>
    <3>1. events' = events
      BY <2>2, Reads
    <3>2. k # Watched
      BY <2>2 DEF Emitted
    <3>. QED BY <1>3, <2>1, <3>1, <3>2
  <2>3. ASSUME NEW e \in Shortcuts, Emitted(k, edge) = <<e>>, events' = Append(events, e)
        PROVE  Path(Hold, mic.pttHeld, events', pressed1)
    <3>1. /\ k = Watched /\ edge = "down" => e = "pttDown"
          /\ k = Watched /\ edge = "up" => e = "pttUp"
          /\ k # Watched => e = "toggleMute"
      BY <2>3 DEF Emitted
    <3>2. Hold[e][pressed] = pressed1
      BY <1>3, <1>4, <3>1, EventsRead
    <3>. HIDE DEF pressed, pressed1
    <3>3. Path(Hold, mic.pttHeld, events', Hold[e][pressed])
      <4>1. PICK from \in BOOLEAN : from = mic.pttHeld
        BY <1>1
      <4>2. Path(Hold, from, Append(events, e), Hold[e][pressed])
        BY <1>1, <1>4, <2>1, <4>1, EventTypes, PathGrows
      <4>. QED BY <2>3, <4>1, <4>2
    <3>. QED BY <3>2, <3>3
  <2>. QED BY <2>2, <2>3, Reads
<1>. QED BY <1>5, <1>6 DEF MicInv

LEMMA ReadKeepsMic ==
  ASSUME KeysOK, MicInv, Shortcut
  PROVE  MicInv'
<1>1. /\ events \in Seq(Shortcuts) /\ mutedPref \in BOOLEAN /\ mic.pttHeld \in BOOLEAN
      /\ presses.mutes \in BOOLEAN /\ Head(events) \in Shortcuts /\ events # <<>>
      /\ events' = Tail(events) /\ UNCHANGED <<keys, hook, presses, changed>>
  BY DEF KeysOK, Microphone, Shortcut
<1>2. mutedPref' = Mute[Head(events)][mutedPref]
  BY <1>1, ShortcutChanges, EventsRead DEF Shortcuts
<1>3. mic'.pttHeld = Hold[Head(events)][mic.pttHeld]
  BY <1>1, ShortcutChanges, EventsRead DEF Shortcuts
<1>4. mic'.muted = mutedPref'
  BY ShortcutChanges DEF MicInv
<1>5. Path(Mute, mutedPref', events', presses.mutes)
  BY <1>1, <1>2, EventsRead, PathShrinks DEF MicInv
<1> DEFINE pressed == Watched \in keys.down
<1>6. pressed \in BOOLEAN /\ (Watched \in keys.down)' = pressed
  BY <1>1 DEF Watched
<1>7. ~changed => Path(Hold, mic.pttHeld, events, pressed)
  BY DEF MicInv
<1>. HIDE DEF pressed
<1>8. ~changed => Path(Hold, mic'.pttHeld, events', pressed)
  <2>1. PICK from \in BOOLEAN : from = mic.pttHeld
    BY <1>1
  <2>2. ASSUME ~changed PROVE Path(Hold, Hold[Head(events)][from], Tail(events), pressed)
    BY <1>1, <1>6, <1>7, <2>1, <2>2, EventTypes, PathShrinks
  <2>. QED BY <1>1, <1>3, <2>1, <2>2
<1>. QED BY <1>1, <1>4, <1>5, <1>6, <1>8 DEF MicInv

LEMMA MicStep ==
  ASSUME KeysOK, MicInv, [PttNext]_pttVars
  PROVE  MicInv'
<1>1. ASSUME NEW k \in Keys, Press(k) PROVE MicInv'
  <2>1. PICK q \in Seq({"down", "up"}) :
          /\ Hooked(k, "down", q)
          /\ keys' = [down |-> keys.down \cup {k}, injected |-> q,
                      capsOn |-> IF k = Caps THEN ~keys.capsOn ELSE keys.capsOn]
    BY <1>1, LongerQueue DEF Press
  <2>2. /\ presses'.mutes = IF k = MuteKey THEN ~presses.mutes ELSE presses.mutes
        /\ UNCHANGED <<mic, mutedPref, changed>>
    BY <1>1 DEF Press
  <2>3. keys'.down = keys.down \cup {k} /\ keys.down \cup {k} \in SUBSET Keys
    BY <2>1 DEF KeysOK, Keyboard
  <2>. QED BY <2>1, <2>2, <2>3, HookTypes, EdgeKeepsMic
<1>2. ASSUME NEW k \in Keys, Repeat(k) PROVE MicInv'
  <2>1. PICK q \in Seq({"down", "up"}) : Hooked(k, "down", q)
          /\ keys' = [keys EXCEPT !.injected = q]
    BY <1>2, LongerQueue DEF Repeat
  <2>2. /\ presses'.mutes = IF k = MuteKey THEN ~presses.mutes ELSE presses.mutes
        /\ UNCHANGED <<mic, mutedPref, changed>> /\ k \in keys.down
    BY <1>2 DEF Repeat, KeysOK
  <2>3. keys'.down = keys.down \cup {k} /\ keys'.down \in SUBSET Keys
    BY <2>1, <2>2, QueueChanges DEF KeysOK, Keyboard
  <2>. QED BY <2>1, <2>2, <2>3, HookTypes, EdgeKeepsMic
<1>3. ASSUME NEW k \in Keys, Release(k) PROVE MicInv'
  <2>1. /\ Hooked(k, "up", keys.injected) /\ keys' = [keys EXCEPT !.down = @ \ {k}]
        /\ UNCHANGED <<mic, mutedPref, presses, changed>>
    BY <1>3 DEF Release
  <2>2. keys \in Keyboard /\ keys.down \ {k} \in SUBSET Keys
    BY DEF KeysOK, Keyboard
  <2>3. keys'.down = keys.down \ {k}
    BY <2>1, <2>2, DownChanges
  <2>4. keys.injected \in Seq({"down", "up"})
    BY LongerQueue
  <2>5. /\ Watched' = Watched /\ events' = events \o Emitted(k, "up")
    BY <2>1, <2>4, HookTypes
  <2>. QED BY <2>1, <2>2, <2>3, <2>5, EdgeKeepsMic
<1>4. CASE Injected
  BY <1>4, InjectedChanges DEF Injected, MicInv, Watched
<1>5. CASE Shortcut
  BY <1>5, ReadKeepsMic
<1>6. ASSUME UNCHANGED <<mutedPref, events, presses>>, mic'.muted = mutedPref, changed' = TRUE
      PROVE  MicInv'
  BY <1>6 DEF MicInv
<1>7. ASSUME NEW k \in {Caps, Other}, Rebind(k) PROVE MicInv'
  BY <1>6, <1>7 DEF Rebind, Change, MicInv
<1>8. ASSUME NEW mode \in {"always", "ptt"}, SetMode(mode) PROVE MicInv'
  <2>1. mic'.muted = mic.muted
    BY <1>8, ModeChanges DEF SetMode, KeysOK
  <2>. QED BY <1>6, <1>8, <2>1 DEF SetMode, Change, MicInv
<1>9. CASE Bound
  BY <1>6, <1>9 DEF Bound, MicInv
<1>10. CASE NewSession
  <2>1. mic'.muted = mutedPref
    BY <1>10, SessionChanges DEF NewSession, KeysOK
  <2>. QED BY <1>6, <1>10, <2>1 DEF NewSession, Change
<1>11. CASE Settled
  <2>1. /\ UNCHANGED <<keys, hook, events, mic, mutedPref, presses>> /\ events = <<>>
        /\ keys.down = {} /\ ~mic.pttHeld
    BY <1>11 DEF Settled
  <2>2. mic.pttHeld = (Watched \in keys.down) /\ mic.pttHeld \in BOOLEAN
    BY <2>1 DEF KeysOK, Microphone
  <2>3. Path(Hold, mic.pttHeld, <<>>, mic.pttHeld)
    BY <2>2, PathEnds
  <2>4. Path(Hold, mic.pttHeld, events, Watched \in keys.down)
    BY <2>1, <2>2, <2>3
  <2>. QED BY <2>1, <2>4 DEF MicInv, Watched
<1>12. CASE UNCHANGED pttVars
  BY <1>12 DEF MicInv, pttVars, Watched
<1>. QED BY <1>1, <1>2, <1>3, <1>4, <1>5, <1>7, <1>8, <1>9, <1>10, <1>11, <1>12 DEF PttNext

LEMMA KeysInit == PttInit => KeysOK /\ CapsInv /\ MicInv
<1> SUFFICES ASSUME PttInit PROVE KeysOK /\ CapsInv /\ MicInv
  OBVIOUS
<1>1. KeysOK
  <2>1. keys \in Keyboard
    <3>1. <<>> \in Seq({"down", "up"})
      BY EmptySeq
    <3>. QED BY <3>1 DEF PttInit, Keyboard
  <2>2. /\ presses \in [made : Nat, plain : BOOLEAN, mutes : BOOLEAN] /\ mic \in Microphone
        /\ hook \in [vk : {Caps, Other}, active : BOOLEAN, capsHeld : BOOLEAN]
    BY DEF PttInit, Microphone
  <2>. QED BY <2>1, <2>2, EmptySeq DEF PttInit, KeysOK
<1>2. CapsInv
  <2>1. Presses(<<>>) /\ Downs(<<>>, 0)
    <3>1. Len(<<>>) = 4 * 0 + 2 * 0
      OBVIOUS
    <3>. QED BY <3>1 DEF Presses, Downs
  <2>2. /\ keys.capsOn = FALSE /\ presses.plain = FALSE /\ hook.capsHeld = FALSE /\ keys.down = {}
        /\ keys.injected = <<>>
    BY DEF PttInit
  <2>3. \E odd \in {0, 1} : Downs(keys.injected, odd) /\ (odd = 0 <=> keys.capsOn = presses.plain)
    BY <2>1, <2>2
  <2>4. <<>> \in Seq({"down", "up"})
    BY EmptySeq
  <2>5. hook.capsHeld = (Caps \in keys.down)
    <3>1. (Caps \in keys.down) = FALSE
      BY DEF PttInit
    <3>2. hook.capsHeld = FALSE
      BY <2>2
    <3>. QED BY <3>1, <3>2, Zenon
  <2>6. keys.injected \in Seq({"down", "up"}) /\ Presses(keys.injected)
    BY <2>1, <2>2, <2>4
  <2>7. keys.capsOn \in BOOLEAN /\ presses.plain \in BOOLEAN
    BY <2>2
  <2>. QED BY <2>3, <2>5, <2>6, <2>7 DEF CapsInv
<1>3. MicInv
  <2>1. Path(Mute, FALSE, <<>>, FALSE) /\ Path(Hold, FALSE, <<>>, FALSE)
    BY PathEnds
  <2>2. (Watched \in keys.down) = FALSE
    BY DEF PttInit
  <2>. QED BY <2>1, <2>2 DEF PttInit, MicInv
<1>. QED BY <1>1, <1>2, <1>3

\* A press of push-to-talk leaves Caps Lock as it found it, however it is interleaved with
\* the flips, the repeats, a rebinding and a change of the mode.
THEOREM CapsLockIsLeftAlone == PttSpec => []CapsLockUntouched
<1>1. CapsInv => CapsLockUntouched
  <2> SUFFICES ASSUME CapsInv, keys.injected = <<>> PROVE keys.capsOn = presses.plain
    BY DEF CapsLockUntouched
  <2>1. PICK odd \in {0, 1} : Downs(keys.injected, odd) /\ (odd = 0 <=> keys.capsOn = presses.plain)
    BY DEF CapsInv
  <2>2. PICK k \in Nat : 0 = 4 * k + 2 * odd \/ 0 = 4 * k + 2 * odd + 1
    BY <2>1 DEF Downs
  <2>. QED BY <2>1, <2>2
<1>2. KeysOK /\ CapsInv /\ [PttNext]_pttVars => KeysOK' /\ CapsInv'
  BY KeysStep, CapsStep
<1>. QED BY KeysInit, <1>1, <1>2, PTL DEF PttSpec

\* The microphone is the hand's, through the hook, the events and every new session.
THEOREM TheHandHasTheMicrophone == PttSpec => []MicFollowsHand
<1>1. KeysOK /\ MicInv => MicFollowsHand
  <2> SUFFICES ASSUME KeysOK, MicInv, events = <<>> PROVE MicFollowsHand
    BY DEF MicFollowsHand
  <2>1. mic.muted = presses.mutes
    <3>1. mutedPref \in BOOLEAN /\ presses.mutes \in BOOLEAN
      BY DEF KeysOK
    <3>. QED BY <3>1, PathEnds DEF MicInv
  <2>2. ASSUME ~changed PROVE mic.pttHeld = (Watched \in keys.down)
    <3> DEFINE pressed == Watched \in keys.down
    <3>1. mic.pttHeld \in BOOLEAN /\ pressed \in BOOLEAN
      BY DEF KeysOK, Microphone
    <3>2. Path(Hold, mic.pttHeld, <<>>, pressed)
      BY <2>2 DEF MicInv
    <3>. HIDE DEF pressed
    <3>3. mic.pttHeld = pressed
      BY <3>1, <3>2, PathEnds
    <3>. QED BY <3>3 DEF pressed
  <2>. QED BY <2>1, <2>2 DEF MicFollowsHand
<1>2. KeysOK /\ MicInv /\ [PttNext]_pttVars => KeysOK' /\ MicInv'
  BY KeysStep, MicStep
<1>. QED BY KeysInit, <1>1, <1>2, PTL DEF PttSpec

-----------------------------------------------------------------------------
(* The classifier's evidence.                                               *)

Somewhere == Spots \cup {NoSpot}
Evidence  == [anchor : Somewhere, best : Somewhere, runs : Nat, age : Nat, gap : Nat]
Runner    == [icons : SUBSET Spots, best : Somewhere, clear : BOOLEAN, mine : BOOLEAN]
Weighed   == [at : Somewhere, best : Somewhere, mine : BOOLEAN]

EvidenceTypes ==
  /\ lockedOn \in Somewhere /\ hidden \in {"no", "held", "covered"}
  /\ evidence \in Evidence
  /\ target \in Somewhere
  /\ run \in Runner
  /\ heard \in Seq(Weighed) /\ Len(heard) <= Runs

\* The runs the evidence counts are the last ones heard, of one icon and of another
\* that keeps to itself.
Accounts(e, h) ==
  e.runs > 0 =>
    /\ h # <<>> /\ h[Len(h)].best = e.best
    /\ e.runs <= Len(h) \/ Len(h) = Runs
    /\ \A i \in 1..Len(h) : i > Len(h) - e.runs =>
         /\ h[i].at = e.anchor
         /\ i - 1 \in 1..Len(h) /\ i - 1 > Len(h) - e.runs => Near(h[i].best, h[i - 1].best)

\* All of the first run's successors started in this lock, and so will the next.
OfThisLock ==
  /\ \A i \in 2..Len(heard) : heard[i].mine
  /\ heard # <<>> => run.mine

\* Once the tracker means to leave, no run lands before it has.
MeansToLeave ==
  /\ Len(heard) = Runs
  /\ \A i \in 1..Runs :
       /\ heard[i].at = heard[1].at
       /\ i > 1 => heard[i].mine /\ Near(heard[i].best, heard[i - 1].best)
  /\ run = Idle \/ hidden # "no"

EvidenceInv ==
  /\ EvidenceTypes
  /\ lockedOn # NoSpot =>
       Accounts(evidence, heard) /\ OfThisLock /\ (target # NoSpot => MeansToLeave)

LEMMA RunsInNat == Runs \in Nat /\ MinAge \in Nat /\ Stale \in Nat /\ Runs > 1
BY EvidenceAssumption

LEMMA LastOnes ==
  ASSUME NEW h \in Seq(Weighed), Len(h) <= Runs, NEW w \in Weighed
  PROVE  LET more == Last(Append(h, w)) IN
         \E d \in {0, 1} :
           /\ more \in Seq(Weighed) /\ Len(more) <= Runs /\ Len(more) = Len(h) + 1 - d
           /\ Len(more) \in Nat /\ Len(more) > 0
           /\ d = 1 => Len(more) = Runs
           /\ more[Len(more)] = w
           /\ \A i \in 1..(Len(more) - 1) : i + d \in 1..Len(h) /\ more[i] = h[i + d]
<1> DEFINE all == Append(h, w)  n == Len(h)
<1>1. all \in Seq(Weighed) /\ n \in Nat /\ Len(all) = n + 1 /\ all[n + 1] = w
        /\ \A i \in 1..n : all[i] = h[i]
  OBVIOUS
<1>. HIDE DEF all, n
<1>2. CASE n + 1 > Runs
  <2>1. Last(all) = Tail(all) /\ n = Runs
    BY <1>1, <1>2, RunsInNat DEF Last, n
  <2>2. /\ Tail(all) \in Seq(Weighed) /\ Len(Tail(all)) = n
        /\ \A i \in 1..n : Tail(all)[i] = all[i + 1]
    BY <1>1
  <2>3. Tail(all)[n] = w /\ \A i \in 1..(n - 1) : i + 1 \in 1..n /\ Tail(all)[i] = h[i + 1]
    BY <1>1, <2>1, <2>2, RunsInNat
  <2>. QED BY <1>1, <2>1, <2>2, <2>3, RunsInNat DEF all, n
<1>3. CASE ~(n + 1 > Runs)
  <2>1. Last(all) = all
    BY <1>1, <1>3 DEF Last
  <2>2. \A i \in 1..n : i + 0 \in 1..n /\ all[i] = h[i + 0]
    BY <1>1
  <2>. QED BY <1>1, <1>3, <2>1, <2>2, RunsInNat DEF all, n
<1>. QED BY <1>2, <1>3, <1>1, RunsInNat


-----------------------------------------------------------------------------
(* Records.                                                                 *)

OneMore(e, best, n) == [e EXCEPT !.best = best, !.runs = n, !.gap = 0]
Aged(e, age, gap) == [e EXCEPT !.age = age, !.gap = gap]

LEMMA Counted ==
  ASSUME NEW e \in Evidence, NEW best \in Somewhere, NEW n \in Nat
  PROVE  /\ OneMore(e, best, n) \in Evidence /\ OneMore(e, best, n).anchor = e.anchor
         /\ OneMore(e, best, n).best = best /\ OneMore(e, best, n).runs = n
BY DEF OneMore, Evidence

LEMMA Ages ==
  ASSUME NEW e \in Evidence, NEW age \in Nat, NEW gap \in Nat
  PROVE  /\ Aged(e, age, gap) \in Evidence /\ Aged(e, age, gap).anchor = e.anchor
         /\ Aged(e, age, gap).best = e.best /\ Aged(e, age, gap).runs = e.runs
BY DEF Aged, Evidence

LEMMA NoneCounted == None \in Evidence /\ None.runs = 0 /\ Idle \in Runner /\ Idle.mine = TRUE
BY DEF None, Evidence, Somewhere, Idle, Runner

LEMMA FreshOrNone ==
  ASSUME EvidenceTypes
  PROVE  Fresh \in Evidence /\ (Fresh = evidence \/ Fresh = None)
BY NoneCounted DEF Fresh, EvidenceTypes

\* A run begins the evidence anew or adds to it.
LEMMA Built ==
  ASSUME EvidenceTypes, NEW p \in Somewhere, NEW r \in Runner
  PROVE  LET e == Builds(p, r) IN
         /\ e \in Evidence /\ e.anchor = p /\ e.best = r.best
         /\ \/ e.runs = 1
            \/ /\ evidence.runs > 0 /\ e.runs = evidence.runs + 1
               /\ p = evidence.anchor /\ Near(r.best, evidence.best)
<1> DEFINE e == Builds(p, r)
           anew == [anchor |-> p, best |-> r.best, runs |-> 1, age |-> 0, gap |-> 0]
<1>1. r.best \in Somewhere
  BY DEF Runner
<1>2. CASE Fresh.runs > 0 /\ p = Fresh.anchor /\ Near(r.best, Fresh.best)
  <2>1. Fresh = evidence /\ evidence \in Evidence
    BY <1>2, FreshOrNone, NoneCounted DEF EvidenceTypes
  <2>2. PICK n \in Nat : n = evidence.runs + 1
    BY <2>1 DEF Evidence
  <2>3. PICK best \in Somewhere : best = r.best
    BY <1>1
  <2>4. e = OneMore(evidence, best, n)
    BY <1>2, <2>1, <2>2, <2>3 DEF Builds, OneMore
  <2>5. /\ e \in Evidence /\ e.anchor = evidence.anchor
        /\ e.best = best /\ e.runs = n
    BY <2>1, <2>4, Counted
  <2>. HIDE DEF e
  <2>. QED BY <1>2, <2>1, <2>2, <2>3, <2>5 DEF e
<1>3. CASE ~(Fresh.runs > 0 /\ p = Fresh.anchor /\ Near(r.best, Fresh.best))
  <2>1. e = anew
    BY <1>3 DEF Builds
  <2>2. anew \in Evidence /\ anew.anchor = p /\ anew.best = r.best /\ anew.runs = 1
    BY <1>1 DEF Evidence
  <2>. QED BY <2>1, <2>2
<1>. QED BY <1>2, <1>3

-----------------------------------------------------------------------------
(* A run is weighed.                                                        *)

LEMMA WeighedStep ==
  ASSUME EvidenceInv, NEW p \in Somewhere, Weighs(p, run), run # Idle, run' = Idle,
         lockedOn # NoSpot, hidden = "no", UNCHANGED <<lockedOn, hidden, rested>>
  PROVE  EvidenceInv'
<1>1. /\ EvidenceTypes /\ Accounts(evidence, heard) /\ OfThisLock /\ target = NoSpot
      /\ run \in Runner /\ run.best \in Somewhere /\ run.mine \in BOOLEAN
      /\ heard \in Seq(Weighed) /\ Len(heard) <= Runs /\ evidence \in Evidence
  BY DEF EvidenceInv, MeansToLeave, EvidenceTypes, Runner
<1>2. CASE p = NoSpot \/ ~Supports(p, run)
  <2>1. evidence' = None /\ heard' = <<>> /\ target' = target
    BY <1>2 DEF Weighs
  <2>2. EvidenceTypes'
    BY <1>1, <2>1, NoneCounted, EmptySeq, RunsInNat DEF EvidenceTypes
  <2>3. Accounts(evidence, heard)' /\ OfThisLock'
    BY <2>1, NoneCounted DEF Accounts, OfThisLock
  <2>. QED BY <1>1, <2>1, <2>2, <2>3 DEF EvidenceInv
<1>3. CASE ~(p = NoSpot \/ ~Supports(p, run))
  <2> DEFINE w == [at |-> p, best |-> run.best, mine |-> run.mine]
             e == Builds(p, run)
  <2>1. w \in Weighed /\ w.at = p /\ w.best = run.best /\ w.mine = run.mine
    BY <1>1 DEF Weighed
  <2>2. /\ e \in Evidence /\ e.anchor = p /\ e.best = run.best
        /\ \/ e.runs = 1
           \/ /\ evidence.runs > 0 /\ e.runs = evidence.runs + 1
              /\ p = evidence.anchor /\ Near(run.best, evidence.best)
    BY <1>1, Built
  <2>3. /\ heard' = Last(Append(heard, w))
        /\ IF Enough(e) THEN evidence' = None /\ target' = run.best
                        ELSE evidence' = e /\ target' = target
    BY <1>3 DEF Weighs
  <2>. HIDE DEF w, e
  <2>4. PICK d \in {0, 1} :
           /\ heard' \in Seq(Weighed) /\ Len(heard') <= Runs /\ Len(heard') = Len(heard) + 1 - d
           /\ Len(heard') \in Nat /\ Len(heard') > 0
           /\ d = 1 => Len(heard') = Runs
           /\ heard'[Len(heard')] = w
           /\ \A i \in 1..(Len(heard') - 1) : i + d \in 1..Len(heard) /\ heard'[i] = heard[i + d]
    BY <1>1, <2>1, <2>3, LastOnes
  <2> DEFINE n == Len(heard')
  <2>5. EvidenceTypes'
    BY <1>1, <2>2, <2>3, <2>4, NoneCounted DEF EvidenceTypes
  <2>6. Len(heard) \in Nat /\ e.runs \in Nat /\ evidence.runs \in Nat
    BY <1>1, <2>2 DEF Evidence
  <2>7. Accounts(e, heard')
    <3>1. heard' # <<>> /\ heard'[n].best = e.best
      BY <2>1, <2>2, <2>4
    <3>2. e.runs <= n \/ n = Runs
      <4>1. CASE e.runs = 1
        BY <2>4, <4>1
      <4>2. CASE evidence.runs > 0 /\ e.runs = evidence.runs + 1
        <5>1. evidence.runs <= Len(heard) \/ Len(heard) = Runs
          BY <1>1, <4>2 DEF Accounts
        <5>. QED BY <2>4, <2>6, <4>2, <5>1, RunsInNat
      <4>. QED BY <2>2, <4>1, <4>2
    <3>3. ASSUME NEW i \in 1..n, i > n - e.runs
          PROVE  /\ heard'[i].at = e.anchor
                 /\ i - 1 \in 1..n /\ i - 1 > n - e.runs => Near(heard'[i].best, heard'[i - 1].best)
      <4>1. CASE e.runs = 1
        <5>1. i = n /\ ~(i - 1 > n - e.runs)
          BY <2>4, <3>3, <4>1
        <5>. QED BY <2>1, <2>2, <2>4, <5>1
      <4>2. CASE /\ evidence.runs > 0 /\ e.runs = evidence.runs + 1
                 /\ p = evidence.anchor /\ Near(run.best, evidence.best)
        <5>1. /\ heard # <<>> /\ heard[Len(heard)].best = evidence.best
              /\ \A j \in 1..Len(heard) : j > Len(heard) - evidence.runs =>
                   /\ heard[j].at = evidence.anchor
                   /\ j - 1 \in 1..Len(heard) /\ j - 1 > Len(heard) - evidence.runs =>
                        Near(heard[j].best, heard[j - 1].best)
          BY <1>1, <4>2 DEF Accounts
        <5>2. CASE i = n
          <6>1. heard'[i].at = e.anchor /\ heard'[i].best = run.best
            BY <2>1, <2>2, <2>4, <5>2
          <6>2. ASSUME i - 1 \in 1..n PROVE Near(heard'[i].best, heard'[i - 1].best)
            <7>1. i - 1 \in 1..(n - 1) /\ (i - 1) + d = Len(heard)
              BY <2>4, <2>6, <5>2, <6>2
            <7>2. heard'[i - 1] = heard[Len(heard)]
              BY <2>4, <7>1
            <7>. QED BY <4>2, <5>1, <6>1, <7>2
          <6>. QED BY <6>1, <6>2
        <5>3. CASE i # n
          <6>1. i \in 1..(n - 1) /\ i + d \in 1..Len(heard) /\ heard'[i] = heard[i + d]
            BY <2>4, <5>3
          <6>2. i + d > Len(heard) - evidence.runs
            BY <2>4, <2>6, <3>3, <4>2, <6>1
          <6>3. heard'[i].at = e.anchor
            BY <2>2, <4>2, <5>1, <6>1, <6>2
          <6>4. ASSUME i - 1 \in 1..n, i - 1 > n - e.runs
                PROVE  Near(heard'[i].best, heard'[i - 1].best)
            <7>1. i - 1 \in 1..(n - 1) /\ (i - 1) + d = (i + d) - 1
              BY <2>4, <6>1, <6>4
            <7>2. (i + d) - 1 \in 1..Len(heard) /\ heard'[i - 1] = heard[(i + d) - 1]
              BY <2>4, <7>1
            <7>3. (i + d) - 1 > Len(heard) - evidence.runs
              BY <2>4, <2>6, <4>2, <6>4, <7>1
            <7>. QED BY <5>1, <6>1, <6>2, <7>2, <7>3
          <6>. QED BY <6>3, <6>4
        <5>. QED BY <5>2, <5>3
      <4>. QED BY <2>2, <4>1, <4>2
    <3>. QED BY <3>1, <3>2, <3>3 DEF Accounts
  <2>8. \A i \in 2..n : heard'[i].mine
    <3> SUFFICES ASSUME NEW i \in 2..n PROVE heard'[i].mine
      OBVIOUS
    <3>1. CASE i = n
      <4>1. heard # <<>>
        <5>1. d = 1 => Len(heard) = n
          BY <2>4, <2>6
        <5>2. Len(heard) > 0
          BY <2>4, <2>6, <5>1, RunsInNat
        <5>. QED BY <5>2
      <4>. QED BY <1>1, <2>1, <2>4, <3>1, <4>1 DEF OfThisLock
    <3>2. CASE i # n
      <4>1. i \in 1..(n - 1) /\ i + d \in 2..Len(heard) /\ heard'[i] = heard[i + d]
        BY <2>4, <2>6, <3>2
      <4>. QED BY <1>1, <4>1 DEF OfThisLock
    <3>. QED BY <3>1, <3>2
  <2>9. OfThisLock'
    BY <2>8, NoneCounted DEF OfThisLock
  <2>10. CASE Enough(e)
    <3>1. n = Runs /\ e.runs >= Runs
      BY <2>4, <2>6, <2>7, <2>10, RunsInNat DEF Accounts, Enough
    <3>2. ASSUME NEW i \in 1..Runs
          PROVE  /\ heard'[i].at = heard'[1].at
                 /\ i > 1 => heard'[i].mine /\ Near(heard'[i].best, heard'[i - 1].best)
      <4>1. 1 > n - e.runs /\ i > n - e.runs /\ (i > 1 => i - 1 \in 1..n /\ i - 1 > n - e.runs /\ i \in 2..n)
        BY <2>6, <3>1, RunsInNat
      <4>2. e.runs > 0
        BY <2>6, <3>1, RunsInNat
      <4>. QED BY <2>7, <2>8, <3>1, <4>1, <4>2, RunsInNat DEF Accounts
    <3>3. MeansToLeave'
      BY <3>1, <3>2 DEF MeansToLeave
    <3>4. Accounts(evidence, heard)'
      BY <2>3, <2>10, NoneCounted DEF Accounts
    <3>. QED BY <2>5, <2>9, <3>3, <3>4 DEF EvidenceInv
  <2>11. CASE ~Enough(e)
    BY <1>1, <2>3, <2>5, <2>7, <2>9, <2>11 DEF EvidenceInv, Accounts
  <2>. QED BY <2>10, <2>11
<1>. QED BY <1>2, <1>3

-----------------------------------------------------------------------------
(* Frames.                                                                  *)

LEMMA RunStarts ==
  ASSUME EvidenceTypes, NEW icons \in SUBSET Spots, NEW newLock \in BOOLEAN, StartsRun(icons, newLock)
  PROVE  run' \in Runner /\ (newLock = FALSE /\ run.mine => run'.mine)
<1>1. CASE icons # {} /\ run = Idle /\ rested
  <2>1. PICK best \in icons \cup {NoSpot}, clear \in BOOLEAN :
          run' = [icons |-> icons, best |-> best, clear |-> clear /\ best # NoSpot, mine |-> TRUE]
    BY <1>1 DEF StartsRun
  <2>2. (clear /\ best # NoSpot) \in BOOLEAN /\ best \in Somewhere
    BY DEF Somewhere
  <2>. QED BY <2>1, <2>2 DEF Runner
<1>2. CASE ~(icons # {} /\ run = Idle /\ rested)
  <2> DEFINE mine == run.mine /\ (newLock => run = Idle)
  <2>1. run' = [run EXCEPT !.mine = mine]
    BY <1>2 DEF StartsRun, EvidenceTypes, Runner
  <2>2. mine \in BOOLEAN /\ run \in Runner
    BY DEF EvidenceTypes
  <2>3. newLock = FALSE /\ run.mine => mine
    OBVIOUS
  <2>. HIDE DEF mine
  <2>4. run' \in Runner /\ run'.mine = mine
    BY <2>1, <2>2 DEF Runner
  <2>. QED BY <2>3, <2>4
<1>. QED BY <1>1, <1>2

\* A lock begins with nothing known.
LEMMA NewLockStep ==
  ASSUME EvidenceInv, lockedOn' \in Somewhere, hidden' \in {"no", "held"}, evidence' = None,
         target' = NoSpot, heard' = <<>>, run' \in Runner
  PROVE  EvidenceInv'
<1>1. EvidenceTypes'
  <2>1. Len(<<>>) = 0 /\ <<>> \in Seq(Weighed)
    BY EmptySeq
  <2>. QED BY <2>1, NoneCounted, RunsInNat DEF EvidenceTypes, Somewhere
<1>2. Accounts(evidence, heard)' /\ OfThisLock'
  BY NoneCounted DEF Accounts, OfThisLock
<1>. QED BY <1>1, <1>2 DEF EvidenceInv

LEMMA NoLockStep ==
  ASSUME EvidenceInv, lockedOn' = NoSpot, hidden' \in {"no", "held", "covered"}, run' \in Runner,
         UNCHANGED <<evidence, target, heard>>
  PROVE  EvidenceInv'
BY DEF EvidenceInv, EvidenceTypes, Somewhere

LEMMA FrameStep ==
  ASSUME EvidenceInv, NEW icons \in SUBSET Spots, Frame(icons)
  PROVE  EvidenceInv'
<1>1. EvidenceTypes /\ \A p \in icons : p \in Somewhere
  BY DEF EvidenceInv, Somewhere
<1>2. CASE lockedOn = NoSpot
  <2>1. CASE KeepsScanning /\ StartsRun(icons, FALSE)
    BY <1>1, <1>2, <2>1, RunStarts, NoLockStep DEF KeepsScanning, EvidenceTypes
  <2>2. CASE (\E p \in icons : LocksOn(p)) /\ StartsRun(icons, TRUE)
    BY <1>1, <2>2, RunStarts, NewLockStep DEF LocksOn
  <2>. QED BY <1>2, <2>1, <2>2 DEF Frame
<1>3. CASE lockedOn # NoSpot
  <2>1. CASE Keeps(icons) /\ StartsRun(icons, FALSE)
    <3>1. run' \in Runner /\ (run.mine => run'.mine)
      BY <1>1, <2>1, RunStarts
    <3>2. CASE LetsGo
      BY <3>1, <3>2, NoLockStep DEF LetsGo
    <3>3. CASE hidden' = "covered" /\ UNCHANGED <<lockedOn, evidence, target, heard>>
      <4>1. EvidenceTypes'
        BY <1>1, <3>1, <3>3 DEF EvidenceTypes
      <4>2. Accounts(evidence, heard)' /\ OfThisLock' /\ (target' # NoSpot => MeansToLeave')
        BY <1>3, <3>1, <3>3 DEF EvidenceInv, Accounts, OfThisLock, MeansToLeave
      <4>. QED BY <4>1, <4>2 DEF EvidenceInv
    <3>4. CASE Follows(icons) /\ target' = NoSpot /\ UNCHANGED <<evidence, heard>>
      <4>1. EvidenceTypes'
        BY <1>1, <3>1, <3>4 DEF EvidenceTypes, Follows, Somewhere
      <4>2. Accounts(evidence, heard)' /\ OfThisLock'
        BY <1>3, <3>1, <3>4 DEF EvidenceInv, Accounts, OfThisLock
      <4>. QED BY <3>4, <4>1, <4>2 DEF EvidenceInv
    <3>. QED BY <2>1, <3>2, <3>3, <3>4 DEF Keeps
  <2>2. CASE Moves(icons) /\ StartsRun(icons, TRUE)
    <3>1. PICK p \in icons : Acquires(p)
      BY <2>2 DEF Moves
    <3>. QED BY <1>1, <2>2, <3>1, RunStarts, NewLockStep DEF Acquires
  <2>. QED BY <1>3, <2>1, <2>2 DEF Frame
<1>. QED BY <1>2, <1>3

LEMMA LandsStep ==
  ASSUME EvidenceInv, Lands
  PROVE  EvidenceInv'
<1>1. EvidenceTypes /\ run' = Idle /\ run # Idle /\ UNCHANGED <<lockedOn, hidden, rested>>
  BY DEF EvidenceInv, Lands
<1>2. CASE (lockedOn = NoSpot \/ hidden # "no") /\ UNCHANGED <<evidence, target, heard>>
  <2>1. EvidenceTypes'
    BY <1>1, <1>2, NoneCounted DEF EvidenceTypes
  <2>. QED BY <1>1, <1>2, <2>1, NoneCounted DEF EvidenceInv, Accounts, OfThisLock, MeansToLeave
<1>3. CASE lockedOn # NoSpot /\ evidence' = Fresh /\ UNCHANGED <<target, heard>>
  <2>1. EvidenceTypes'
    BY <1>1, <1>3, NoneCounted, FreshOrNone DEF EvidenceTypes
  <2>2. Accounts(evidence, heard)'
    BY <1>1, <1>3, NoneCounted, FreshOrNone DEF EvidenceInv, Accounts
  <2>. QED BY <1>1, <1>3, <2>1, <2>2, NoneCounted DEF EvidenceInv, OfThisLock, MeansToLeave
<1>4. ASSUME NEW p \in Somewhere, Weighs(p, run), lockedOn # NoSpot, hidden = "no"
      PROVE  EvidenceInv'
  BY <1>1, <1>4, WeighedStep
<1>5. NoSpot \in Somewhere /\ \A p \in Followed(run) : p \in Somewhere
  BY <1>1 DEF Somewhere, Followed, EvidenceTypes, Runner
<1>. QED BY <1>2, <1>3, <1>4, <1>5 DEF Lands

LEMMA EvidenceStep ==
  ASSUME EvidenceInv, [EvidenceNext]_lockVars
  PROVE  EvidenceInv'
<1>1. CASE Restarts
  <2>1. EvidenceTypes'
    BY <1>1, NoneCounted DEF Restarts, EvidenceInv, EvidenceTypes, Somewhere
  <2>. QED BY <1>1, <2>1 DEF Restarts, EvidenceInv
<1>2. CASE Throws
  <2>1. EvidenceTypes'
    BY <1>2, NoneCounted DEF Throws, EvidenceInv, EvidenceTypes
  <2>. QED BY <1>2, <2>1, NoneCounted DEF Throws, EvidenceInv, OfThisLock, MeansToLeave, Accounts
<1>3. CASE HalfSecond
  <2> DEFINE age == Capped(evidence.age, MinAge)  gap == Capped(evidence.gap, Stale + 1)
  <2>1. /\ evidence \in Evidence /\ evidence.age \in Nat /\ evidence.gap \in Nat
        /\ UNCHANGED <<lockedOn, hidden, target, run, heard>>
        /\ evidence' = IF evidence.runs = 0 THEN None ELSE Aged(evidence, age, gap)
    BY <1>3 DEF HalfSecond, EvidenceInv, EvidenceTypes, Evidence, Aged
  <2>2. age \in Nat /\ gap \in Nat
    BY <2>1, RunsInNat DEF Capped
  <2>. HIDE DEF age, gap
  <2>3. /\ evidence' \in Evidence
        /\ \/ evidence'.runs = 0
           \/ /\ evidence'.runs = evidence.runs /\ evidence'.anchor = evidence.anchor
              /\ evidence'.best = evidence.best
    BY <2>1, <2>2, Ages, NoneCounted
  <2>4. EvidenceTypes'
    BY <2>1, <2>3 DEF EvidenceInv, EvidenceTypes
  <2>5. lockedOn # NoSpot => Accounts(evidence, heard)'
    BY <2>1, <2>3 DEF EvidenceInv, Accounts
  <2>. QED BY <2>1, <2>4, <2>5 DEF EvidenceInv, OfThisLock, MeansToLeave
<1>4. CASE UNCHANGED lockVars
  BY <1>4 DEF lockVars, EvidenceInv, EvidenceTypes, OfThisLock, MeansToLeave, Accounts
<1>. QED BY <1>1, <1>2, <1>3, <1>4, FrameStep, LandsStep DEF EvidenceNext

LEMMA EvidenceBegins == EvidenceInit => EvidenceInv
<1> SUFFICES ASSUME EvidenceInit PROVE EvidenceInv
  OBVIOUS
<1>1. EvidenceTypes
  <2>1. Len(<<>>) = 0 /\ <<>> \in Seq(Weighed)
    BY EmptySeq
  <2>. QED BY <2>1, NoneCounted, RunsInNat DEF EvidenceInit, EvidenceTypes, Somewhere
<1>. QED BY <1>1 DEF EvidenceInit, EvidenceInv

\* However many runs a switch is to take and however runs and locks interleave: the
\* tracker leaves its icon on what was weighed in this lock, at most the first run of it
\* started before.
THEOREM SwitchesRestOnThisLock == EvidenceSpec => []SwitchedOnItsOwnEvidence
<1>1. EvidenceInv => SwitchedOnItsOwnEvidence
  BY DEF EvidenceInv, MeansToLeave, SwitchedOnItsOwnEvidence
<1>2. EvidenceInv /\ [EvidenceNext]_lockVars => EvidenceInv'
  BY EvidenceStep
<1>. QED BY EvidenceBegins, <1>1, <1>2, PTL DEF EvidenceSpec

-----------------------------------------------------------------------------
(* Bundles.                                                                 *)

Bundles == Nat \X Nat
Bundle  == Bundles \cup {NoBundle}
Lines   == SUBSET Nat
Stages  == {"queued", "asked", "flushing", "zipping", "opening", "landed", "done"}
Jobs    == [what : {"start", "finish"}, of : Nat, at : Stages, wait : Nat, holds : Bundle,
            read : Lines, owed : Lines, name : Bundle]

BundleTypes ==
  /\ page \in [up : BOOLEAN, debug : BOOLEAN, game : Nat, bundle : Bundle,
               starting : BOOLEAN, failedFor : Nat]
  /\ chain \in Seq(Jobs)
  /\ buffer \in [lines : Lines, sent : Lines, scheduled : BOOLEAN]
  /\ active \in Bundle
  /\ DOMAIN dirs \subseteq Bundles /\ \A d \in DOMAIN dirs : dirs[d] \in Lines
  /\ zips \in Seq(Lines)
  /\ rescue \in [found : SUBSET Bundles, holds : Bundle, read : Lines]
  /\ minute \in Nat /\ said \in Nat /\ teed \in Lines /\ pruned \in Lines
  /\ bounded \in [games : Nat, crashes : Nat, faults : Nat, toggles : Nat]

\* A line is kept in a directory, in a zip, or was in one that has been removed.
Kept(line) ==
  \/ line \in pruned
  \/ \E d \in DOMAIN dirs : line \in dirs[d]
  \/ \E i \in DOMAIN zips : line \in zips[i]

\* What the recovery thread works on is of an earlier minute than what collects
\* now, so no line reaches what it has already read.
Dated ==
  /\ \A line \in teed : Kept(line)
  /\ \A d \in DOMAIN dirs : d[2] <= minute
  /\ \A d \in rescue.found : d[2] < minute
  /\ rescue.holds # NoBundle => rescue.holds[2] < minute /\ Contents(rescue.holds) \subseteq rescue.read
  /\ active # NoBundle => active \in Bundles /\ active[2] = minute
  /\ ~page.up => chain = <<>> /\ active = NoBundle /\ rescue = AtRest

\* One start at a time, and none of the running game with anything behind it.
Queue ==
  /\ page.game <= bounded.games
  /\ page.bundle # NoBundle =>
       chain = <<>> /\ active = page.bundle /\ page.bundle[1] = page.game /\ page.game > 0
  /\ page.starting => page.bundle = NoBundle
  /\ \A i \in 1..Len(chain) :
       /\ chain[i].of > 0 /\ chain[i].of <= bounded.games
       /\ i > 1 => chain[i].at = "queued" /\ chain[i].owed = {}
       /\ chain[i].what = "start" =>
            /\ page.starting /\ chain[i].owed = {}
            /\ chain[i].of = page.game => i = Len(chain)
            /\ \A k \in 1..Len(chain) : chain[k].what = "start" => k = i

\* What a finish owes its bundle has been teed, but for the batches it still waits for.
Shipped(job) ==
  /\ job.at = "queued" => job.owed \subseteq teed \cup buffer.lines \cup buffer.sent
  /\ job.at = "flushing" =>
       \/ job.owed \subseteq teed
       \/ job.wait > 0 /\ job.owed \subseteq teed \cup buffer.sent
       \/ /\ job.wait > (IF buffer.sent = {} THEN 0 ELSE 1) /\ buffer.scheduled
          /\ job.owed \subseteq teed \cup buffer.lines \cup buffer.sent
  /\ job.at \in {"zipping", "done"} => job.owed \subseteq teed

\* The job that is running.
AtHead ==
  chain # <<>> =>
    /\ chain[1].what = "start" /\ chain[1].at \in {"asked", "zipping", "opening"} =>
         chain[1].name \in Bundles /\ chain[1].name[1] = chain[1].of /\ chain[1].name[2] = minute
    /\ chain[1].what = "finish" => chain[1].at \in {"queued", "flushing", "zipping", "done"}
    /\ chain[1].what = "start" => chain[1].at \in {"queued", "asked", "zipping", "opening", "landed"}
    /\ chain[1].at = "landed" /\ chain[1].name # NoBundle =>
         active = chain[1].name /\ chain[1].name[1] = chain[1].of
    /\ chain[1].at = "zipping" => active = NoBundle /\ Contents(chain[1].holds) \subseteq chain[1].read
    /\ chain[1].owed # {} /\ chain[1].at \in {"queued", "flushing"} => active # NoBundle
    /\ Shipped(chain[1])

BundleInv == BundleTypes /\ Dated /\ Queue /\ AtHead

-----------------------------------------------------------------------------
(* Records.                                                                 *)

Flushing(j, w)     == [j EXCEPT !.at = "flushing", !.wait = w]
Waiting(j, w)      == [j EXCEPT !.wait = w]
Called(j, n)       == [j EXCEPT !.at = "asked", !.name = n]
Taking(j, s, h, r) == [j EXCEPT !.at = s, !.holds = h, !.read = r]
LandedAs(j, n)     == [j EXCEPT !.at = "landed", !.name = n]

Same(j, k) == j.what = k.what /\ j.of = k.of /\ j.owed = k.owed

LEMMA FlushingJob ==
  ASSUME NEW j \in Jobs, NEW w \in Nat
  PROVE  /\ Flushing(j, w) \in Jobs /\ Same(Flushing(j, w), j)
         /\ Flushing(j, w).at = "flushing" /\ Flushing(j, w).wait = w
              /\ Flushing(j, w).name = j.name
BY DEF Flushing, Jobs, Stages, Same

LEMMA WaitingJob ==
  ASSUME NEW j \in Jobs, NEW w \in Nat
  PROVE  /\ Waiting(j, w) \in Jobs /\ Same(Waiting(j, w), j)
         /\ Waiting(j, w).at = j.at /\ Waiting(j, w).wait = w /\ Waiting(j, w).name = j.name
         /\ Waiting(j, w).holds = j.holds /\ Waiting(j, w).read = j.read
BY DEF Waiting, Jobs, Same

LEMMA CalledJob ==
  ASSUME NEW j \in Jobs, NEW n \in Bundle
  PROVE  /\ Called(j, n) \in Jobs /\ Same(Called(j, n), j)
         /\ Called(j, n).at = "asked" /\ Called(j, n).name = n
BY DEF Called, Jobs, Stages, Same

LEMMA TakingJob ==
  ASSUME NEW j \in Jobs, NEW s \in Stages, NEW h \in Bundle, NEW r \in Lines
  PROVE  /\ Taking(j, s, h, r) \in Jobs /\ Same(Taking(j, s, h, r), j)
         /\ Taking(j, s, h, r).at = s /\ Taking(j, s, h, r).holds = h
         /\ Taking(j, s, h, r).read = r /\ Taking(j, s, h, r).name = j.name
BY DEF Taking, Jobs, Stages, Same

LEMMA LandedJob ==
  ASSUME NEW j \in Jobs, NEW n \in Bundle
  PROVE  /\ LandedAs(j, n) \in Jobs /\ Same(LandedAs(j, n), j)
         /\ LandedAs(j, n).at = "landed" /\ LandedAs(j, n).name = n
BY DEF LandedAs, Jobs, Stages, Same

LEMMA NewJob ==
  ASSUME NEW what \in {"start", "finish"}, NEW g \in Nat, NEW owed \in Lines
  PROVE  LET j == [Job(what, g) EXCEPT !.owed = owed] IN
         /\ j \in Jobs /\ j.what = what /\ j.of = g /\ j.at = "queued" /\ j.owed = owed
BY DEF Job, Jobs, Stages, Bundle, Lines

LEMMA StartJob ==
  ASSUME NEW g \in Nat
  PROVE  /\ Job("start", g) \in Jobs /\ Job("start", g).what = "start" /\ Job("start", g).of = g
         /\ Job("start", g).at = "queued" /\ Job("start", g).owed = {}
BY DEF Job, Jobs, Stages, Bundle, Lines

-----------------------------------------------------------------------------
(* The chain.                                                               *)

LEMMA HeadJob ==
  ASSUME BundleTypes, chain # <<>>
  PROVE  /\ chain[1] \in Jobs /\ Len(chain) \in Nat /\ Len(chain) > 0
         /\ \A i \in 1..Len(chain) : chain[i] \in Jobs
BY DEF BundleTypes

LEMMA Stepped ==
  ASSUME BundleTypes, chain # <<>>, NEW job \in Jobs, chain' = <<job>> \o Tail(chain)
  PROVE  /\ chain' \in Seq(Jobs) /\ chain' # <<>> /\ Len(chain') = Len(chain)
         /\ chain'[1] = job /\ \A i \in 2..Len(chain) : chain'[i] = chain[i]
<1>1. chain \in Seq(Jobs) /\ Len(chain) \in Nat /\ Len(chain) > 0
  BY DEF BundleTypes
<1>2. /\ Tail(chain) \in Seq(Jobs) /\ Len(Tail(chain)) = Len(chain) - 1
      /\ \A i \in 1..(Len(chain) - 1) : Tail(chain)[i] = chain[i + 1]
  BY <1>1
<1>3. <<job>> \in Seq(Jobs) /\ Len(<<job>>) = 1
  OBVIOUS
<1>. QED BY <1>1, <1>2, <1>3

LEMMA Dequeued ==
  ASSUME BundleTypes, chain # <<>>, chain' = Tail(chain)
  PROVE  /\ chain' \in Seq(Jobs) /\ Len(chain') = Len(chain) - 1
         /\ \A i \in 1..Len(chain') : i + 1 \in 1..Len(chain) /\ chain'[i] = chain[i + 1]
         /\ chain' # <<>> => Len(chain') > 0
<1>1. chain \in Seq(Jobs) /\ Len(chain) \in Nat /\ Len(chain) > 0
  BY DEF BundleTypes
<1>. QED BY <1>1

LEMMA Enqueued ==
  ASSUME BundleTypes, NEW job \in Jobs, chain' = Append(chain, job)
  PROVE  /\ chain' \in Seq(Jobs) /\ Len(chain') = Len(chain) + 1 /\ Len(chain) \in Nat
         /\ \A i \in 1..Len(chain) : chain'[i] = chain[i]
         /\ chain'[Len(chain) + 1] = job
         /\ chain = <<>> => Len(chain) = 0
         /\ chain' # <<>>
BY DEF BundleTypes

LEMMA QueueStepped ==
  ASSUME BundleTypes, Queue, chain # <<>>, NEW job \in Jobs, Same(job, chain[1]),
         chain' = <<job>> \o Tail(chain), page' = page, bounded'.games = bounded.games
  PROVE  Queue'
<1>1. /\ chain' \in Seq(Jobs) /\ chain' # <<>> /\ Len(chain') = Len(chain)
      /\ chain'[1] = job /\ \A i \in 2..Len(chain) : chain'[i] = chain[i]
  BY Stepped
<1>2. Len(chain) \in Nat /\ Len(chain) > 0
  BY HeadJob
<1>3. \A i \in 1..Len(chain) : chain'[i].what = chain[i].what /\ chain'[i].of = chain[i].of
                               /\ chain'[i].owed = chain[i].owed
                               /\ (i > 1 => chain'[i] = chain[i])
  BY <1>1, <1>2 DEF Same
<1>4. page.bundle = NoBundle /\ page.game <= bounded.games
  BY DEF Queue
<1>5. ASSUME NEW i \in 1..Len(chain)
      PROVE  /\ chain'[i].of > 0 /\ chain'[i].of <= bounded.games
             /\ i > 1 => chain'[i].at = "queued" /\ chain'[i].owed = {}
             /\ chain'[i].what = "start" =>
                  /\ page.starting /\ chain'[i].owed = {}
                  /\ chain'[i].of = page.game => i = Len(chain)
                  /\ \A k \in 1..Len(chain) : chain'[k].what = "start" => k = i
  BY <1>3 DEF Queue
<1>. QED BY <1>1, <1>4, <1>5 DEF Queue

-----------------------------------------------------------------------------
(* Lines.                                                                   *)

LEMMA ContentsAreLines ==
  ASSUME BundleTypes, NEW d
  PROVE  Contents(d) \in Lines
BY DEF BundleTypes, Contents, Lines

LEMMA FilledUp ==
  ASSUME BundleTypes, NEW d \in Bundles, NEW lines \in Lines, dirs' = Filled(d, lines)
  PROVE  /\ DOMAIN dirs' = DOMAIN dirs \cup {d} /\ DOMAIN dirs' \subseteq Bundles
         /\ \A e \in DOMAIN dirs' : dirs'[e] \in Lines
         /\ \A e : e # d \/ lines = {} => Contents(e)' = Contents(e)
         /\ \A e \in DOMAIN dirs : dirs[e] \subseteq dirs'[e]
         /\ lines \subseteq dirs'[d]
<1>1. DOMAIN dirs' = DOMAIN dirs \cup {d}
  BY DEF Filled
<1>2. \A e \in DOMAIN dirs' : dirs'[e] = Contents(e) \cup (IF e = d THEN lines ELSE {})
  BY <1>1 DEF Filled
<1>3. \A e : Contents(e) \in Lines
  BY ContentsAreLines
<1>4. \A e \in DOMAIN dirs' : dirs'[e] \in Lines
  BY <1>2, <1>3 DEF Lines
<1>5. \A e : e # d \/ lines = {} => Contents(e)' = Contents(e)
  BY <1>1, <1>2 DEF Contents
<1>6. \A e \in DOMAIN dirs : dirs[e] \subseteq dirs'[e]
  BY <1>1, <1>2 DEF Contents
<1>. QED BY <1>1, <1>2, <1>4, <1>5, <1>6 DEF BundleTypes

LEMMA Removed ==
  ASSUME BundleTypes, NEW d, dirs' = Without(d)
  PROVE  /\ DOMAIN dirs' = DOMAIN dirs \ {d}
         /\ \A e \in DOMAIN dirs' : dirs'[e] = dirs[e] /\ dirs'[e] \in Lines
         /\ \A e : Contents(e)' \subseteq Contents(e)
BY DEF BundleTypes, Without, Contents

LEMMA OneMoreZip ==
  ASSUME BundleTypes, NEW z \in Lines
  PROVE  /\ <<z>> \o zips \in Seq(Lines)
         /\ Len(<<z>> \o zips) = Len(zips) + 1 /\ Len(zips) \in Nat
         /\ (<<z>> \o zips)[1] = z
         /\ \A i \in 1..Len(zips) : (<<z>> \o zips)[i + 1] = zips[i]
         /\ DOMAIN (<<z>> \o zips) = 1..(Len(zips) + 1) /\ DOMAIN zips = 1..Len(zips)
BY DEF BundleTypes

LEMMA Pruned ==
  ASSUME NEW s \in Seq(Lines), pruned \in Lines, Prune(s)
  PROVE  /\ zips' \in Seq(Lines) /\ pruned' \in Lines /\ pruned \subseteq pruned'
         /\ \A i \in DOMAIN s : \A line \in s[i] :
              line \in pruned' \/ \E k \in DOMAIN zips' : line \in zips'[k]
<1> DEFINE n == IF Len(s) > KeepZips THEN KeepZips ELSE Len(s)
<1>1. KeepZips \in Nat /\ n \in Nat /\ n <= Len(s) /\ Len(s) \in Nat
  BY BundleAssumption
<1>2. zips' = SubSeq(s, 1, n) /\ pruned' = pruned \cup UNION {s[i] : i \in (KeepZips + 1)..Len(s)}
  BY DEF Prune, Newest, Oldest
<1>3. n = KeepZips \/ n = Len(s)
  OBVIOUS
<1>. HIDE DEF n
<1>4. /\ zips' \in Seq(Lines) /\ DOMAIN zips' = 1..n
      /\ \A k \in 1..n : zips'[k] = s[k]
  BY <1>1, <1>2
<1>5. UNION {s[i] : i \in (KeepZips + 1)..Len(s)} \in Lines
  BY <1>1 DEF Lines
<1>6. ASSUME NEW i \in DOMAIN s, NEW line \in s[i]
      PROVE  line \in pruned' \/ \E k \in DOMAIN zips' : line \in zips'[k]
  <2>1. i \in 1..Len(s)
    OBVIOUS
  <2>2. CASE i <= n
    BY <1>1, <1>4, <2>1, <2>2
  <2>3. CASE i > n
    BY <1>1, <1>2, <1>3, <2>1, <2>3
  <2>. QED BY <1>1, <2>1, <2>2, <2>3
<1>. QED BY <1>2, <1>4, <1>5, <1>6 DEF Lines

\* What was kept is kept while nothing is removed.
LEMMA KeptStays ==
  ASSUME NEW line, Kept(line), UNCHANGED <<dirs, zips>>, pruned \subseteq pruned'
  PROVE  Kept(line)'
BY DEF Kept

LEMMA BundleInitInv == BundleInit => BundleInv
<1>. SUFFICES ASSUME BundleInit PROVE BundleInv
  OBVIOUS
<1>1. chain = <<>> /\ Len(chain) = 0 /\ DOMAIN dirs = {} /\ zips \in Seq(Lines)
  BY DEF BundleInit
<1>2. BundleTypes
  <2>1. page \in [up : BOOLEAN, debug : BOOLEAN, game : Nat, bundle : Bundle,
                  starting : BOOLEAN, failedFor : Nat]
    BY DEF BundleInit, Nobody, Bundle
  <2>2. buffer \in [lines : Lines, sent : Lines, scheduled : BOOLEAN]
    BY DEF BundleInit, Unwritten, Lines
  <2>3. rescue \in [found : SUBSET Bundles, holds : Bundle, read : Lines]
    BY DEF BundleInit, AtRest, Bundle, Lines
  <2>4. chain \in Seq(Jobs) /\ active \in Bundle
    BY DEF BundleInit, Bundle
  <2>5. minute \in Nat /\ said \in Nat /\ teed \in Lines /\ pruned \in Lines
        /\ bounded \in [games : Nat, crashes : Nat, faults : Nat, toggles : Nat]
    BY DEF BundleInit, Lines
  <2>. QED BY <1>1, <2>1, <2>2, <2>3, <2>4, <2>5 DEF BundleTypes
<1>3. Dated
  BY <1>1 DEF BundleInit, Dated, AtRest, Nobody
<1>4. Queue
  BY <1>1 DEF BundleInit, Queue, Nobody
<1>5. AtHead
  BY <1>1 DEF AtHead
<1>. QED BY <1>2, <1>3, <1>4, <1>5 DEF BundleInv

-----------------------------------------------------------------------------
(* The log buffer.                                                          *)

LEMMA Lies ==
  ASSUME BundleTypes
  PROVE  /\ buffer.lines \in Lines /\ buffer.sent \in Lines /\ buffer.scheduled \in BOOLEAN
         /\ active \in Bundle /\ teed \in Lines
BY DEF BundleTypes

\* The buffer moves on, nothing has been written.
LEMMA BufferStep ==
  ASSUME BundleInv,
         buffer' \in [lines : Lines, sent : Lines, scheduled : BOOLEAN], said' \in Nat,
         chain # <<>> => Shipped(chain[1])',
         UNCHANGED <<chain, active, dirs, zips, rescue, minute, teed, pruned>>,
         page' \in [up : BOOLEAN, debug : BOOLEAN, game : Nat, bundle : Bundle,
                    starting : BOOLEAN, failedFor : Nat],
         page'.game = page.game, page'.bundle = page.bundle, page'.starting = page.starting,
         page'.up = page.up,
         bounded' \in [games : Nat, crashes : Nat, faults : Nat, toggles : Nat],
         bounded'.games = bounded.games
  PROVE  BundleInv'
<1>1. BundleTypes'
  BY DEF BundleInv, BundleTypes
<1>2. Dated'
  BY DEF BundleInv, Dated, Kept, Contents
<1>3. Queue'
  BY DEF BundleInv, Queue
<1>4. AtHead'
  BY DEF BundleInv, AtHead, Contents
<1>. QED BY <1>1, <1>2, <1>3, <1>4 DEF BundleInv

LEMMA SayStep == ASSUME BundleInv, Say PROVE BundleInv'
<1>1. BundleTypes /\ AtHead
  BY DEF BundleInv
<1>2. PICK lines \in Lines : lines = buffer.lines \cup {said + 1}
  <2>1. buffer.lines \in SUBSET Nat /\ said + 1 \in Nat
    BY <1>1, Lies DEF BundleTypes, Lines
  <2>2. buffer.lines \cup {said + 1} \in SUBSET Nat
    BY <2>1
  <2>. QED BY <2>2 DEF Lines
<1>3. /\ buffer' \in [lines : Lines, sent : Lines, scheduled : BOOLEAN]
      /\ buffer'.sent = buffer.sent /\ buffer'.scheduled = buffer.scheduled
      /\ buffer.lines \subseteq buffer'.lines /\ said' \in Nat
  <2>1. buffer' = [buffer EXCEPT !.lines = lines] /\ said' = said + 1
    BY <1>2 DEF Say
  <2>2. said' \in Nat /\ buffer.lines \subseteq lines
    BY <1>1, <1>2, <2>1 DEF BundleTypes
  <2>3. buffer \in [lines : Lines, sent : Lines, scheduled : BOOLEAN]
    BY <1>1 DEF BundleTypes
  <2>. QED BY <2>1, <2>2, <2>3
<1>4. chain # <<>> => Shipped(chain[1])'
  BY <1>1, <1>3 DEF Say, AtHead, Shipped
<1>. QED BY <1>1, <1>3, <1>4, BufferStep DEF Say, BundleTypes

LEMMA Flushes ==
  ASSUME BundleTypes
  PROVE  LET b == FlushLogBuffer(buffer) IN
         /\ b \in [lines : Lines, sent : Lines, scheduled : BOOLEAN]
         /\ b.lines = buffer.lines /\ b.sent = buffer.sent
         /\ b.scheduled <=> buffer.scheduled \/ buffer.lines # {}
<1>1. buffer \in [lines : Lines, sent : Lines, scheduled : BOOLEAN]
  BY DEF BundleTypes
<1>2. PICK s \in BOOLEAN : s <=> buffer.scheduled \/ buffer.lines # {}
  OBVIOUS
<1>3. FlushLogBuffer(buffer) = [buffer EXCEPT !.scheduled = s]
  BY <1>1, <1>2, Zenon DEF FlushLogBuffer
<1>. QED BY <1>1, <1>2, <1>3

LEMMA FlushStep == ASSUME BundleInv, Flush PROVE BundleInv'
<1>1. BundleTypes /\ AtHead
  BY DEF BundleInv
<1>2. /\ buffer' \in [lines : Lines, sent : Lines, scheduled : BOOLEAN]
      /\ buffer'.lines = buffer.lines /\ buffer'.sent = buffer.sent
      /\ buffer.scheduled => buffer'.scheduled
  BY <1>1, Flushes DEF Flush
<1>3. chain # <<>> => Shipped(chain[1])'
  BY <1>1, <1>2 DEF Flush, AtHead, Shipped
<1>. QED BY <1>1, <1>2, <1>3, BufferStep DEF Flush, BundleTypes

LEMMA ToggleStep == ASSUME BundleInv, ToggleDebug PROVE BundleInv'
<1>1. BundleTypes /\ AtHead
  BY DEF BundleInv
<1>2. /\ buffer' \in [lines : Lines, sent : Lines, scheduled : BOOLEAN]
      /\ buffer'.lines = buffer.lines /\ buffer'.sent = buffer.sent
      /\ buffer.scheduled => buffer'.scheduled
  <2>1. CASE page.debug
    BY <1>1, <2>1, Flushes DEF ToggleDebug
  <2>2. CASE ~page.debug
    BY <1>1, <2>2 DEF ToggleDebug, BundleTypes
  <2>. QED BY <2>1, <2>2
<1>3. chain # <<>> => Shipped(chain[1])'
  BY <1>1, <1>2 DEF ToggleDebug, AtHead, Shipped
<1>4. /\ page' \in [up : BOOLEAN, debug : BOOLEAN, game : Nat, bundle : Bundle,
                    starting : BOOLEAN, failedFor : Nat]
      /\ page'.game = page.game /\ page'.bundle = page.bundle /\ page'.starting = page.starting
      /\ page'.up = page.up
  BY <1>1 DEF ToggleDebug, BundleTypes
<1>5. bounded' \in [games : Nat, crashes : Nat, faults : Nat, toggles : Nat]
      /\ bounded'.games = bounded.games
  <2>1. PICK n \in Nat : n = bounded.toggles + 1
    BY <1>1 DEF BundleTypes
  <2>2. bounded' = [bounded EXCEPT !.toggles = n]
    BY <2>1 DEF ToggleDebug
  <2>. QED BY <1>1, <2>2 DEF BundleTypes
<1>. QED BY <1>1, <1>2, <1>3, <1>4, <1>5, BufferStep DEF ToggleDebug, BundleTypes

LEMMA DrainStep == ASSUME BundleInv, Drain PROVE BundleInv'
<1>1. BundleTypes /\ AtHead
  BY DEF BundleInv
<1>2. /\ buffer' \in [lines : Lines, sent : Lines, scheduled : BOOLEAN]
      /\ buffer'.lines = {} /\ buffer'.sent = buffer.lines /\ buffer.sent = {}
  BY <1>1, Lies DEF Drain, Lines
<1>3. ASSUME chain # <<>> PROVE Shipped(chain[1])'
  <2>1. Shipped(chain[1]) /\ chain[1].wait \in Nat
    BY <1>1, <1>3, HeadJob DEF AtHead, Jobs
  <2>. QED BY <1>2, <2>1 DEF Drain, Shipped
<1>. QED BY <1>1, <1>2, <1>3, BufferStep DEF Drain, BundleTypes

LEMMA WaitsLess ==
  ASSUME BundleTypes
  PROVE  /\ Nearer(chain) \in Seq(Jobs) /\ Len(Nearer(chain)) = Len(chain)
         /\ Nearer(chain) = <<>> <=> chain = <<>>
         /\ \A i \in 1..Len(chain) :
              LET j == chain[i]  k == Nearer(chain)[i] IN
              /\ Same(k, j) /\ k.at = j.at /\ k.name = j.name /\ k.holds = j.holds
                   /\ k.read = j.read
              /\ k.at = "flushing" => k.wait = IF j.wait > 0 THEN j.wait - 1 ELSE 0
<1>1. chain \in Seq(Jobs) /\ Len(chain) \in Nat /\ DOMAIN chain = 1..Len(chain)
  BY DEF BundleTypes
<1>2. /\ DOMAIN Nearer(chain) = 1..Len(chain)
      /\ \A i \in 1..Len(chain) : Nearer(chain)[i] =
           IF chain[i].at = "flushing"
             THEN [chain[i] EXCEPT !.wait = IF @ > 0 THEN @ - 1 ELSE 0] ELSE chain[i]
  BY <1>1 DEF Nearer
<1>3. ASSUME NEW i \in 1..Len(chain)
      PROVE  LET j == chain[i]  k == Nearer(chain)[i] IN
             /\ k \in Jobs
             /\ Same(k, j) /\ k.at = j.at /\ k.name = j.name /\ k.holds = j.holds /\ k.read = j.read
             /\ k.at = "flushing" => k.wait = IF j.wait > 0 THEN j.wait - 1 ELSE 0
  <2>1. PICK j \in Jobs : j = chain[i]
    BY <1>1
  <2>2. PICK w \in Nat : w = IF j.wait > 0 THEN j.wait - 1 ELSE 0
    BY DEF Jobs
  <2>3. CASE j.at = "flushing"
    <3>1. Nearer(chain)[i] = Waiting(j, w)
      BY <1>2, <2>1, <2>2, <2>3 DEF Waiting, Jobs
    <3>. QED BY <2>1, <2>2, <3>1, WaitingJob
  <2>4. CASE j.at # "flushing"
    BY <1>2, <2>1, <2>4 DEF Same
  <2>. QED BY <2>3, <2>4
<1>4. Nearer(chain) = [i \in 1..Len(chain) |-> Nearer(chain)[i]]
  BY <1>1 DEF Nearer
<1>5. Nearer(chain) \in Seq(Jobs) /\ Len(Nearer(chain)) = Len(chain)
  BY <1>1, <1>3, <1>4
<1>. QED BY <1>1, <1>3, <1>5

LEMMA TeeStep == ASSUME BundleInv, Tee PROVE BundleInv'
<1>1. BundleTypes /\ Dated /\ Queue /\ AtHead
  BY DEF BundleInv
<1>2. /\ buffer' \in [lines : Lines, sent : Lines, scheduled : BOOLEAN]
      /\ buffer'.lines = buffer.lines /\ buffer'.sent = {} /\ buffer.sent # {}
      /\ buffer'.scheduled = buffer.scheduled
  BY <1>1 DEF Tee, BundleTypes, Lines
<1>3. /\ chain' \in Seq(Jobs) /\ Len(chain') = Len(chain) /\ (chain' = <<>> <=> chain = <<>>)
      /\ \A i \in 1..Len(chain) :
           /\ Same(chain'[i], chain[i]) /\ chain'[i].at = chain[i].at
           /\ chain'[i].name = chain[i].name
           /\ chain'[i].holds = chain[i].holds /\ chain'[i].read = chain[i].read
           /\ chain'[i].at = "flushing" =>
                chain'[i].wait = IF chain[i].wait > 0 THEN chain[i].wait - 1 ELSE 0
  BY <1>1, WaitsLess DEF Tee
<1>4. /\ teed' = IF active = NoBundle THEN teed ELSE teed \cup buffer.sent
      /\ teed' \in Lines /\ teed \subseteq teed'
      /\ DOMAIN dirs' \subseteq Bundles /\ \A e \in DOMAIN dirs' : dirs'[e] \in Lines
      /\ \A e \in DOMAIN dirs' : e \in DOMAIN dirs \/ (e = active /\ active # NoBundle)
      /\ \A e : e # active \/ active = NoBundle => Contents(e)' = Contents(e)
      /\ \A e \in DOMAIN dirs : e \in DOMAIN dirs' /\ dirs[e] \subseteq dirs'[e]
      /\ active # NoBundle => active \in DOMAIN dirs' /\ buffer.sent \subseteq dirs'[active]
  <2>1. CASE active = NoBundle
    BY <1>1, <2>1 DEF Tee, BundleTypes, Contents
  <2>2. CASE active # NoBundle
    <3>1. active \in Bundles /\ buffer.sent \in Lines /\ dirs' = Filled(active, buffer.sent)
          /\ teed' = teed \cup buffer.sent
      BY <1>1, <2>2, Lies DEF Tee, Dated
    <3>2. /\ DOMAIN dirs' = DOMAIN dirs \cup {active} /\ DOMAIN dirs' \subseteq Bundles
          /\ \A e \in DOMAIN dirs' : dirs'[e] \in Lines
          /\ \A e : e # active \/ buffer.sent = {} => Contents(e)' = Contents(e)
          /\ \A e \in DOMAIN dirs : dirs[e] \subseteq dirs'[e]
          /\ buffer.sent \subseteq dirs'[active]
      BY <1>1, <3>1, FilledUp
    <3>3. teed' \in Lines
      BY <1>1, <3>1, Lies DEF Lines
    <3>. QED BY <2>2, <3>1, <3>2, <3>3
  <2>. QED BY <2>1, <2>2
<1>5. UNCHANGED <<page, active, zips, rescue, minute, said, pruned, bounded>>
  BY DEF Tee
<1>6. BundleTypes'
  BY <1>1, <1>2, <1>3, <1>4, <1>5 DEF BundleTypes
<1>7. Dated'
  <2>1. ASSUME NEW line \in teed' PROVE Kept(line)'
    <3>1. CASE line \in teed
      <4>1. Kept(line)
        BY <1>1, <3>1 DEF Dated
      <4>. QED BY <1>4, <1>5, <4>1 DEF Kept
    <3>2. CASE line \notin teed
      <4>1. active # NoBundle /\ line \in buffer.sent
        BY <1>4, <3>2
      <4>2. active \in DOMAIN dirs' /\ line \in dirs'[active]
        BY <1>4, <4>1
      <4>. QED BY <4>2 DEF Kept
    <3>. QED BY <3>1, <3>2
  <2>2. \A d \in DOMAIN dirs' : d[2] <= minute
    BY <1>1, <1>4 DEF Dated, BundleTypes
  <2>3. rescue.holds # NoBundle => Contents(rescue.holds)' \subseteq rescue.read
    <3>. SUFFICES ASSUME rescue.holds # NoBundle
         PROVE  Contents(rescue.holds)' \subseteq rescue.read
      OBVIOUS
    <3>1. rescue.holds # active \/ active = NoBundle
      BY <1>1 DEF Dated, BundleTypes, Bundles
    <3>2. PICK h \in Bundle : h = rescue.holds
      BY <1>1 DEF BundleTypes
    <3>3. Contents(h)' = Contents(h) /\ h' = h
      BY <1>4, <1>5, <3>1, <3>2
    <3>. QED BY <1>1, <1>5, <3>2, <3>3 DEF Dated
  <2>. QED BY <1>1, <1>3, <1>5, <2>1, <2>2, <2>3 DEF Dated
<1>8. Queue'
  <2>1. \A i \in 1..Len(chain) : chain'[i].what = chain[i].what /\ chain'[i].of = chain[i].of
                                 /\ chain'[i].owed = chain[i].owed /\ chain'[i].at = chain[i].at
    BY <1>3 DEF Same
  <2>. QED BY <1>1, <1>3, <1>5, <2>1 DEF Queue
<1>9. AtHead'
  <2>. SUFFICES ASSUME chain # <<>> PROVE AtHead'
    BY <1>3 DEF AtHead
  <2>1. chain[1] \in Jobs /\ chain[1].wait \in Nat /\ 1 \in 1..Len(chain)
    BY <1>1, HeadJob DEF Jobs
  <2>2. /\ chain'[1].what = chain[1].what /\ chain'[1].of = chain[1].of
        /\ chain'[1].owed = chain[1].owed /\ chain'[1].at = chain[1].at
        /\ chain'[1].name = chain[1].name
        /\ chain'[1].holds = chain[1].holds /\ chain'[1].read = chain[1].read
        /\ chain'[1].at = "flushing" =>
             chain'[1].wait = IF chain[1].wait > 0 THEN chain[1].wait - 1 ELSE 0
    BY <1>3, <2>1 DEF Same
  <2>3. Shipped(chain[1])'
    <3>1. Shipped(chain[1]) /\ (chain[1].owed # {} /\ chain[1].at \in {"queued", "flushing"} => active # NoBundle)
      BY <1>1 DEF AtHead
    <3>2. CASE chain[1].owed = {}
      BY <2>2, <3>2 DEF Shipped
    <3>3. CASE chain[1].at \in {"queued", "flushing"} /\ chain[1].owed # {}
      <4>1. teed' = teed \cup buffer.sent
        BY <1>4, <3>1, <3>3
      <4>. QED BY <1>2, <2>1, <2>2, <3>1, <3>3, <4>1 DEF Shipped
    <3>4. CASE chain[1].at \notin {"queued", "flushing"}
      BY <1>4, <2>2, <3>1, <3>4 DEF Shipped
    <3>. QED BY <3>2, <3>3, <3>4
  <2>4. chain'[1].at = "zipping" => active = NoBundle /\ Contents(chain[1].holds)' \subseteq chain'[1].read
    BY <1>1, <1>4, <2>2 DEF AtHead
  <2>. QED BY <1>1, <1>5, <2>2, <2>3, <2>4 DEF AtHead
<1>. QED BY <1>6, <1>7, <1>8, <1>9 DEF BundleInv

-----------------------------------------------------------------------------
(* The page.                                                                *)

\* Nothing is written while the app is up.
LEMMA DatedStays ==
  ASSUME Dated, UNCHANGED <<teed, dirs, zips, pruned, rescue, minute, active>>, page'.up = TRUE
  PROVE  Dated'
BY DEF Dated, Kept, Contents

LEMMA GameStartsStep == ASSUME BundleInv, GameStarts PROVE BundleInv'
<1>1. BundleTypes /\ Dated /\ Queue /\ AtHead
  BY DEF BundleInv
<1>2. PICK n \in Nat : n = bounded.games + 1
  BY <1>1 DEF BundleTypes
<1>3. /\ bounded' \in [games : Nat, crashes : Nat, faults : Nat, toggles : Nat]
      /\ bounded'.games = n
  <2>1. bounded' = [bounded EXCEPT !.games = n]
    BY <1>2 DEF GameStarts
  <2>. QED BY <1>1, <2>1 DEF BundleTypes
<1>4. /\ page' \in [up : BOOLEAN, debug : BOOLEAN, game : Nat, bundle : Bundle,
                    starting : BOOLEAN, failedFor : Nat]
      /\ page'.game = n /\ page'.bundle = page.bundle /\ page'.starting = page.starting
      /\ page'.up = page.up
  <2>1. page' = [page EXCEPT !.game = n]
    BY <1>2 DEF GameStarts
  <2>. QED BY <1>1, <2>1 DEF BundleTypes
<1>5. UNCHANGED <<chain, buffer, active, dirs, zips, rescue, minute, said, teed, pruned>>
  BY DEF GameStarts
<1>6. BundleTypes'
  BY <1>1, <1>3, <1>4, <1>5 DEF BundleTypes
<1>7. Dated'
  BY <1>1, <1>4, <1>5 DEF Dated, Kept, Contents
<1>8. Queue'
  <2>1. page.bundle = NoBundle
    BY <1>1 DEF GameStarts, Queue, BundleTypes
  <2>2. \A i \in 1..Len(chain) : chain[i].of \in Nat /\ chain[i].of # n
    <3>. SUFFICES ASSUME NEW i \in 1..Len(chain)
         PROVE  chain[i].of \in Nat /\ chain[i].of # n
      OBVIOUS
    <3>1. chain[i] \in Jobs /\ bounded.games \in Nat
      BY <1>1 DEF BundleTypes
    <3>2. chain[i].of \in Nat /\ chain[i].of <= bounded.games
      BY <1>1, <3>1 DEF Queue, Jobs
    <3>. QED BY <1>2, <3>1, <3>2
  <2>3. \A i \in 1..Len(chain) : chain[i].of <= n
    BY <1>1, <1>2, <2>2 DEF Queue, BundleTypes
  <2>. QED BY <1>1, <1>3, <1>4, <1>5, <2>1, <2>2, <2>3 DEF Queue
<1>9. AtHead'
  BY <1>1, <1>5 DEF AtHead, Shipped, Contents
<1>. QED BY <1>6, <1>7, <1>8, <1>9 DEF BundleInv

\* A job is queued: it runs at once if it is the only one.
LEMMA AtHeadQueued ==
  ASSUME BundleTypes, AtHead, NEW job \in Jobs, chain' = Append(chain, job), job.at = "queued",
         chain = <<>> /\ job.owed # {} =>
           active # NoBundle /\ job.owed \subseteq teed \cup buffer.lines \cup buffer.sent,
         UNCHANGED <<active, minute, dirs, teed, buffer>>
  PROVE  AtHead'
<1>1. /\ \A i \in 1..Len(chain) : chain'[i] = chain[i]
      /\ chain'[Len(chain) + 1] = job /\ (chain = <<>> => Len(chain) = 0)
  BY Enqueued
<1>2. CASE chain = <<>>
  <2>1. chain'[1] = job
    BY <1>1, <1>2
  <2>. QED BY <1>2, <2>1 DEF AtHead, Shipped
<1>3. CASE chain # <<>>
  <2>1. chain'[1] = chain[1]
    BY <1>1, <1>3, HeadJob
  <2>. QED BY <1>3, <2>1 DEF AtHead, Shipped, Contents
<1>. QED BY <1>2, <1>3

LEMMA EnsureStep == ASSUME BundleInv, Ensure PROVE BundleInv'
<1>1. BundleTypes /\ Dated /\ Queue /\ AtHead
  BY DEF BundleInv
<1>2. PICK g \in Nat : g = page.game
  BY <1>1 DEF BundleTypes
<1> DEFINE job == Job("start", g)
<1>3. job \in Jobs /\ job.what = "start" /\ job.of = g /\ job.at = "queued" /\ job.owed = {}
  BY StartJob
<1>4. chain' = Append(chain, job)
  BY <1>2 DEF Ensure
<1>. HIDE DEF job
<1>5. /\ page' \in [up : BOOLEAN, debug : BOOLEAN, game : Nat, bundle : Bundle,
                    starting : BOOLEAN, failedFor : Nat]
      /\ page'.game = page.game /\ page'.bundle = page.bundle /\ page'.starting = TRUE
      /\ page'.up = page.up
  BY <1>1 DEF Ensure, BundleTypes
<1>6. /\ UNCHANGED <<buffer, active, dirs, zips, rescue, minute, said, teed, pruned, bounded>>
      /\ page.up /\ page.game # 0 /\ page.bundle = NoBundle /\ ~page.starting
  BY DEF Ensure
<1>7. /\ chain' \in Seq(Jobs) /\ Len(chain') = Len(chain) + 1 /\ Len(chain) \in Nat
      /\ \A i \in 1..Len(chain) : chain'[i] = chain[i]
      /\ chain'[Len(chain) + 1] = job
  BY <1>1, <1>3, <1>4, Enqueued
<1>8. BundleTypes'
  BY <1>1, <1>5, <1>6, <1>7 DEF BundleTypes
<1>9. Dated'
  <2>1. page'.up = TRUE
    BY <1>1, <1>5, <1>6 DEF BundleTypes
  <2>. QED BY <1>1, <1>6, <2>1, DatedStays
<1>10. Queue'
  <2>1. \A i \in 1..Len(chain) : chain[i].what # "start"
    BY <1>1, <1>6 DEF Queue
  <2>2. g > 0 /\ g <= bounded.games
    BY <1>1, <1>2, <1>6 DEF Queue
  <2>3. ASSUME NEW i \in 1..Len(chain')
        PROVE  /\ chain'[i].of > 0 /\ chain'[i].of <= bounded.games
               /\ i > 1 => chain'[i].at = "queued" /\ chain'[i].owed = {}
               /\ chain'[i].what = "start" => i = Len(chain) + 1 /\ chain'[i].owed = {}
    <3>1. CASE i \in 1..Len(chain)
      BY <1>1, <1>7, <2>1, <3>1 DEF Queue
    <3>2. CASE i = Len(chain) + 1
      BY <1>3, <1>7, <2>2, <3>2
    <3>. QED BY <1>7, <3>1, <3>2
  <2>. QED BY <1>1, <1>5, <1>6, <1>7, <2>3 DEF Queue
<1>11. AtHead'
  BY <1>1, <1>3, <1>4, <1>6, AtHeadQueued
<1>. QED BY <1>8, <1>9, <1>10, <1>11 DEF BundleInv

LEMMA SessionStopsStep == ASSUME BundleInv, SessionStops PROVE BundleInv'
<1>1. BundleTypes /\ Dated /\ Queue /\ AtHead
  BY DEF BundleInv
<1>2. PICK g \in Nat : g = page.game
  BY <1>1 DEF BundleTypes
<1>3. PICK owed \in Lines :
        owed = IF page.bundle # NoBundle THEN buffer.lines \cup buffer.sent ELSE {}
  BY <1>1, Lies DEF Lines
<1> DEFINE job == [Job("finish", g) EXCEPT !.owed = owed]
<1>4. job \in Jobs /\ job.what = "finish" /\ job.of = g /\ job.at = "queued" /\ job.owed = owed
  BY NewJob
<1>5. chain' = Append(chain, job) \/ chain' = chain
  BY <1>2, <1>3 DEF SessionStops
<1>. HIDE DEF job
<1>6. /\ page' \in [up : BOOLEAN, debug : BOOLEAN, game : Nat, bundle : Bundle,
                    starting : BOOLEAN, failedFor : Nat]
      /\ page'.game = 0 /\ page'.bundle = NoBundle /\ page'.starting = page.starting
      /\ page'.up = page.up
  <2>1. page' = [page EXCEPT !.game = 0, !.bundle = NoBundle] /\ NoBundle \in Bundle
    BY DEF SessionStops, Bundle
  <2>. QED BY <1>1, <2>1 DEF BundleTypes
<1>7. /\ UNCHANGED <<buffer, active, dirs, zips, rescue, minute, said, teed, pruned, bounded>>
      /\ page.up /\ page.game # 0
  BY DEF SessionStops
<1>8. Dated'
  <2>1. page'.up = TRUE
    BY <1>1, <1>6, <1>7 DEF BundleTypes
  <2>. QED BY <1>1, <1>7, <2>1, DatedStays
<1>9. CASE chain' = chain
  <2>1. BundleTypes'
    BY <1>1, <1>6, <1>7, <1>9 DEF BundleTypes
  <2>2. Queue'
    BY <1>1, <1>6, <1>7, <1>9 DEF Queue, BundleTypes
  <2>3. AtHead'
    BY <1>1, <1>7, <1>9 DEF AtHead, Shipped, Contents
  <2>. QED BY <1>8, <2>1, <2>2, <2>3 DEF BundleInv
<1>10. CASE chain' = Append(chain, job)
  <2>1. /\ chain' \in Seq(Jobs) /\ Len(chain') = Len(chain) + 1 /\ Len(chain) \in Nat
        /\ \A i \in 1..Len(chain) : chain'[i] = chain[i]
        /\ chain'[Len(chain) + 1] = job /\ (chain = <<>> => Len(chain) = 0)
    BY <1>1, <1>4, <1>10, Enqueued
  <2>2. BundleTypes'
    BY <1>1, <1>6, <1>7, <2>1 DEF BundleTypes
  <2>3. owed # {} => chain = <<>> /\ active # NoBundle
    BY <1>1, <1>3 DEF Queue
  <2>4. Queue'
    <3>1. g > 0 /\ g <= bounded.games /\ bounded.games \in Nat
      BY <1>1, <1>2, <1>7 DEF Queue, BundleTypes
    <3>2. ASSUME NEW i \in 1..Len(chain')
          PROVE  /\ chain'[i].of > 0 /\ chain'[i].of <= bounded.games
                 /\ i > 1 => chain'[i].at = "queued" /\ chain'[i].owed = {}
                 /\ chain'[i].what = "start" => i \in 1..Len(chain) /\ chain'[i] = chain[i]
      <4>1. CASE i \in 1..Len(chain)
        BY <1>1, <2>1, <4>1 DEF Queue
      <4>2. CASE i = Len(chain) + 1
        BY <1>4, <2>1, <2>3, <3>1, <4>2
      <4>. QED BY <2>1, <4>1, <4>2
    <3>3. \A i \in 1..Len(chain) : chain[i].what = "start" =>
            /\ page.starting /\ chain[i].owed = {} /\ chain[i].of > 0
            /\ \A k \in 1..Len(chain) : chain[k].what = "start" => k = i
      BY <1>1 DEF Queue
    <3>4. ASSUME NEW i \in 1..Len(chain'), chain'[i].what = "start"
          PROVE  /\ page.starting /\ chain'[i].owed = {} /\ chain'[i].of # 0
                 /\ \A k \in 1..Len(chain') : chain'[k].what = "start" => k = i
      <4>1. i \in 1..Len(chain) /\ chain'[i] = chain[i] /\ chain[i].of > 0
        BY <3>2, <3>3, <3>4
      <4>2. \A k \in 1..Len(chain') : chain'[k].what = "start" =>
              k \in 1..Len(chain) /\ chain[k].what = "start"
        BY <3>2
      <4>. QED BY <3>3, <3>4, <4>1, <4>2
    <3>. QED BY <1>6, <1>7, <3>1, <3>2, <3>4 DEF Queue
  <2>5. AtHead'
    <3>1. owed # {} => owed \subseteq teed \cup buffer.lines \cup buffer.sent
      BY <1>3
    <3>. QED BY <1>1, <1>4, <1>7, <1>10, <2>3, <3>1, AtHeadQueued
  <2>. QED BY <1>8, <2>2, <2>4, <2>5 DEF BundleInv
<1>. QED BY <1>5, <1>9, <1>10

-----------------------------------------------------------------------------
(* The jobs.                                                                *)

LEMMA MoreFaults ==
  ASSUME BundleTypes, Fault
  PROVE  /\ bounded' \in [games : Nat, crashes : Nat, faults : Nat, toggles : Nat]
         /\ bounded'.games = bounded.games
<1>1. PICK n \in Nat : n = bounded.faults + 1
  BY DEF BundleTypes
<1>2. bounded' = [bounded EXCEPT !.faults = n]
  BY <1>1 DEF Fault
<1>. QED BY <1>2 DEF BundleTypes

\* The head moves on.
LEMMA TypesStepped ==
  ASSUME BundleTypes, chain # <<>>, NEW job \in Jobs, chain' = <<job>> \o Tail(chain),
         UNCHANGED <<page, rescue, minute, said, teed>>,
         bounded' \in [games : Nat, crashes : Nat, faults : Nat, toggles : Nat],
         buffer' \in [lines : Lines, sent : Lines, scheduled : BOOLEAN], active' \in Bundle,
         DOMAIN dirs' \subseteq Bundles, \A d \in DOMAIN dirs' : dirs'[d] \in Lines,
         zips' \in Seq(Lines), pruned' \in Lines
  PROVE  BundleTypes'
<1>1. chain' \in Seq(Jobs)
  BY Stepped
<1>. QED BY <1>1 DEF BundleTypes

LEMMA BeginFinishStep == ASSUME BundleInv, BeginFinish PROVE BundleInv'
<1>1. BundleTypes /\ Dated /\ Queue /\ AtHead
  BY DEF BundleInv
<1>2. /\ chain # <<>> /\ chain[1].what = "finish" /\ chain[1].at = "queued" /\ page.up
      /\ UNCHANGED <<page, active, dirs, zips, rescue, minute, said, teed, pruned, bounded>>
  BY DEF BeginFinish, HeadIs, Running
<1>3. PICK j \in Jobs : j = chain[1]
  BY <1>1, <1>2, HeadJob
<1>4. /\ buffer' \in [lines : Lines, sent : Lines, scheduled : BOOLEAN]
      /\ buffer'.lines = buffer.lines /\ buffer'.sent = buffer.sent
      /\ buffer'.scheduled <=> buffer.scheduled \/ buffer.lines # {}
      /\ buffer' = FlushLogBuffer(buffer)
  BY <1>1, Flushes DEF BeginFinish
<1>5. PICK w \in Nat : w = Outstanding(buffer')
  BY DEF Outstanding
<1> DEFINE job == Flushing(j, w)
<1>6. /\ job \in Jobs /\ Same(job, j) /\ job.at = "flushing" /\ job.wait = w
  BY FlushingJob
<1>7. chain' = <<job>> \o Tail(chain)
  BY <1>3, <1>4, <1>5 DEF BeginFinish, Step, Running, Flushing
<1>. HIDE DEF job
<1>8. BundleTypes'
  BY <1>1, <1>2, <1>4, <1>6, <1>7, TypesStepped DEF BundleTypes
<1>9. Dated'
  BY <1>1, <1>2, DatedStays DEF BundleTypes
<1>10. Queue'
  BY <1>1, <1>2, <1>3, <1>6, <1>7, QueueStepped
<1>11. AtHead'
  <2>1. chain'[1] = job
    BY <1>1, <1>2, <1>6, <1>7, Stepped
  <2>2. job.owed = j.owed /\ job.what = "finish"
          /\ job.owed \subseteq teed \cup buffer.lines \cup buffer.sent
        /\ (job.owed # {} => active # NoBundle)
    BY <1>1, <1>2, <1>3, <1>6 DEF Same, AtHead, Shipped
  <2>3. \/ job.owed \subseteq teed
        \/ w > 0 /\ job.owed \subseteq teed \cup buffer.sent
        \/ /\ w > (IF buffer.sent = {} THEN 0 ELSE 1) /\ buffer'.scheduled
           /\ job.owed \subseteq teed \cup buffer.lines \cup buffer.sent
    <3>1. CASE buffer'.scheduled
      <4>1. w = (IF buffer.sent = {} THEN 0 ELSE 1) + 1
        BY <1>4, <1>5, <3>1 DEF Outstanding
      <4>. QED BY <2>2, <3>1, <4>1
    <3>2. CASE ~buffer'.scheduled
      <4>1. w = (IF buffer.sent = {} THEN 0 ELSE 1) + 0 /\ buffer.lines = {}
        BY <1>4, <1>5, <3>2 DEF Outstanding
      <4>. QED BY <2>2, <4>1
    <3>. QED BY <3>1, <3>2
  <2>. QED BY <1>2, <1>4, <1>6, <2>1, <2>2, <2>3 DEF AtHead, Shipped
<1>. QED BY <1>8, <1>9, <1>10, <1>11 DEF BundleInv

LEMMA BeginStartStep == ASSUME BundleInv, BeginStart PROVE BundleInv'
<1>1. BundleTypes /\ Dated /\ Queue /\ AtHead
  BY DEF BundleInv
<1>2. /\ chain # <<>> /\ chain[1].what = "start" /\ chain[1].at = "queued" /\ page.up
      /\ UNCHANGED <<page, buffer, active, dirs, zips, rescue, minute, said, teed, pruned, bounded>>
  BY DEF BeginStart, HeadIs, Running
<1>3. PICK j \in Jobs : j = chain[1]
  BY <1>1, <1>2, HeadJob
<1>4. PICK n \in Bundles : n = <<j.of, minute>>
  BY <1>1 DEF BundleTypes, Jobs, Bundles
<1> DEFINE job == Called(j, n)
<1>5. n \in Bundle /\ n[1] = j.of /\ n[2] = minute
  BY <1>4 DEF Bundle
<1>6. /\ job \in Jobs /\ Same(job, j) /\ job.at = "asked" /\ job.name = n
  BY <1>5, CalledJob
<1>7. chain' = <<job>> \o Tail(chain)
  BY <1>3, <1>4 DEF BeginStart, Step, Running, Called
<1>. HIDE DEF job
<1>8. BundleTypes'
  BY <1>1, <1>2, <1>6, <1>7, TypesStepped DEF BundleTypes
<1>9. Dated'
  BY <1>1, <1>2, DatedStays DEF BundleTypes
<1>10. Queue'
  BY <1>1, <1>2, <1>3, <1>6, <1>7, QueueStepped
<1>11. AtHead'
  <2>1. chain'[1] = job
    BY <1>1, <1>2, <1>6, <1>7, Stepped
  <2>2. 1 \in 1..Len(chain)
    BY <1>1, <1>2, HeadJob
  <2>3. job.owed = {} /\ job.what = "start" /\ job.of = j.of
    BY <1>1, <1>2, <1>3, <1>6, <2>2 DEF Same, Queue
  <2>. QED BY <1>2, <1>5, <1>4, <1>6, <2>1, <2>3 DEF AtHead, Shipped
<1>. QED BY <1>8, <1>9, <1>10, <1>11 DEF BundleInv

LEMMA TakeActiveStep == ASSUME BundleInv, TakeActive PROVE BundleInv'
<1>1. BundleTypes /\ Dated /\ Queue /\ AtHead
  BY DEF BundleInv
<1>2. /\ chain # <<>> /\ page.up
      /\ \/ chain[1].what = "start" /\ chain[1].at = "asked"
         \/ chain[1].what = "finish" /\ chain[1].at = "flushing" /\ chain[1].wait = 0
      /\ active' = NoBundle
      /\ UNCHANGED <<page, buffer, dirs, zips, rescue, minute, said, teed, pruned, bounded>>
  BY DEF TakeActive, Calls, HeadIs, Running
<1>3. PICK j \in Jobs : j = chain[1]
  BY <1>1, <1>2, HeadJob
<1>4. PICK s \in Stages : s = IF active = NoBundle THEN AfterZip ELSE "zipping"
  BY DEF AfterZip, Stages
<1>5. PICK r \in Lines : r = Contents(active)
  BY <1>1, ContentsAreLines
<1>6. active \in Bundle /\ NoBundle \in Bundle
  BY <1>1, Lies DEF Bundle
<1> DEFINE job == Taking(j, s, active, r)
<1>7. /\ job \in Jobs /\ Same(job, j) /\ job.at = s /\ job.holds = active /\ job.read = r
      /\ job.name = j.name
  BY <1>6, TakingJob
<1>8. chain' = <<job>> \o Tail(chain)
  BY <1>3, <1>4, <1>5 DEF TakeActive, Step, Running, Taking
<1>. HIDE DEF job
<1>9. BundleTypes'
  BY <1>1, <1>2, <1>6, <1>7, <1>8, TypesStepped DEF BundleTypes
<1>10. Dated'
  BY <1>1, <1>2 DEF Dated, Kept, Contents
<1>11. Queue'
  BY <1>1, <1>2, <1>3, <1>7, <1>8, QueueStepped
<1>12. AtHead'
  <2>1. chain'[1] = job
    BY <1>1, <1>2, <1>7, <1>8, Stepped
  <2>2. 1 \in 1..Len(chain) /\ j.wait \in Nat
    BY <1>1, <1>2, HeadJob DEF Jobs
  <2>3. job.owed = j.owed /\ job.what = j.what /\ job.of = j.of
    BY <1>7 DEF Same
  <2>4. job.owed \subseteq teed
    <3>1. CASE j.what = "start"
      BY <1>1, <1>3, <2>2, <2>3, <3>1 DEF Queue
    <3>2. CASE j.at = "flushing" /\ j.wait = 0
      BY <1>1, <1>2, <1>3, <2>3, <3>2 DEF AtHead, Shipped
    <3>. QED BY <1>2, <1>3, <3>1, <3>2
  <2>5. s = "zipping" \/ (s = "opening" /\ j.what = "start") \/ (s = "done" /\ j.what = "finish")
    BY <1>2, <1>3, <1>4 DEF AfterZip, Running
  <2>6. j.what = "start" => j.name \in Bundles /\ j.name[1] = j.of /\ j.name[2] = minute
    BY <1>1, <1>2, <1>3 DEF AtHead
  <2>7. j.what = "start" \/ j.what = "finish"
    BY <1>2, <1>3
  <2>8. Shipped(chain[1])'
    BY <1>2, <1>7, <2>1, <2>4, <2>5 DEF Shipped
  <2>9. Contents(chain[1].holds)' = r
    BY <1>2, <1>5, <1>7, <2>1 DEF Contents
  <2>. QED BY <1>2, <1>7, <2>1, <2>3, <2>5, <2>6, <2>7, <2>8, <2>9 DEF AtHead
<1>. QED BY <1>9, <1>10, <1>11, <1>12 DEF BundleInv

\* A zip is made of what was read, and its directory removed, or the attempt fails.
LEMMA ZipEndsStep ==
  ASSUME BundleInv, chain # <<>>, page.up, chain[1].at = "zipping",
         chain[1].what = "start" \/ chain[1].what = "finish",
         Step([Running EXCEPT !.at = AfterZip, !.holds = NoBundle, !.read = {}]),
         DOMAIN dirs' \subseteq DOMAIN dirs, \A d \in DOMAIN dirs' : dirs'[d] \in Lines,
         \A e : Contents(e)' \subseteq Contents(e),
         \A line \in teed : Kept(line)',
         zips' \in Seq(Lines), pruned' \in Lines,
         bounded' \in [games : Nat, crashes : Nat, faults : Nat, toggles : Nat],
         bounded'.games = bounded.games,
         UNCHANGED <<page, buffer, active, rescue, minute, said, teed>>
  PROVE  BundleInv'
<1>1. BundleTypes /\ Dated /\ Queue /\ AtHead
  BY DEF BundleInv
<1>2. PICK j \in Jobs : j = chain[1]
  BY <1>1, HeadJob
<1>3. PICK s \in Stages : s = AfterZip
  BY DEF AfterZip, Stages
<1>4. NoBundle \in Bundle /\ {} \in Lines
  BY DEF Bundle, Lines
<1> DEFINE job == Taking(j, s, NoBundle, {})
<1>5. job \in Jobs /\ Same(job, j) /\ job.at = s /\ job.name = j.name
  BY <1>4, TakingJob
<1>6. chain' = <<job>> \o Tail(chain)
  BY <1>2, <1>3 DEF Step, Running, Taking
<1>. HIDE DEF job
<1>7. BundleTypes'
  BY <1>1, <1>5, <1>6, TypesStepped DEF BundleTypes
<1>8. Dated'
  <2>1. rescue.holds # NoBundle => Contents(rescue.holds)' \subseteq rescue.read
    <3>. SUFFICES ASSUME rescue.holds # NoBundle
         PROVE  Contents(rescue.holds)' \subseteq rescue.read
      OBVIOUS
    <3>1. PICK h \in Bundle : h = rescue.holds
      BY <1>1 DEF BundleTypes
    <3>2. Contents(h)' \subseteq Contents(h)
      OBVIOUS
    <3>3. Contents(rescue.holds)' = Contents(h)'
      BY <3>1 DEF Contents
    <3>. QED BY <1>1, <3>1, <3>2, <3>3 DEF Dated
  <2>. QED BY <1>1, <2>1 DEF Dated, BundleTypes
<1>9. Queue'
  BY <1>1, <1>2, <1>5, <1>6, QueueStepped
<1>10. AtHead'
  <2>1. chain'[1] = job
    BY <1>1, <1>5, <1>6, Stepped
  <2>2. job.owed = j.owed /\ job.what = j.what /\ job.of = j.of
    BY <1>5 DEF Same
  <2>3. j.owed \subseteq teed
    BY <1>1, <1>2 DEF AtHead, Shipped
  <2>4. (s = "opening" /\ j.what = "start") \/ (s = "done" /\ j.what = "finish")
    BY <1>2, <1>3 DEF AfterZip, Running
  <2>5. j.what = "start" => j.name \in Bundles /\ j.name[1] = j.of /\ j.name[2] = minute
    BY <1>1, <1>2 DEF AtHead
  <2>. QED BY <1>5, <2>1, <2>2, <2>3, <2>4, <2>5 DEF AtHead, Shipped
<1>. QED BY <1>7, <1>8, <1>9, <1>10 DEF BundleInv

\* What a zip is made of is all there is in the directory it replaces.
LEMMA ZippedIsKept ==
  ASSUME BundleTypes, NEW h, NEW read \in Lines, Contents(h) \subseteq read, dirs' = Without(h),
         NEW line, Kept(line), pruned \subseteq pruned',
         \A i \in DOMAIN (<<read>> \o zips) : \A l \in (<<read>> \o zips)[i] :
           l \in pruned' \/ \E k \in DOMAIN zips' : l \in zips'[k]
  PROVE  Kept(line)'
<1>1. CASE line \in pruned
  BY <1>1 DEF Kept
<1>2. ASSUME NEW d \in DOMAIN dirs, line \in dirs[d]
      PROVE  Kept(line)'
  <2>1. CASE d = h
    <3>1. line \in read
      BY <1>2, <2>1 DEF Contents
    <3>. QED BY <3>1, OneMoreZip DEF Kept
  <2>2. CASE d # h
    BY <1>2, <2>2, Removed DEF Kept
  <2>. QED BY <2>1, <2>2
<1>3. ASSUME NEW i \in DOMAIN zips, line \in zips[i]
      PROVE  Kept(line)'
  <2>1. i + 1 \in DOMAIN (<<read>> \o zips) /\ line \in (<<read>> \o zips)[i + 1]
    BY <1>3, OneMoreZip
  <2>. QED BY <2>1 DEF Kept
<1>. QED BY <1>1, <1>2, <1>3 DEF Kept

LEMMA ZippedStep == ASSUME BundleInv, Zipped PROVE BundleInv'
<1>1. BundleTypes /\ Dated /\ Queue /\ AtHead
  BY DEF BundleInv
<1>2. /\ chain # <<>> /\ page.up /\ chain[1].at = "zipping"
      /\ chain[1].what = "start" \/ chain[1].what = "finish"
      /\ Step([Running EXCEPT !.at = AfterZip, !.holds = NoBundle, !.read = {}])
      /\ dirs' = Without(chain[1].holds)
      /\ Prune(<<chain[1].read>> \o zips)
      /\ UNCHANGED <<page, buffer, active, rescue, minute, said, teed, bounded>>
  BY DEF Zipped, HeadIs, Running
<1>3. PICK read \in Lines : read = chain[1].read
  BY <1>1, <1>2, HeadJob DEF Jobs
<1>4. PICK h \in Bundle : h = chain[1].holds
  BY <1>1, <1>2, HeadJob DEF Jobs
<1>5. Contents(h) \subseteq read /\ dirs' = Without(h)
  BY <1>1, <1>2, <1>3, <1>4 DEF AtHead
<1>6. /\ DOMAIN dirs' \subseteq DOMAIN dirs
      /\ \A d \in DOMAIN dirs' : dirs'[d] \in Lines
      /\ \A e : Contents(e)' \subseteq Contents(e)
  BY <1>1, <1>5, Removed
<1> DEFINE s == <<read>> \o zips
<1>7. s \in Seq(Lines) /\ Prune(s) /\ pruned \in Lines
  BY <1>1, <1>2, <1>3, OneMoreZip DEF BundleTypes
<1>8. /\ zips' \in Seq(Lines) /\ pruned' \in Lines /\ pruned \subseteq pruned'
      /\ \A i \in DOMAIN s : \A line \in s[i] :
           line \in pruned' \/ \E k \in DOMAIN zips' : line \in zips'[k]
  <2>. HIDE DEF s
  <2>. QED BY <1>7, Pruned
<1>9. \A line \in teed : Kept(line)'
  BY <1>1, <1>5, <1>8, ZippedIsKept DEF Dated
<1>10. bounded' \in [games : Nat, crashes : Nat, faults : Nat, toggles : Nat]
       /\ bounded'.games = bounded.games
  BY <1>1, <1>2 DEF BundleTypes
<1>. QED BY <1>2, <1>6, <1>8, <1>9, <1>10, ZipEndsStep

LEMMA ZipFailsStep == ASSUME BundleInv, ZipFails PROVE BundleInv'
<1>1. BundleTypes /\ Dated
  BY DEF BundleInv
<1>2. /\ chain # <<>> /\ page.up /\ chain[1].at = "zipping" /\ Fault
      /\ chain[1].what = "start" \/ chain[1].what = "finish"
      /\ Step([Running EXCEPT !.at = AfterZip, !.holds = NoBundle, !.read = {}])
      /\ UNCHANGED <<page, buffer, active, dirs, zips, rescue, minute, said, teed, pruned>>
  BY DEF ZipFails, HeadIs, Running
<1>3. \A line \in teed : Kept(line)'
  BY <1>1, <1>2, KeptStays DEF Dated
<1>4. \A e : Contents(e)' = Contents(e)
  BY <1>2 DEF Contents
<1>. QED BY <1>1, <1>2, <1>3, <1>4, MoreFaults, ZipEndsStep DEF BundleTypes

\* A start lands: with its bundle open, or without one.
LEMMA OpensStep == ASSUME BundleInv, Opens \/ OpenFails PROVE BundleInv'
<1>1. BundleTypes /\ Dated /\ Queue /\ AtHead
  BY DEF BundleInv
<1>2. /\ chain # <<>> /\ page.up /\ chain[1].what = "start" /\ chain[1].at = "opening"
      /\ UNCHANGED <<page, buffer, zips, rescue, minute, said, teed, pruned>>
  BY DEF Opens, OpenFails, HeadIs, Running
<1>3. PICK j \in Jobs : j = chain[1]
  BY <1>1, <1>2, HeadJob
<1>4. j.name \in Bundles /\ j.name[1] = j.of /\ j.name[2] = minute
  BY <1>1, <1>2, <1>3 DEF AtHead
<1>5. NoBundle \in Bundle /\ j.name \in Bundle /\ {} \in Lines
  BY <1>4 DEF Bundle, Lines
<1>6. bounded' \in [games : Nat, crashes : Nat, faults : Nat, toggles : Nat]
      /\ bounded'.games = bounded.games
  BY <1>1, MoreFaults DEF Opens, OpenFails, BundleTypes
<1>7. PICK n \in Bundle :
        /\ chain' = <<LandedAs(j, n)>> \o Tail(chain)
        /\ n = NoBundle \/ (n = j.name /\ active' = j.name)
        /\ active' = active \/ active' = j.name
  <2>1. CASE Opens
    <3>1. [j EXCEPT !.at = "landed"] = LandedAs(j, j.name)
      BY DEF LandedAs, Jobs
    <3>. QED BY <1>3, <1>5, <2>1, <3>1 DEF Opens, Step, Running
  <2>2. CASE OpenFails
    BY <1>3, <1>5, <2>2 DEF OpenFails, Step, Running, LandedAs
  <2>. QED BY <2>1, <2>2
<1>8. /\ DOMAIN dirs' \subseteq DOMAIN dirs \cup {j.name}
        /\ \A e \in DOMAIN dirs' : dirs'[e] \in Lines
      /\ \A e : Contents(e)' = Contents(e)
      /\ \A e \in DOMAIN dirs : e \in DOMAIN dirs' /\ dirs[e] \subseteq dirs'[e]
  <2>1. CASE Opens
    <3>1. dirs' = Filled(j.name, {})
      BY <1>3, <2>1 DEF Opens, Running
    <3>. QED BY <1>1, <1>4, <1>5, <3>1, FilledUp
  <2>2. CASE OpenFails
    BY <1>1, <2>2 DEF OpenFails, Contents, BundleTypes
  <2>. QED BY <2>1, <2>2
<1>9. /\ LandedAs(j, n) \in Jobs /\ Same(LandedAs(j, n), j)
      /\ LandedAs(j, n).at = "landed" /\ LandedAs(j, n).name = n
  BY LandedJob
<1>10. BundleTypes'
  <2>1. active' \in Bundle /\ DOMAIN dirs' \subseteq Bundles
    BY <1>1, <1>4, <1>5, <1>7, <1>8, Lies DEF BundleTypes
  <2>. QED BY <1>1, <1>2, <1>6, <1>7, <1>8, <1>9, <2>1, TypesStepped DEF BundleTypes
<1>11. Dated'
  <2>1. \A line \in teed : Kept(line)'
    BY <1>1, <1>2, <1>8 DEF Dated, Kept
  <2>2. \A d \in DOMAIN dirs' : d[2] <= minute
    <3>. SUFFICES ASSUME NEW d \in DOMAIN dirs'
         PROVE  d[2] <= minute
      OBVIOUS
    <3>1. CASE d \in DOMAIN dirs
      BY <1>1, <3>1 DEF Dated
    <3>2. CASE d = j.name
      BY <1>1, <1>4, <3>2 DEF BundleTypes
    <3>. QED BY <1>8, <3>1, <3>2
  <2>3. Contents(rescue.holds)' = Contents(rescue.holds)
    <3>1. PICK h \in Bundle : h = rescue.holds
      BY <1>1 DEF BundleTypes
    <3>2. Contents(h)' = Contents(h)
      BY <1>8
    <3>. QED BY <1>2, <3>1, <3>2 DEF Contents
  <2>. QED BY <1>1, <1>2, <1>4, <1>7, <2>1, <2>2, <2>3 DEF Dated
<1>12. Queue'
  BY <1>1, <1>2, <1>3, <1>6, <1>7, <1>9, QueueStepped
<1>13. AtHead'
  <2>1. chain'[1] = LandedAs(j, n)
    BY <1>1, <1>2, <1>7, <1>9, Stepped
  <2>2. 1 \in 1..Len(chain)
    BY <1>1, <1>2, HeadJob
  <2>3. j.owed = {}
    BY <1>1, <1>2, <1>3, <2>2 DEF Queue
  <2>. QED BY <1>2, <1>3, <1>4, <1>7, <1>9, <2>1, <2>3 DEF AtHead, Shipped, Same
<1>. QED BY <1>10, <1>11, <1>12, <1>13 DEF BundleInv

\* A job is done: the next has not begun.
LEMMA NextRuns ==
  ASSUME BundleTypes, Queue, chain # <<>>, chain' = Tail(chain)
  PROVE  AtHead'
<1>. SUFFICES ASSUME chain' # <<>> PROVE AtHead'
  BY DEF AtHead
<1>1. chain'[1] = chain[2] /\ 2 \in 1..Len(chain)
  BY Dequeued
<1>2. chain[2].at = "queued" /\ chain[2].owed = {}
  BY <1>1 DEF Queue
<1>3. chain[2] \in Jobs
  BY <1>1, HeadJob
<1>. QED BY <1>1, <1>2, <1>3 DEF AtHead, Shipped, Jobs

LEMMA FinishedStep == ASSUME BundleInv, Finished PROVE BundleInv'
<1>1. BundleTypes /\ Dated /\ Queue /\ AtHead
  BY DEF BundleInv
<1>2. /\ chain # <<>> /\ page.up /\ chain' = Tail(chain)
      /\ UNCHANGED <<page, buffer, active, dirs, zips, rescue, minute, said, teed, pruned, bounded>>
  BY DEF Finished, HeadIs, Running
<1>3. /\ chain' \in Seq(Jobs) /\ Len(chain') = Len(chain) - 1 /\ Len(chain) \in Nat
      /\ \A i \in 1..Len(chain') : i + 1 \in 1..Len(chain) /\ chain'[i] = chain[i + 1]
  BY <1>1, <1>2, Dequeued, HeadJob
<1>4. BundleTypes'
  BY <1>1, <1>2, <1>3 DEF BundleTypes
<1>5. Dated'
  BY <1>1, <1>2, DatedStays DEF BundleTypes
<1>6. Queue'
  <2>1. page.bundle = NoBundle
    BY <1>1, <1>2 DEF Queue
  <2>2. ASSUME NEW i \in 1..Len(chain')
        PROVE  /\ chain'[i].of > 0 /\ chain'[i].of <= bounded.games
               /\ chain'[i].at = "queued" /\ chain'[i].owed = {}
               /\ chain'[i].what = "start" =>
                    /\ page.starting
                    /\ chain'[i].of = page.game => i = Len(chain')
                    /\ \A k \in 1..Len(chain') : chain'[k].what = "start" => k = i
    <3>1. i + 1 \in 1..Len(chain) /\ chain'[i] = chain[i + 1] /\ i + 1 > 1
      BY <1>3
    <3>2. chain'[i].what = "start" =>
            \A k \in 1..Len(chain') : chain'[k].what = "start" => k + 1 = i + 1
      BY <1>1, <1>3, <3>1 DEF Queue
    <3>3. chain'[i].what = "start" =>
            /\ page.starting
            /\ chain'[i].of = page.game => i + 1 = Len(chain)
      BY <1>1, <3>1 DEF Queue
    <3>4. /\ chain'[i].of > 0 /\ chain'[i].of <= bounded.games
          /\ chain'[i].at = "queued" /\ chain'[i].owed = {}
      BY <1>1, <3>1 DEF Queue
    <3>5. i + 1 = Len(chain) => i = Len(chain')
      BY <1>3
    <3>6. \A k \in 1..Len(chain') : k + 1 = i + 1 => k = i
      BY <1>3
    <3>. QED BY <3>2, <3>3, <3>4, <3>5, <3>6
  <2>. QED BY <1>1, <1>2, <2>1, <2>2 DEF Queue
<1>7. AtHead'
  BY <1>1, <1>2, NextRuns
<1>. QED BY <1>4, <1>5, <1>6, <1>7 DEF BundleInv

LEMMA LandedStep == ASSUME BundleInv, Landed PROVE BundleInv'
<1>1. BundleTypes /\ Dated /\ Queue /\ AtHead
  BY DEF BundleInv
<1>2. /\ chain # <<>> /\ page.up /\ chain[1].what = "start" /\ chain[1].at = "landed"
      /\ chain' = Tail(chain)
      /\ UNCHANGED <<buffer, active, dirs, zips, rescue, minute, said, teed, pruned, bounded>>
  BY DEF Landed, HeadIs, Running
<1>3. PICK j \in Jobs : j = chain[1]
  BY <1>1, <1>2, HeadJob
<1>4. /\ chain' \in Seq(Jobs) /\ Len(chain') = Len(chain) - 1 /\ Len(chain) \in Nat
        /\ Len(chain) > 0
      /\ \A i \in 1..Len(chain') : i + 1 \in 1..Len(chain) /\ chain'[i] = chain[i + 1]
  BY <1>1, <1>2, Dequeued, HeadJob
<1>5. /\ page.bundle = NoBundle /\ j.of > 0 /\ (j.of = page.game => Len(chain) = 1)
      /\ \A k \in 1..Len(chain) : chain[k].what = "start" => k = 1
  <2>1. 1 \in 1..Len(chain)
    BY <1>4
  <2>2. page.bundle = NoBundle /\ j.of > 0 /\ (j.of = page.game => 1 = Len(chain))
    BY <1>1, <1>2, <1>3, <2>1 DEF Queue
  <2>3. \A k \in 1..Len(chain) : chain[k].what = "start" => k = 1
    BY <1>1, <1>2, <2>1 DEF Queue
  <2>. QED BY <2>2, <2>3
<1>6. PICK b \in Bundle : b = IF page.game = j.of THEN j.name ELSE page.bundle
  BY <1>1 DEF BundleTypes, Jobs
<1>7. PICK f \in Nat : f = IF j.name = NoBundle THEN j.of ELSE page.failedFor
  BY <1>1 DEF BundleTypes, Jobs
<1>8. /\ page' \in [up : BOOLEAN, debug : BOOLEAN, game : Nat, bundle : Bundle,
                    starting : BOOLEAN, failedFor : Nat]
      /\ page'.game = page.game /\ page'.bundle = b /\ page'.starting = FALSE
      /\ page'.up = page.up
  <2>1. page' = [page EXCEPT !.starting = FALSE, !.bundle = b, !.failedFor = f]
    BY <1>3, <1>6, <1>7 DEF Landed, Running
  <2>. QED BY <1>1, <2>1 DEF BundleTypes
<1>9. BundleTypes'
  BY <1>1, <1>2, <1>4, <1>8 DEF BundleTypes
<1>10. Dated'
  BY <1>1, <1>2, <1>8, DatedStays DEF BundleTypes
<1>11. Queue'
  <2>1. b # NoBundle => chain' = <<>> /\ active = b /\ b[1] = page.game /\ page.game > 0
    <3>. SUFFICES ASSUME b # NoBundle
         PROVE  chain' = <<>> /\ active = b /\ b[1] = page.game /\ page.game > 0
      OBVIOUS
    <3>1. page.game = j.of /\ b = j.name
      BY <1>5, <1>6
    <3>2. Len(chain') = 0
      <4>1. Len(chain) = 1
        BY <1>5, <3>1
      <4>2. Len(chain') = Len(chain) - 1
        BY <1>4
      <4>. QED BY <4>1, <4>2
    <3>. QED BY <1>1, <1>2, <1>3, <1>4, <1>5, <3>1, <3>2 DEF AtHead
  <2>2. ASSUME NEW i \in 1..Len(chain')
        PROVE  /\ chain'[i].of > 0 /\ chain'[i].of <= bounded.games
               /\ chain'[i].at = "queued" /\ chain'[i].owed = {}
               /\ chain'[i].what # "start"
    <3>1. i + 1 \in 1..Len(chain) /\ chain'[i] = chain[i + 1] /\ i + 1 > 1 /\ i + 1 # 1
      BY <1>4
    <3>. QED BY <1>1, <1>5, <3>1 DEF Queue
  <2>. QED BY <1>1, <1>2, <1>8, <2>1, <2>2 DEF Queue
<1>12. AtHead'
  BY <1>1, <1>2, NextRuns
<1>. QED BY <1>9, <1>10, <1>11, <1>12 DEF BundleInv

-----------------------------------------------------------------------------
(* Deaths of the app, and the recovery.                                     *)

LEMMA Resting == AtRest \in [found : SUBSET Bundles, holds : Bundle, read : Lines]
                 /\ AtRest.found = {} /\ AtRest.holds = NoBundle
BY DEF AtRest, Bundle, Lines

LEMMA Nobodies ==
  ASSUME NEW up \in BOOLEAN
  PROVE  LET p == [Nobody EXCEPT !.up = up] IN
         /\ p \in [up : BOOLEAN, debug : BOOLEAN, game : Nat, bundle : Bundle,
                   starting : BOOLEAN, failedFor : Nat]
         /\ p.up = up /\ p.game = 0 /\ p.bundle = NoBundle /\ p.starting = FALSE
BY DEF Nobody, Bundle

LEMMA CrashStep == ASSUME BundleInv, Crash PROVE BundleInv'
<1>1. BundleTypes /\ Dated /\ Queue /\ AtHead
  BY DEF BundleInv
<1>2. /\ chain' = <<>> /\ buffer' = Unwritten /\ active' = NoBundle /\ rescue' = AtRest
      /\ UNCHANGED <<dirs, minute, said, teed, pruned>>
  BY DEF Crash
<1>3. /\ page' \in [up : BOOLEAN, debug : BOOLEAN, game : Nat, bundle : Bundle,
                    starting : BOOLEAN, failedFor : Nat]
      /\ page'.up = FALSE /\ page'.game = 0 /\ page'.bundle = NoBundle /\ page'.starting = FALSE
  BY Nobodies DEF Crash
<1>4. PICK n \in Nat : n = bounded.crashes + 1
  BY <1>1 DEF BundleTypes
<1>5. bounded' = [bounded EXCEPT !.crashes = n]
  BY <1>4 DEF Crash
<1>6. bounded' \in [games : Nat, crashes : Nat, faults : Nat, toggles : Nat]
      /\ bounded'.games = bounded.games /\ bounded.games \in Nat
  BY <1>1, <1>5 DEF BundleTypes
<1>7. PICK halves \in Seq(Lines) : zips' = halves \o zips
  <2>1. PICK n0 \in Nat : n0 = IF chain # <<>> /\ Running.at = "zipping" THEN 1 ELSE 0
    OBVIOUS
  <2>2. {} \in Lines
    BY DEF Lines
  <2>3. [i \in 1..n0 |-> {}] \in Seq(Lines)
    BY <2>2
  <2>. QED BY <2>1, <2>3 DEF Crash
<1>8. /\ zips' \in Seq(Lines) /\ DOMAIN zips = 1..Len(zips) /\ Len(halves) \in Nat
      /\ \A i \in DOMAIN zips : i + Len(halves) \in DOMAIN zips' /\ zips'[i + Len(halves)] = zips[i]
  BY <1>1, <1>7 DEF BundleTypes
<1>9. buffer' \in [lines : Lines, sent : Lines, scheduled : BOOLEAN]
  BY <1>2 DEF Unwritten, Lines
<1>10. chain' \in Seq(Jobs) /\ Len(chain') = 0 /\ active' \in Bundle
  BY <1>2 DEF Bundle
<1>11. BundleTypes'
  BY <1>1, <1>2, <1>3, <1>6, <1>8, <1>9, <1>10, Resting DEF BundleTypes
<1>12. Dated'
  <2>1. \A line \in teed : Kept(line)'
    BY <1>1, <1>2, <1>8 DEF Dated, Kept
  <2>. QED BY <1>1, <1>2, <2>1, Resting DEF Dated
<1>13. Queue'
  BY <1>3, <1>6, <1>10 DEF Queue
<1>14. AtHead'
  BY <1>2 DEF AtHead
<1>. QED BY <1>11, <1>12, <1>13, <1>14 DEF BundleInv

LEMMA LaunchStep == ASSUME BundleInv, Launch PROVE BundleInv'
<1>1. BundleTypes /\ Dated /\ Queue /\ AtHead
  BY DEF BundleInv
<1>2. /\ chain = <<>> /\ active = NoBundle /\ minute \in Nat /\ minute' = minute + 1
      /\ UNCHANGED <<chain, buffer, active, dirs, zips, said, teed, pruned, bounded>>
      /\ rescue' = [AtRest EXCEPT !.found = DOMAIN dirs] /\ page' = Nobody
  BY <1>1 DEF Launch, Dated, BundleTypes
<1>3. /\ page' \in [up : BOOLEAN, debug : BOOLEAN, game : Nat, bundle : Bundle,
                    starting : BOOLEAN, failedFor : Nat]
      /\ page'.up = TRUE /\ page'.game = 0 /\ page'.bundle = NoBundle /\ page'.starting = FALSE
  BY <1>2 DEF Nobody, Bundle
<1>4. /\ rescue' \in [found : SUBSET Bundles, holds : Bundle, read : Lines]
      /\ rescue'.found = DOMAIN dirs /\ rescue'.holds = NoBundle
  BY <1>1, <1>2, Resting DEF BundleTypes
<1>5. BundleTypes'
  <2>1. minute' \in Nat
    BY <1>2
  <2>. QED BY <1>1, <1>2, <1>3, <1>4, <2>1 DEF BundleTypes
<1>6. \A d \in DOMAIN dirs : d[2] <= minute' /\ d[2] < minute'
  <2>. SUFFICES ASSUME NEW d \in DOMAIN dirs PROVE d[2] <= minute' /\ d[2] < minute'
    OBVIOUS
  <2>1. d \in Bundles /\ d[2] \in Nat /\ d[2] <= minute
    BY <1>1 DEF BundleTypes, Bundles, Dated
  <2>. QED BY <1>2, <2>1
<1>7. Dated'
  BY <1>1, <1>2, <1>3, <1>4, <1>6 DEF Dated, Kept
<1>8. Queue'
  BY <1>1, <1>2, <1>3 DEF Queue, BundleTypes
<1>9. AtHead'
  BY <1>2 DEF AtHead
<1>. QED BY <1>5, <1>7, <1>8, <1>9 DEF BundleInv

LEMMA RecoverReadsStep == ASSUME BundleInv, NEW d \in DOMAIN dirs, RecoverReads(d) PROVE BundleInv'
<1>1. BundleTypes /\ Dated /\ Queue /\ AtHead
  BY DEF BundleInv
<1>2. /\ rescue' = [found |-> rescue.found \ {d}, holds |-> d, read |-> Contents(d)]
      /\ d \in rescue.found /\ page.up
      /\ UNCHANGED <<page, chain, buffer, active, dirs, zips, minute, said, teed, pruned, bounded>>
  BY DEF RecoverReads, Unfinished
<1>3. Contents(d) \in Lines /\ d \in Bundles
  BY <1>1, ContentsAreLines DEF BundleTypes
<1>4. BundleTypes'
  BY <1>1, <1>2, <1>3 DEF BundleTypes, Bundle
<1>5. Dated'
  BY <1>1, <1>2 DEF Dated, Kept, Contents
<1>6. Queue' /\ AtHead'
  BY <1>1, <1>2 DEF Queue, AtHead, Shipped, Contents
<1>. QED BY <1>4, <1>5, <1>6 DEF BundleInv

LEMMA RecoverZipsStep == ASSUME BundleInv, RecoverZips PROVE BundleInv'
<1>1. BundleTypes /\ Dated /\ Queue /\ AtHead
  BY DEF BundleInv
<1>2. /\ rescue' = [rescue EXCEPT !.holds = NoBundle, !.read = {}]
      /\ dirs' = Without(rescue.holds) /\ zips' = <<rescue.read>> \o zips /\ rescue.holds # NoBundle
      /\ page.up
      /\ UNCHANGED <<page, chain, buffer, active, minute, said, teed, pruned, bounded>>
  BY DEF RecoverZips
<1>3. PICK read \in Lines : read = rescue.read
  BY <1>1 DEF BundleTypes
<1>4. PICK h \in Bundle : h = rescue.holds
  BY <1>1 DEF BundleTypes
<1>5. /\ DOMAIN dirs' = DOMAIN dirs \ {h}
      /\ \A e \in DOMAIN dirs' : dirs'[e] = dirs[e] /\ dirs'[e] \in Lines
      /\ \A e : Contents(e)' \subseteq Contents(e)
  BY <1>1, <1>2, <1>4, Removed
<1>6. zips' \in Seq(Lines)
  BY <1>1, <1>2, <1>3, OneMoreZip
<1>7. /\ rescue' \in [found : SUBSET Bundles, holds : Bundle, read : Lines]
      /\ rescue'.found = rescue.found /\ rescue'.holds = NoBundle
  BY <1>1, <1>2 DEF BundleTypes, Bundle, Lines
<1>8. BundleTypes'
  BY <1>1, <1>2, <1>5, <1>6, <1>7 DEF BundleTypes
<1>9. Dated'
  <2>1. Contents(h) \subseteq read /\ dirs' = Without(h)
    BY <1>1, <1>2, <1>3, <1>4 DEF Dated
  <2>2. \A i \in DOMAIN (<<read>> \o zips) : \A l \in (<<read>> \o zips)[i] :
          l \in pruned' \/ \E k \in DOMAIN zips' : l \in zips'[k]
    BY <1>2, <1>3
  <2>3. \A line \in teed : Kept(line)'
    BY <1>1, <1>2, <2>1, <2>2, ZippedIsKept DEF Dated
  <2>. QED BY <1>1, <1>2, <1>5, <1>7, <2>3 DEF Dated, BundleTypes
<1>10. Queue'
  BY <1>1, <1>2 DEF Queue
<1>11. AtHead'
  <2>1. chain # <<>> /\ chain[1].at = "zipping" => Contents(chain[1].holds)' \subseteq chain[1].read
    <3>. SUFFICES ASSUME chain # <<>>, chain[1].at = "zipping"
         PROVE  Contents(chain[1].holds)' \subseteq chain[1].read
      OBVIOUS
    <3>1. PICK k \in Bundle : k = chain[1].holds
      BY <1>1, HeadJob DEF Jobs
    <3>2. Contents(chain[1].holds)' = Contents(k)'
      BY <1>2, <3>1 DEF Contents
    <3>. QED BY <1>1, <1>5, <3>1, <3>2 DEF AtHead
  <2>. QED BY <1>1, <1>2, <2>1 DEF AtHead, Shipped
<1>. QED BY <1>8, <1>9, <1>10, <1>11 DEF BundleInv

LEMMA RecoverEndsStep == ASSUME BundleInv, RecoverFails \/ RecoverPrunes PROVE BundleInv'
<1>1. BundleTypes /\ Dated /\ Queue /\ AtHead
  BY DEF BundleInv
<1>2. /\ UNCHANGED <<page, chain, buffer, active, dirs, minute, said, teed>>
      /\ page.up
  BY DEF RecoverFails, RecoverPrunes
<1>3. bounded' \in [games : Nat, crashes : Nat, faults : Nat, toggles : Nat]
      /\ bounded'.games = bounded.games
  BY <1>1, MoreFaults DEF RecoverFails, RecoverPrunes, BundleTypes
<1>4. zips' \in Seq(Lines) /\ pruned' \in Lines /\ pruned \subseteq pruned'
      /\ \A i \in DOMAIN zips : \A line \in zips[i] :
           line \in pruned' \/ \E k \in DOMAIN zips' : line \in zips'[k]
  <2>1. CASE RecoverFails
    BY <1>1, <2>1 DEF RecoverFails, BundleTypes
  <2>2. CASE RecoverPrunes
    BY <1>1, <2>2, Pruned DEF RecoverPrunes, BundleTypes
  <2>. QED BY <2>1, <2>2
<1>5. /\ rescue' \in [found : SUBSET Bundles, holds : Bundle, read : Lines]
      /\ rescue'.found = rescue.found
      /\ rescue'.holds # NoBundle => rescue' = rescue
  BY <1>1 DEF RecoverFails, RecoverPrunes, BundleTypes, Bundle, Lines
<1>6. BundleTypes'
  BY <1>1, <1>2, <1>3, <1>4, <1>5 DEF BundleTypes
<1>7. Dated'
  <2>1. \A line \in teed : Kept(line)'
    BY <1>1, <1>2, <1>4 DEF Dated, Kept
  <2>. QED BY <1>1, <1>2, <1>5, <2>1 DEF Dated, Contents
<1>8. Queue' /\ AtHead'
  BY <1>1, <1>2, <1>3 DEF Queue, AtHead, Shipped, Contents
<1>. QED BY <1>6, <1>7, <1>8 DEF BundleInv

LEMMA BundleStep == ASSUME BundleInv, [BundleNext]_bundleVars PROVE BundleInv'
<1>1. CASE Say \/ Flush \/ Drain \/ Tee
  BY <1>1, SayStep, FlushStep, DrainStep, TeeStep
<1>2. CASE GameStarts \/ Ensure \/ SessionStops \/ ToggleDebug
  BY <1>2, GameStartsStep, EnsureStep, SessionStopsStep, ToggleStep
<1>3. CASE BeginFinish \/ BeginStart \/ Landed
  BY <1>3, BeginFinishStep, BeginStartStep, LandedStep
<1>4. CASE TakeActive \/ Zipped \/ ZipFails \/ Opens \/ OpenFails \/ Finished
  BY <1>4, TakeActiveStep, ZippedStep, ZipFailsStep, OpensStep, FinishedStep
<1>5. CASE Crash \/ Launch
  BY <1>5, CrashStep, LaunchStep
<1>6. ASSUME NEW d \in DOMAIN dirs, RecoverReads(d) PROVE BundleInv'
  BY <1>6, RecoverReadsStep
<1>7. CASE RecoverZips \/ RecoverFails \/ RecoverPrunes
  BY <1>7, RecoverZipsStep, RecoverEndsStep
<1>8. CASE UNCHANGED bundleVars
  BY <1>8 DEF bundleVars, BundleInv, BundleTypes, Dated, Kept, Contents, Queue, AtHead, Shipped
<1>. QED BY <1>1, <1>2, <1>3, <1>4, <1>5, <1>6, <1>7, <1>8 DEF BundleNext

\* Whatever reached a game's bundle is in a directory a launch will find or in a
\* zip, the bundle the page holds is the one collecting, and what was logged before a
\* game ended is in its bundle before that is zipped: bundle_start, bundle_finish,
\* recover, and the page's chain of them.
THEOREM GamesAreKeptWhole == BundleSpec => []BundlesAreWhole
<1>1. BundleInv => NothingLost
  <2>. SUFFICES ASSUME BundleInv, NEW line \in teed
       PROVE  line \in pruned \cup (UNION {dirs[d] : d \in DOMAIN dirs}) \cup (UNION {zips[i] : i \in DOMAIN zips})
    BY DEF NothingLost
  <2>1. Kept(line)
    BY DEF BundleInv, Dated
  <2>. QED BY <2>1 DEF Kept
<1>2. BundleInv => CollectsThisGame
  BY DEF BundleInv, Queue, CollectsThisGame
<1>3. BundleInv => LastLinesIncluded
  BY DEF BundleInv, AtHead, Shipped, LastLinesIncluded, Running
<1>4. BundleSpec => []BundleInv
  BY BundleInitInv, BundleStep, PTL DEF BundleSpec
<1>. QED BY <1>1, <1>2, <1>3, <1>4, PTL DEF BundlesAreWhole

-----------------------------------------------------------------------------
(* Deaths.                                                                  *)

Told    == [dead : {TRUE}, left : Int, of : Nat]
Reading == {Unread, Unclear, Alive} \cup Told
Ask     == [at : Nat, reading : Reading]

DeathTypes ==
  /\ now \in Nat /\ deaths \in Nat /\ told \in Nat /\ lastDeath \in Nat /\ moves \in Nat
  /\ league \in [dead : BOOLEAN, until : Int]
  /\ session \in {"none", "on", "watched"} /\ tracker \in {"none", "dead", "alive"}
  /\ local \in BOOLEAN /\ aimed \in BOOLEAN
  /\ poll \in [Polls -> {Nothing} \cup Ask]
  /\ respawnDue \in Int \cup {Never} /\ respawnedAt \in Int \cup {Never}

\* League's own times.
LeagueTimes ==
  /\ ~league.dead => now >= league.until
  /\ league.dead => now <= league.until + LeagueLag /\ deaths > 0
  /\ respawnedAt # Never => respawnedAt <= now

\* An answer on its way is recent, and a death it tells of is the latest there was.
Recent(ask) ==
  /\ ask.at <= now /\ now <= ask.at + SlowLatency
  /\ ask.reading.dead =>
       /\ ask.reading.of = deaths /\ deaths > 0
       /\ ask.at <= league.until + LeagueLag
       /\ ask.reading.left >= 0 /\ ask.reading.left >= league.until - now
       /\ ask.reading.left = 0 \/ ask.reading.left <= league.until - ask.at

\* One poll counts at a time, and an "alive" that is still to count is no older than
\* the last reading that told of this death.
Counts(p) == p = "slow" => session # "watched"
InOrder ==
  /\ \A p \in Polls : poll[p] # Nothing => Recent(poll[p])
  /\ session = "on" => poll["fast"] = Nothing
  /\ session = "none" /\ poll["slow"] # Nothing => poll["fast"] = Nothing
  /\ lastDeath <= deaths
  /\ \A p \in Polls :
       poll[p] # Nothing /\ poll[p].reading = Alive /\ league.dead /\ Counts(p) => lastDeath < deaths

\* The timer is set for the end of the latest death.
Due ==
  /\ respawnDue # Never =>
       /\ local /\ session # "none"
       /\ league.until <= respawnDue /\ respawnDue <= league.until + SlowLatency
       /\ now <= respawnDue
  /\ aimed => respawnDue # Never
  /\ session = "none" => tracker = "none"

\* As many deaths were told of as there could be, only if the last is being lived through
\* or is over.
Reckoning ==
  /\ told <= deaths + moves
  /\ told = deaths + moves =>
       deaths = 0 \/ tracker = "dead" \/ (respawnedAt # Never /\ respawnedAt >= league.until)
  /\ lastDeath < deaths => told < deaths + moves

DeathInv == DeathTypes /\ LeagueTimes /\ InOrder /\ Due /\ Reckoning

USE DEF DeathInit, leagueVars, pollVars, stateVars

LEMMA Bounds ==
  /\ {PollLatency, SlowLatency, LeagueLag, Spared, Second, Remembered} \subseteq Nat
  /\ Timers \subseteq Nat /\ PollLatency <= SlowLatency
  /\ SlowLatency < Second /\ LeagueLag + SlowLatency < Remembered
  /\ LeagueLag + SlowLatency < Spared /\ Never \notin Int
BY DeathAssumption

LEMMA Readings ==
  ASSUME NEW r \in Reading
  PROVE  /\ r.dead \in BOOLEAN /\ r.left \in Int /\ r.of \in Nat
         /\ r.dead => r \in Told
         /\ ~r.dead => r \in {Unread, Unclear, Alive}
<1>1. CASE r \in {Unread, Unclear, Alive}
  <2>1. r.dead = FALSE /\ r.left \in Int /\ r.of \in Nat
    BY <1>1 DEF Unread, Unclear, Alive
  <2>. QED BY <1>1, <2>1
<1>2. CASE r \in Told
  <2>1. r.dead = TRUE /\ r.left \in Int /\ r.of \in Nat
    BY <1>2 DEF Told
  <2>. QED BY <1>2, <2>1
<1>. QED BY <1>1, <1>2 DEF Reading

LEMMA Asked ==
  ASSUME DeathTypes, NEW p \in Polls, poll[p] # Nothing
  PROVE  poll[p] \in Ask /\ poll[p].at \in Nat /\ poll[p].reading \in Reading
BY DEF DeathTypes, Ask

-----------------------------------------------------------------------------
(* A reading applied.                                                       *)

\* A timer read from a recent answer ends where the death does.
LEMMA AimsAtTheEnd ==
  ASSUME DeathInv, NEW ask \in Ask, Recent(ask), ask.reading.dead, ask.reading.left > 0
  PROVE  LET due == now + ask.reading.left IN
         /\ due \in Int /\ league.until <= due /\ due <= league.until + SlowLatency /\ now <= due
<1>. ask.at \in Nat /\ ask.reading.left \in Int
  BY Readings DEF Ask
<1>. now \in Nat /\ league.until \in Int
  BY DEF DeathInv, DeathTypes
<1>. QED BY Bounds DEF Recent

\* A death told of twice is League's leftover.
LEMMA NoSecondDeath ==
  ASSUME DeathInv, NEW ask \in Ask, Recent(ask), ask.reading.dead,
         tracker = "alive", told = deaths + moves
  PROVE  Leftover(ask.reading)
<1>1. ask.at \in Nat /\ ask.reading.left \in Int /\ now \in Nat /\ league.until \in Int
      /\ respawnedAt \in Int \cup {Never}
  BY Readings DEF Ask, DeathInv, DeathTypes
<1>2. deaths > 0 /\ deaths \in Nat
  BY DEF Recent, DeathInv, DeathTypes
<1>3. respawnedAt # Never /\ respawnedAt >= league.until /\ respawnedAt <= now
        /\ respawnedAt \in Int
  BY <1>1, <1>2 DEF DeathInv, Reckoning, LeagueTimes
<1>4. now - respawnedAt < Remembered
  BY <1>1, <1>3, Bounds DEF Recent
<1>5. ask.reading.left < Second
  BY <1>1, <1>3, Bounds DEF Recent
<1>. QED BY <1>3, <1>4, <1>5 DEF Leftover

LEMMA NotAimed ==
  ASSUME NEW left \in Int, ~(left > 0), ScheduleRespawn(left)
  PROVE  aimed' = FALSE
<1>1. (left > 0) = FALSE
  BY SMT
<1>2. aimed' = (left > 0)
  BY Zenon DEF ScheduleRespawn
<1>. QED BY <1>1, <1>2, Zenon

LEMMA Applies ==
  ASSUME DeathInv, NEW ask \in Ask, Recent(ask), ask.reading # Unread, session # "none",
         ask.reading = Alive /\ league.dead => lastDeath < deaths,
         ApplyDeathState(ask.reading),
         UNCHANGED <<now, leagueVars, session, moves>>
  PROVE  /\ told' \in Nat /\ lastDeath' \in Nat /\ tracker' \in {"none", "dead", "alive"}
         /\ local' \in BOOLEAN /\ aimed' \in BOOLEAN
         /\ respawnDue' \in Int \cup {Never} /\ respawnedAt' \in Int \cup {Never}
         /\ LeagueTimes' /\ Due' /\ Reckoning'
         /\ lastDeath' <= deaths /\ (~ask.reading.dead => lastDeath' = lastDeath)
<1> DEFINE r == ask.reading
<1>1. r \in Reading /\ r.dead \in BOOLEAN /\ r.left \in Int /\ r.of \in Nat
  BY Readings DEF Ask
<1>2. DeathTypes /\ LeagueTimes /\ Due /\ Reckoning /\ lastDeath <= deaths
  BY DEF DeathInv, InOrder
<1>3. /\ now \in Nat /\ deaths \in Nat /\ told \in Nat /\ lastDeath \in Nat /\ moves \in Nat
      /\ league.until \in Int /\ tracker \in {"none", "dead", "alive"}
  BY <1>2 DEF DeathTypes
<1>4. r.dead => r.of = deaths /\ deaths > 0
  BY DEF Recent
<1>5. CASE News(r) /\ ~Leftover(r) /\ local' = TRUE /\ lastDeath' = r.of /\ OnDeath
           /\ ScheduleRespawn(r.left) /\ UNCHANGED respawnedAt
  <2>1. r.dead
    BY <1>5 DEF News
  <2>2. tracker = "alive" => told < deaths + moves
    BY <1>2, <1>3, <1>5, <2>1, NoSecondDeath DEF Reckoning
  <2>3. /\ told' \in Nat /\ told' <= deaths + moves
        /\ tracker' \in {"none", "dead", "alive"} /\ (tracker' = "none" <=> tracker = "none")
        /\ tracker' # "none" => tracker' = "dead"
        /\ tracker' = "none" => told' = told
    BY <1>2, <1>3, <1>5, <2>2 DEF OnDeath, Reckoning
  <2>4. /\ aimed' \in BOOLEAN /\ respawnDue' \in Int \cup {Never}
        /\ respawnDue' # Never =>
             /\ league.until <= respawnDue' /\ respawnDue' <= league.until + SlowLatency
             /\ now <= respawnDue'
        /\ aimed' => respawnDue' # Never
    <3>1. CASE r.left > 0
      BY <1>1, <1>5, <2>1, <3>1, AimsAtTheEnd, Bounds DEF ScheduleRespawn
    <3>2. CASE ~(r.left > 0)
      <4>1. respawnDue' = Never
        BY <1>5, <3>2 DEF ScheduleRespawn
      <4>2. aimed' = FALSE
        BY <1>1, <1>5, <3>2, NotAimed
      <4>. QED BY <4>1, <4>2
    <3>. QED BY <3>1, <3>2
  <2>5. Due'
    BY <1>2, <1>5, <2>3, <2>4 DEF Due
  <2>6. Reckoning'
    BY <1>2, <1>3, <1>4, <1>5, <2>1, <2>3 DEF Reckoning
  <2>7. LeagueTimes' /\ respawnedAt' \in Int \cup {Never}
    BY <1>2, <1>5 DEF LeagueTimes, DeathTypes
  <2>. QED BY <1>1, <1>4, <1>5, <1>3, <2>1, <2>3, <2>4, <2>5, <2>6, <2>7
<1>6. CASE r.dead /\ local /\ ~News(r) /\ lastDeath' = r.of /\ ReAim(r.left)
           /\ UNCHANGED <<tracker, local, respawnedAt, told>>
  <2>1. /\ aimed' \in BOOLEAN /\ respawnDue' \in Int \cup {Never}
        /\ respawnDue' # Never =>
             /\ league.until <= respawnDue' /\ respawnDue' <= league.until + SlowLatency
             /\ now <= respawnDue'
        /\ aimed' => respawnDue' # Never
    <3>1. CASE r.left > 0
      BY <1>1, <1>6, <3>1, AimsAtTheEnd, Bounds DEF ReAim, ScheduleRespawn
    <3>2. CASE ~(r.left > 0)
      BY <1>1, <1>2, <1>6, <3>2 DEF ReAim, Due, DeathTypes
    <3>. QED BY <3>1, <3>2
  <2>2. Due'
    BY <1>2, <1>6, <2>1 DEF Due
  <2>3. Reckoning'
    BY <1>2, <1>3, <1>4, <1>6 DEF Reckoning
  <2>4. LeagueTimes' /\ respawnedAt' \in Int \cup {Never} /\ local' \in BOOLEAN
    BY <1>2, <1>6 DEF LeagueTimes, DeathTypes
  <2>. QED BY <1>1, <1>3, <1>4, <1>6, <2>1, <2>2, <2>3, <2>4
<1>7. CASE r # Unclear /\ ~r.dead /\ local /\ Respawn
  <2>1. r = Alive
    BY <1>1, <1>7, Readings
  <2>2. ~league.dead \/ told < deaths + moves
    BY <1>2, <2>1 DEF Reckoning
  <2>3. ~league.dead => now >= league.until
    BY <1>2 DEF LeagueTimes
  <2>4. /\ respawnDue' = Never /\ aimed' = FALSE /\ local' = FALSE /\ respawnedAt' = now
        /\ told' = told /\ lastDeath' = lastDeath
        /\ tracker' \in {"none", "alive"} /\ (tracker' = "none" <=> tracker = "none")
    BY <1>3, <1>7 DEF Respawn, OnRespawn
  <2>5. Due'
    BY <1>2, <2>4 DEF Due
  <2>6. Reckoning'
    BY <1>2, <1>3, <2>2, <2>3, <2>4, Bounds DEF Reckoning
  <2>7. LeagueTimes'
    BY <1>2, <1>3, <2>4 DEF LeagueTimes
  <2>8. local' \in BOOLEAN /\ aimed' \in BOOLEAN
    BY <2>4
  <2>9. respawnedAt' \in Int /\ respawnDue' \in {Never}
    BY <1>3, <2>4
  <2>. QED BY <1>2, <1>3, <2>4, <2>5, <2>6, <2>7, <2>8, <2>9
<1>8. CASE UNCHANGED stateVars
  <2>1. LeagueTimes' /\ Due' /\ Reckoning'
    BY <1>2, <1>8 DEF LeagueTimes, Due, Reckoning
  <2>. QED BY <1>2, <1>8, <2>1 DEF DeathTypes
<1>. QED BY <1>5, <1>6, <1>7, <1>8 DEF ApplyDeathState

-----------------------------------------------------------------------------
(* Steps.                                                                   *)

LEMMA DeathInitInv == DeathInit => DeathInv
<1>. SUFFICES ASSUME DeathInit PROVE DeathInv
  OBVIOUS
<1>1. DeathTypes
  <2>1. league \in [dead : BOOLEAN, until : Int] /\ league.dead = FALSE
    OBVIOUS
  <2>2. poll \in [Polls -> {Nothing} \cup Ask]
    OBVIOUS
  <2>3. local \in BOOLEAN /\ aimed \in BOOLEAN
    OBVIOUS
  <2>. QED BY <2>1, <2>2, <2>3 DEF DeathTypes
<1>2. LeagueTimes
  BY DEF LeagueTimes
<1>3. InOrder
  <2>1. \A p \in Polls : poll[p] = Nothing
    OBVIOUS
  <2>. QED BY <2>1 DEF InOrder, Polls
<1>. QED BY <1>1, <1>2, <1>3 DEF DeathInv, Due, Reckoning

\* An answer stays recent while League and the clock stand still.
LEMMA PollsStay ==
  ASSUME DeathInv, UNCHANGED <<now, leagueVars, poll, session>>,
         lastDeath' = lastDeath
  PROVE  InOrder'
BY DEF DeathInv, InOrder, Recent, Counts

\* A poll comes back: what is left in flight is as it was.
LEMMA ReadingIn ==
  ASSUME DeathInv, NEW p \in Polls, poll' = [poll EXCEPT ![p] = Nothing]
  PROVE  /\ poll' \in [Polls -> {Nothing} \cup Ask] /\ poll'[p] = Nothing
         /\ \A q \in Polls : poll'[q] # Nothing => q # p /\ poll'[q] = poll[q]
<1>1. poll \in [Polls -> {Nothing} \cup Ask]
  BY DEF DeathInv, DeathTypes
<1>. QED BY <1>1

LEMMA ReadingStep ==
  ASSUME DeathInv, NEW p \in Polls, Answered(p), session # "none", Counts(p),
         poll' = [poll EXCEPT ![p] = Nothing], ApplyDeathState(poll[p].reading),
         UNCHANGED <<now, leagueVars, session, pollDue, moves>>
  PROVE  DeathInv'
<1>1. DeathTypes /\ LeagueTimes /\ InOrder /\ Due /\ Reckoning
  BY DEF DeathInv
<1>2. PICK ask \in Ask : ask = poll[p]
  BY <1>1, Asked DEF Answered
<1>3. Recent(ask) /\ ask.reading # Unread /\ ApplyDeathState(ask.reading)
      /\ (ask.reading = Alive /\ league.dead => lastDeath < deaths)
  BY <1>1, <1>2 DEF Answered, InOrder
<1>4. /\ told' \in Nat /\ lastDeath' \in Nat /\ tracker' \in {"none", "dead", "alive"}
      /\ local' \in BOOLEAN /\ aimed' \in BOOLEAN
      /\ respawnDue' \in Int \cup {Never} /\ respawnedAt' \in Int \cup {Never}
      /\ LeagueTimes' /\ Due' /\ Reckoning'
      /\ lastDeath' <= deaths /\ (~ask.reading.dead => lastDeath' = lastDeath)
  BY <1>3, Applies
<1>5. /\ poll' \in [Polls -> {Nothing} \cup Ask] /\ poll'[p] = Nothing
      /\ \A q \in Polls : poll'[q] # Nothing => q # p /\ poll'[q] = poll[q]
  BY ReadingIn
<1>6. DeathTypes'
  BY <1>1, <1>4, <1>5 DEF DeathTypes
<1>7. ASSUME NEW q \in Polls, poll'[q] # Nothing
      PROVE  q = "slow" /\ session = "watched"
  BY <1>1, <1>5, <1>7 DEF InOrder, Counts, Polls, DeathTypes, Answered
<1>8. InOrder'
  <2>1. \A q \in Polls : poll'[q] # Nothing => Recent(poll[q])' /\ ~Counts(q)'
    BY <1>1, <1>5, <1>7 DEF InOrder, Recent, Counts
  <2>2. (session = "on" => poll["fast"] = Nothing)'
    BY <1>1, <1>7 DEF Polls
  <2>. QED BY <1>1, <1>4, <2>1, <2>2 DEF InOrder
<1>. QED BY <1>4, <1>6, <1>8 DEF DeathInv

\* A poll that comes back too late to count.
LEMMA DroppedStep ==
  ASSUME DeathInv, NEW p \in Polls,
         poll' = [poll EXCEPT ![p] = Nothing], UNCHANGED stateVars,
         UNCHANGED <<now, leagueVars, session, pollDue, moves>>
  PROVE  DeathInv'
<1>1. DeathTypes /\ LeagueTimes /\ InOrder /\ Due /\ Reckoning
  BY DEF DeathInv
<1>2. /\ poll' \in [Polls -> {Nothing} \cup Ask] /\ poll'[p] = Nothing
      /\ \A q \in Polls : poll'[q] # Nothing => q # p /\ poll'[q] = poll[q]
  BY ReadingIn
<1>3. DeathTypes'
  BY <1>1, <1>2 DEF DeathTypes
<1>4. InOrder'
  BY <1>1, <1>2 DEF InOrder, Recent, Counts, Polls
<1>. QED BY <1>1, <1>3, <1>4 DEF DeathInv, LeagueTimes, Due, Reckoning

LEMMA DiesStep == ASSUME DeathInv, Dies PROVE DeathInv'
<1>1. DeathTypes /\ LeagueTimes /\ InOrder /\ Due /\ Reckoning
  BY DEF DeathInv
<1>2. PICK t \in Timers : league' = [dead |-> TRUE, until |-> now + t]
  BY DEF Dies
<1>3. /\ t \in Nat /\ now \in Nat /\ deaths \in Nat /\ league.until \in Int /\ lastDeath \in Nat
      /\ told \in Nat /\ moves \in Nat /\ deaths' = deaths + 1 /\ now > league.until + Spared
      /\ league'.dead = TRUE /\ league'.until = now + t /\ league' \in [dead : BOOLEAN, until : Int]
      /\ UNCHANGED <<now, session, poll, pollDue, stateVars, moves>>
  BY <1>1, <1>2, Bounds DEF Dies, DeathTypes
<1>4. respawnDue = Never
  BY <1>1, <1>3, Bounds DEF Due, DeathTypes
<1>5. ASSUME NEW p \in Polls, poll[p] # Nothing
      PROVE  /\ ~poll[p].reading.dead /\ poll[p].at <= now /\ now <= poll[p].at + SlowLatency
  <2>1. poll[p].at \in Nat /\ Recent(poll[p])
    BY <1>1, <1>5, Asked DEF InOrder
  <2>. QED BY <1>3, <2>1, Bounds DEF Recent
<1>6. DeathTypes'
  BY <1>1, <1>3 DEF DeathTypes
<1>7. LeagueTimes'
  BY <1>1, <1>3, Bounds DEF LeagueTimes
<1>8. InOrder'
  <2>1. \A p \in Polls : poll'[p] # Nothing => Recent(poll[p])'
    BY <1>3, <1>5 DEF Recent
  <2>2. lastDeath' < deaths'
    BY <1>1, <1>3 DEF InOrder
  <2>. QED BY <1>1, <1>3, <2>1, <2>2 DEF InOrder
<1>9. Due'
  BY <1>1, <1>3, <1>4 DEF Due
<1>10. Reckoning'
  BY <1>1, <1>3 DEF Reckoning
<1>. QED BY <1>6, <1>7, <1>8, <1>9, <1>10 DEF DeathInv

LEMMA RevivesStep == ASSUME DeathInv, Revives PROVE DeathInv'
<1>1. DeathTypes /\ LeagueTimes /\ InOrder /\ Due /\ Reckoning
  BY DEF DeathInv
<1>2. /\ league' \in [dead : BOOLEAN, until : Int] /\ league'.dead = FALSE
      /\ league'.until = league.until /\ now >= league.until
      /\ UNCHANGED <<now, deaths, session, poll, pollDue, stateVars, moves>>
  BY <1>1 DEF Revives, DeathTypes
<1>3. DeathTypes' /\ LeagueTimes'
  BY <1>1, <1>2 DEF DeathTypes, LeagueTimes
<1>4. InOrder'
  BY <1>1, <1>2 DEF InOrder, Recent, Counts
<1>5. Due' /\ Reckoning'
  BY <1>1, <1>2 DEF Due, Reckoning
<1>. QED BY <1>3, <1>4, <1>5 DEF DeathInv

\* A call on its way, unanswered.
LEMMA Asking ==
  ASSUME DeathInv
  PROVE  LET ask == [at |-> now, reading |-> Unread] IN
         ask \in Ask /\ Recent(ask) /\ ask.reading # Alive
BY Bounds DEF DeathInv, DeathTypes, Ask, Recent, Reading, Unread, Alive

LEMMA AsksStep ==
  ASSUME DeathInv, NEW p \in Polls,
         poll' = [poll EXCEPT ![p] = [at |-> now, reading |-> Unread]],
         p = "fast" => session = "watched",
         p = "slow" => session # "none" \/ poll["fast"] = Nothing,
         UNCHANGED <<now, leagueVars, session, stateVars, moves>>
  PROVE  DeathInv'
<1>1. DeathTypes /\ LeagueTimes /\ InOrder /\ Due /\ Reckoning
  BY DEF DeathInv
<1> DEFINE ask == [at |-> now, reading |-> Unread]
<1>2. ask \in Ask /\ Recent(ask) /\ ask.reading # Alive
  BY Asking
<1>. HIDE DEF ask
<1>3. /\ poll' \in [Polls -> {Nothing} \cup Ask] /\ poll'[p] = ask
      /\ \A q \in Polls : q # p => poll'[q] = poll[q]
  BY <1>1, <1>2 DEF DeathTypes, ask
<1>4. DeathTypes'
  BY <1>1, <1>3 DEF DeathTypes
<1>5. InOrder'
  <2>1. \A q \in Polls : poll'[q] # Nothing => Recent(poll[q])'
    BY <1>1, <1>2, <1>3 DEF InOrder, Recent
  <2>2. \A q \in Polls :
          poll'[q] # Nothing /\ poll'[q].reading = Alive /\ league.dead /\ Counts(q) => lastDeath < deaths
    BY <1>1, <1>2, <1>3 DEF InOrder
  <2>3. /\ session = "on" => poll'["fast"] = Nothing
        /\ session = "none" /\ poll'["slow"] # Nothing => poll'["fast"] = Nothing
    BY <1>1, <1>3 DEF InOrder, Polls
  <2>. QED BY <1>1, <2>1, <2>2, <2>3 DEF InOrder, Counts
<1>. QED BY <1>1, <1>4, <1>5 DEF DeathInv, LeagueTimes, Due, Reckoning

\* What League answers is recent.
LEMMA Answering ==
  ASSUME DeathInv, NEW ask \in Ask, Recent(ask), ask.reading = Unread, NEW r \in {Roster, Unclear}
  PROVE  LET told2 == [ask EXCEPT !.reading = r] IN
         /\ told2 \in Ask /\ Recent(told2) /\ told2.reading = r
         /\ r \in Reading /\ (r = Alive => ~league.dead)
<1>1. DeathTypes /\ LeagueTimes
  BY DEF DeathInv
<1>2. now \in Nat /\ deaths \in Nat /\ league.until \in Int /\ ask.at \in Nat /\ ask.at <= now
  BY <1>1 DEF DeathTypes, Ask, Recent
<1>3. Left(league.until) \in Int /\ Left(league.until) >= 0
        /\ Left(league.until) >= league.until - now
      /\ (Left(league.until) = 0 \/ Left(league.until) <= league.until - ask.at)
  BY <1>2 DEF Left
<1>4. r \in Reading /\ (r = Alive => ~league.dead)
  <2>1. CASE league.dead /\ r = Roster
    <3>1. r = [dead |-> TRUE, left |-> Left(league.until), of |-> deaths]
      BY <2>1 DEF Roster
    <3>2. r \in Told /\ r.dead = TRUE
      BY <1>2, <1>3, <3>1 DEF Told
    <3>. QED BY <3>2 DEF Reading, Alive
  <2>2. CASE ~league.dead \/ r = Unclear
    BY <2>2 DEF Roster, Reading, Unclear, Alive
  <2>. QED BY <2>1, <2>2
<1>5. r.dead => /\ r.of = deaths /\ deaths > 0 /\ ask.at <= league.until + LeagueLag
                /\ r.left >= 0 /\ r.left >= league.until - now
                /\ r.left = 0 \/ r.left <= league.until - ask.at
  <2>1. CASE league.dead /\ r = Roster
    <3>1. r = [dead |-> TRUE, left |-> Left(league.until), of |-> deaths]
      BY <2>1 DEF Roster
    <3>2. ask.at <= league.until + LeagueLag /\ deaths > 0
      BY <1>1, <1>2, <2>1, Bounds DEF LeagueTimes
    <3>. QED BY <1>3, <3>1, <3>2
  <2>2. CASE ~league.dead \/ r = Unclear
    BY <2>2 DEF Roster, Unclear, Alive
  <2>. QED BY <2>1, <2>2
<1> DEFINE answered == [ask EXCEPT !.reading = r]
<1>6. answered \in Ask /\ answered.reading = r /\ answered.at = ask.at
  BY <1>4 DEF Ask
<1>. HIDE DEF answered
<1>7. Recent(answered)
  BY <1>5, <1>6 DEF Recent
<1>. QED BY <1>4, <1>6, <1>7 DEF answered

LEMMA AnswersStep == ASSUME DeathInv, NEW p \in Polls, LeagueAnswers(p) PROVE DeathInv'
<1>1. DeathTypes /\ LeagueTimes /\ InOrder /\ Due /\ Reckoning
  BY DEF DeathInv
<1>2. PICK r \in {Roster, Unclear} : poll' = [poll EXCEPT ![p].reading = r]
  BY DEF LeagueAnswers
<1>3. PICK ask \in Ask : ask = poll[p]
  BY <1>1, Asked DEF LeagueAnswers
<1> DEFINE answered == [ask EXCEPT !.reading = r]
<1>4. Recent(ask) /\ ask.reading = Unread
  BY <1>1, <1>3 DEF LeagueAnswers, InOrder
<1>5. /\ answered \in Ask /\ Recent(answered) /\ answered.reading = r
      /\ r \in Reading /\ (r = Alive => ~league.dead)
  BY <1>4, Answering
<1>6. poll' = [poll EXCEPT ![p] = answered]
  BY <1>1, <1>2, <1>3 DEF DeathTypes
<1>. HIDE DEF answered
<1>7. /\ poll' \in [Polls -> {Nothing} \cup Ask] /\ poll'[p] = answered
      /\ \A q \in Polls : q # p => poll'[q] = poll[q]
      /\ UNCHANGED <<now, leagueVars, session, stateVars, pollDue, moves>>
      /\ poll[p] # Nothing
  BY <1>1, <1>5, <1>6 DEF DeathTypes, LeagueAnswers
<1>8. DeathTypes'
  BY <1>1, <1>7 DEF DeathTypes
<1>9. InOrder'
  <2>1. \A q \in Polls : poll'[q] # Nothing => Recent(poll[q])'
    BY <1>1, <1>5, <1>7 DEF InOrder, Recent
  <2>2. \A q \in Polls :
          poll'[q] # Nothing /\ poll'[q].reading = Alive /\ league.dead /\ Counts(q) => lastDeath < deaths
    BY <1>1, <1>5, <1>7 DEF InOrder
  <2>3. \A q \in Polls : poll[q] = Nothing => poll'[q] = Nothing
    BY <1>7
  <2>4. /\ session = "on" => poll'["fast"] = Nothing
        /\ session = "none" /\ poll'["slow"] # Nothing => poll'["fast"] = Nothing
    BY <1>1, <2>3 DEF InOrder, Polls
  <2>. QED BY <1>1, <1>7, <2>1, <2>2, <2>4 DEF InOrder, Counts
<1>. QED BY <1>1, <1>7, <1>8, <1>9 DEF DeathInv, LeagueTimes, Due, Reckoning

LEMMA TimerStep == ASSUME DeathInv, RespawnTimer PROVE DeathInv'
<1>1. DeathTypes /\ LeagueTimes /\ InOrder /\ Due /\ Reckoning
  BY DEF DeathInv
<1>2. now \in Nat /\ respawnDue = now /\ league.until \in Int /\ respawnDue # Never
  BY <1>1, Bounds DEF RespawnTimer, DeathTypes
<1>3. local /\ now >= league.until
  BY <1>1, <1>2 DEF Due
<1>4. /\ respawnDue' = Never /\ aimed' = FALSE /\ local' = FALSE /\ respawnedAt' = now
      /\ told' = told /\ lastDeath' = lastDeath
      /\ tracker' \in {"none", "dead", "alive"} /\ (tracker' = "none" <=> tracker = "none")
      /\ UNCHANGED <<now, leagueVars, session, poll, pollDue, moves>>
  BY <1>1, <1>3 DEF RespawnTimer, Respawn, OnRespawn, DeathTypes
<1>5. DeathTypes'
  <2>1. local' \in BOOLEAN /\ aimed' \in BOOLEAN
    BY <1>4
  <2>2. respawnDue' \in Int \cup {Never} /\ respawnedAt' \in Int \cup {Never}
    BY <1>2, <1>4
  <2>. QED BY <1>1, <1>4, <2>1, <2>2 DEF DeathTypes
<1>6. InOrder'
  BY <1>4, PollsStay
<1>7. LeagueTimes' /\ Reckoning'
  BY <1>1, <1>2, <1>3, <1>4, Bounds DEF LeagueTimes, Reckoning
<1>8. Due'
  BY <1>1, <1>4 DEF Due
<1>. QED BY <1>5, <1>6, <1>7, <1>8 DEF DeathInv

LEMMA TickStep == ASSUME DeathInv, Tick PROVE DeathInv'
<1>1. DeathTypes /\ LeagueTimes /\ InOrder /\ Due /\ Reckoning
  BY DEF DeathInv
<1>2. /\ now \in Nat /\ league.until \in Int /\ now' = now + 1
      /\ UNCHANGED <<leagueVars, session, poll, pollDue, stateVars, moves>>
      /\ respawnDue # now /\ (league.dead => now < league.until + LeagueLag)
  BY <1>1 DEF Tick, DeathTypes
<1>3. DeathTypes'
  BY <1>1, <1>2 DEF DeathTypes
<1>4. LeagueTimes' /\ Due' /\ Reckoning'
  BY <1>1, <1>2, Bounds DEF LeagueTimes, Due, Reckoning, DeathTypes
<1>5. InOrder'
  <2>1. ASSUME NEW p \in Polls, poll[p] # Nothing
        PROVE  Recent(poll[p])'
    <3>1. poll[p].at \in Nat /\ Recent(poll[p]) /\ poll[p].reading \in Reading
      BY <1>1, <2>1, Asked DEF InOrder
    <3>2. now < poll[p].at + SlowLatency
      BY <1>2, <2>1, <3>1, Bounds DEF Tick, Polls
    <3>3. now <= poll[p].at + SlowLatency - 1 /\ poll[p].reading.left \in Int
      BY <1>2, <3>1, <3>2, Readings, Bounds
    <3>. QED BY <1>2, <3>1, <3>3, Bounds DEF Recent
  <2>. QED BY <1>1, <1>2, <2>1 DEF InOrder, Counts
<1>. QED BY <1>3, <1>4, <1>5 DEF DeathInv

LEMMA SessionStep ==
  ASSUME DeathInv, SessionStarts \/ TrackerMade \/ WatchStarts \/ RegionMoves \/ SessionEnds
  PROVE  DeathInv'
<1>1. DeathTypes /\ LeagueTimes /\ InOrder /\ Due /\ Reckoning
  BY DEF DeathInv
<1>2. CASE SessionStarts
  <2>1. DeathTypes' /\ LeagueTimes' /\ Reckoning'
    BY <1>1, <1>2 DEF SessionStarts, DeathTypes, LeagueTimes, Reckoning
  <2>2. InOrder'
    BY <1>1, <1>2 DEF SessionStarts, Answered, InOrder, Recent, Counts
  <2>3. Due'
    BY <1>1, <1>2 DEF SessionStarts, Due
  <2>. QED BY <2>1, <2>2, <2>3 DEF DeathInv
<1>3. CASE TrackerMade
  <2>1. InOrder'
    BY <1>3, PollsStay DEF TrackerMade
  <2>. QED BY <1>1, <1>3, <2>1 DEF TrackerMade, DeathInv, DeathTypes, LeagueTimes, Due, Reckoning
<1>4. CASE WatchStarts
  <2>1. DeathTypes' /\ LeagueTimes' /\ Reckoning' /\ Due'
    BY <1>1, <1>4 DEF WatchStarts, DeathTypes, LeagueTimes, Reckoning, Due
  <2>2. InOrder'
    BY <1>1, <1>4 DEF WatchStarts, InOrder, Recent, Counts
  <2>. QED BY <2>1, <2>2 DEF DeathInv
<1>5. CASE RegionMoves
  <2>1. InOrder'
    BY <1>5, PollsStay DEF RegionMoves
  <2>2. told < deaths + moves'
    BY <1>1, <1>5 DEF RegionMoves, Reckoning, DeathTypes
  <2>. QED BY <1>1, <1>5, <2>1, <2>2 DEF RegionMoves, DeathInv, DeathTypes, LeagueTimes, Due,
                   Reckoning
<1>6. CASE SessionEnds
  <2>1. poll' = [poll EXCEPT !["slow"] = Nothing] /\ "slow" \in Polls
    BY <1>6 DEF SessionEnds, Polls
  <2>2. /\ poll' \in [Polls -> {Nothing} \cup Ask] /\ poll'["slow"] = Nothing
        /\ \A q \in Polls : poll'[q] # Nothing => q # "slow" /\ poll'[q] = poll[q]
    BY <2>1, ReadingIn
  <2>3. told < deaths + moves'
    BY <1>1, <1>6 DEF SessionEnds, Reckoning, DeathTypes
  <2>4. DeathTypes'
    <3>1. local' = FALSE /\ aimed' = FALSE
      BY <1>6 DEF SessionEnds
    <3>2. local' \in BOOLEAN /\ aimed' \in BOOLEAN
      BY <3>1
    <3>3. moves' \in Nat
      BY <1>1, <1>6 DEF SessionEnds, DeathTypes
    <3>. QED BY <1>1, <1>6, <2>2, <3>2, <3>3 DEF SessionEnds, DeathTypes
  <2>5. InOrder'
    BY <1>1, <1>6, <2>2 DEF SessionEnds, InOrder, Recent, Counts
  <2>6. LeagueTimes' /\ Due'
    BY <1>1, <1>6 DEF SessionEnds, LeagueTimes, Due
  <2>7. Reckoning'
    <3>1. moves \in Nat /\ deaths \in Nat /\ told \in Nat /\ told <= deaths + moves
      BY <1>1 DEF DeathTypes, Reckoning
    <3>2. moves' = moves + 1 /\ UNCHANGED <<deaths, told>>
      BY <1>6 DEF SessionEnds
    <3>3. told' < deaths' + moves' /\ told' <= deaths' + moves' /\ told' # deaths' + moves'
      BY <3>1, <3>2
    <3>. QED BY <3>3 DEF Reckoning
  <2>. QED BY <2>4, <2>5, <2>6, <2>7 DEF DeathInv
<1>. QED BY <1>2, <1>3, <1>4, <1>5, <1>6

LEMMA DeathStep == ASSUME DeathInv, [DeathNext]_deathVars PROVE DeathInv'
<1>1. CASE Dies
  BY <1>1, DiesStep
<1>2. CASE Revives
  BY <1>2, RevivesStep
<1>3. CASE SlowAsks
  BY <1>3, AsksStep DEF SlowAsks, Polls
<1>4. CASE FastAsks
  <2>1. CASE poll["fast"] # Nothing
    <3>1. UNCHANGED <<now, leagueVars, poll, session, stateVars, moves>>
      BY <1>4, <2>1 DEF FastAsks
    <3>2. InOrder'
      BY <3>1, PollsStay
    <3>. QED BY <3>1, <3>2 DEF DeathInv, DeathTypes, LeagueTimes, Due, Reckoning
  <2>2. CASE poll["fast"] = Nothing
    BY <1>4, <2>2, AsksStep DEF FastAsks, Polls
  <2>. QED BY <2>1, <2>2
<1>5. CASE SlowLands
  <2>1. CASE SlowCounts
    BY <1>5, <2>1, ReadingStep DEF SlowLands, SlowCounts, Polls, Counts
  <2>2. CASE ~SlowCounts
    BY <1>5, <2>2, DroppedStep DEF SlowLands, Polls
  <2>. QED BY <2>1, <2>2
<1>6. CASE FastLands
  <2>1. CASE session # "none"
    BY <1>6, <2>1, ReadingStep DEF FastLands, Polls, Counts
  <2>2. CASE session = "none"
    BY <1>6, <2>2, DroppedStep DEF FastLands, Polls
  <2>. QED BY <2>1, <2>2
<1>7. CASE RespawnTimer
  BY <1>7, TimerStep
<1>8. ASSUME NEW p \in Polls, LeagueAnswers(p)
      PROVE  DeathInv'
  BY <1>8, AnswersStep
<1>9. CASE SessionStarts \/ TrackerMade \/ WatchStarts \/ RegionMoves \/ SessionEnds
  BY <1>9, SessionStep
<1>10. CASE Tick
  BY <1>10, TickStep
<1>11. CASE UNCHANGED deathVars
  <2>1. UNCHANGED <<now, leagueVars, poll, session, stateVars, moves>>
    BY <1>11 DEF deathVars
  <2>2. InOrder'
    BY <2>1, PollsStay
  <2>. QED BY <2>1, <2>2 DEF DeathInv, DeathTypes, LeagueTimes, Due, Reckoning
<1>. QED BY <1>1, <1>2, <1>3, <1>4, <1>5, <1>6, <1>7, <1>8, <1>9, <1>10, <1>11 DEF DeathNext

LEMMA DeathStays == DeathSpec => []DeathInv
BY DeathInitInv, DeathStep, PTL DEF DeathSpec

-----------------------------------------------------------------------------
(* Promises.                                                                *)

\* The tracker is told of a death once, and the respawn timer of one told or re-aimed
\* never outlasts it: applyDeathState, whatever the order in which two polls'
\* readings land, however often one fails.
THEOREM DeathsAreToldOnce == DeathSpec => []OneDeathEach
<1>1. DeathInv => NoDeathTwice
  BY DEF DeathInv, Reckoning, NoDeathTwice
<1>2. DeathInv => BodyLetGo
  <2>. SUFFICES ASSUME DeathInv, aimed
       PROVE  now <= league.until + SlowLatency
    BY DEF BodyLetGo
  <2>1. /\ now \in Nat /\ respawnDue \in Int /\ league.until \in Int
        /\ respawnDue <= league.until + SlowLatency /\ now <= respawnDue
    BY DEF DeathInv, DeathTypes, Due
  <2>. QED BY <2>1, Bounds
<1>. QED BY <1>1, <1>2, DeathStays, PTL DEF OneDeathEach

\* Neither an older poll's "alive" nor the timer of a death before lets go of a body
\* whose death a reading has told of: applyDeathState, scheduleRespawnTimer.
THEOREM NobodyRisesEarly == DeathSpec => NoRespawnWhileDead
<1> DEFINE Rises == tracker = "dead" /\ tracker' = "alive" /\ moves' = moves /\ league.dead
                   /\ lastDeath = deaths => now >= league.until
<1>1. ASSUME DeathInv, DeathNext
      PROVE  Rises
  <2>. SUFFICES ASSUME tracker = "dead", tracker' = "alive", moves' = moves, league.dead,
                       lastDeath = deaths
       PROVE  now >= league.until
    OBVIOUS
  <2>1. DeathTypes /\ InOrder /\ Due /\ deaths \in Nat /\ moves \in Nat
    BY <1>1 DEF DeathInv, DeathTypes
  <2>2. ASSUME NEW p \in Polls, Answered(p), Counts(p), ApplyDeathState(poll[p].reading)
        PROVE  FALSE
    <3>1. poll[p].reading \in Reading /\ poll[p].reading # Unread /\ poll[p].reading # Alive
      BY <2>1, <2>2, Asked DEF InOrder, Answered
    <3>. QED BY <2>2, <3>1, Readings DEF ApplyDeathState, OnDeath
  <2>3. CASE RespawnTimer
    BY <2>1, <2>3, Bounds DEF RespawnTimer, Due, DeathTypes
  <2>4. CASE SlowLands
    BY <2>2, <2>4 DEF SlowLands, SlowCounts, Counts, Polls
  <2>5. CASE FastLands
    BY <2>2, <2>5 DEF FastLands, Counts, Polls
  <2>6. CASE TrackerMade \/ RegionMoves \/ SessionEnds
    BY <2>1, <2>6 DEF TrackerMade, RegionMoves, SessionEnds
  <2>7. CASE tracker' = tracker
    BY <2>7
  <2>. QED BY <1>1, <2>3, <2>4, <2>5, <2>6, <2>7
         DEF DeathNext, Dies, Revives, SlowAsks, FastAsks, LeagueAnswers, SessionStarts, WatchStarts, Tick
<1>2. DeathInv /\ [DeathNext]_deathVars => [Rises]_deathVars
  BY <1>1
<1>. HIDE DEF Rises
<1>3. DeathSpec => [][Rises]_deathVars
  BY <1>2, DeathStays, PTL DEF DeathSpec
<1>. QED BY <1>3 DEF NoRespawnWhileDead, Rises

=============================================================================
