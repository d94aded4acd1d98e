------------------------------ MODULE AppAudio ------------------------------
(***************************************************************************)
(* App audio: the voices played by the app's own process.  The page mixes  *)
(* them in a silent graph (services/app-audio-output.ts) and routes each   *)
(* peer into it (audio.ts setAppAudio, peer-connection.ts setAppOutput);   *)
(* the native side plays the mix on a device (src-tauri/audio_out.rs: the   *)
(* commands in the order they were sent, a thread of its own behind them).  *)
(*                                                                         *)
(* Outputs (AppAudioOutput objects) and mixes (AudioContexts) are numbered *)
(* as they are made; all peers are routed alike and stand for one voice.    *)
(***************************************************************************)
EXTENDS Integers, Sequences, SequencesExt

CONSTANTS
  DeviceRates,   \* the sample rates output devices run at
  MaxToggles,    \* bound: switchings of app audio, 1 for a session that starts with it
  MaxSwitches,   \* bound: other devices chosen
  MaxLosses,     \* bound: devices lost
  MaxTries       \* bound: all of these together

ASSUME AppAudioAssumption ==
  /\ DeviceRates \subseteq Nat \ {0} /\ DeviceRates # {}
  /\ {MaxToggles, MaxSwitches, MaxLosses, MaxTries} \subseteq Nat

VARIABLES
  app,      \* [out, starting, made, disposed]: the AudioService's part, `starting`
            \* the output whose start is appOutStarting, or 0
  waiting,  \* setAppAudio calls that await a start: [on, behind], behind the output
            \* that starts, or 0 once it has come back
  stopped,  \* outputs that were stopped
  checking, \* outputs whose status timer runs
  mixOf,    \* output -> this.ctx, or 0
  rates,    \* the mixes built: each one's sample rate
  open,     \* mixes not closed
  tasks,    \* page calls at an await: [out, op, at, rate]
  sent,     \* commands on their way to the native side, as tasks
  native,   \* [stream, rate, running, error, stops]
  voice,    \* what plays the peers: 0 for the browser, or an output
  tap,      \* the mix the peers are connected to, or 0
  tries     \* [toggles, asked, switches, losses] so far, asked the last toggle's wish
pageVars == <<app, waiting, stopped, checking, mixOf, rates, open, voice, tap>>
appAudioVars == <<app, waiting, stopped, checking, mixOf, rates, open, tasks, sent, native,
                  voice, tap, tries>>

Outs   == 1..MaxToggles
Silent == [stream |-> FALSE, rate |-> 0, running |-> FALSE, error |-> FALSE, stops |-> 0]
Call(o, op) == [out |-> o, op |-> op, at |-> "sent", rate |-> 0]

AppAudioInit ==
  /\ app = [out |-> 0, starting |-> 0, made |-> 0, disposed |-> FALSE]
  /\ waiting = <<>>
  /\ stopped = {} /\ checking = {}
  /\ mixOf = [o \in Outs |-> 0]
  /\ rates = <<>> /\ open = {}
  /\ tasks = {} /\ sent = <<>>
  /\ native = Silent
  /\ voice = 0 /\ tap = 0
  /\ tries = [toggles |-> 0, asked |-> FALSE, switches |-> 0, losses |-> 0]

MayTry == tries.toggles + tries.switches + tries.losses < MaxTries

-----------------------------------------------------------------------------
(* An output on the page.                                                  *)

\* stop() up to its first await: nothing of the output is heard any more; the
\* native side is told once the context has closed.
StopOut(o, others) ==
  /\ stopped' = stopped \cup {o}
  /\ checking' = checking \ {o}
  /\ open' = open \ {mixOf[o]}
  /\ mixOf' = [mixOf EXCEPT ![o] = 0]
  /\ tasks' = others \cup {[Call(o, "stop") EXCEPT !.at = "closing"]}

\* Every peer back to the browser.
BackToBrowser == voice' = 0 /\ tap' = 0

\* Wrong variant of Fails: the service is not told.
FailsQuietly(o, others) ==
  /\ IF o \in stopped THEN UNCHANGED <<stopped, checking, open, mixOf>> /\ tasks' = others
     ELSE StopOut(o, others)
  /\ UNCHANGED <<app, voice, tap>>
\* fail(): stopped, and the service, if it is still its output, lets go of it.
Fails(o, others) ==
  IF o \in stopped THEN UNCHANGED <<app, stopped, checking, open, mixOf, voice, tap>> /\ tasks' = others
  ELSE /\ StopOut(o, others)
       /\ IF app.out = o THEN app' = [app EXCEPT !.out = 0] /\ BackToBrowser
          ELSE UNCHANGED <<app, voice, tap>>

\* buildGraph up to its awaits: peers disconnected, the old context closed, but
\* still this.ctx until the new one is ready.
BeginBuild(t, rate) ==
  /\ open' = open \ {mixOf[t.out]}
  /\ tap' = IF voice = t.out THEN 0 ELSE tap
  /\ tasks' = (tasks \ {t}) \cup {[t EXCEPT !.at = "building", !.rate = rate]}

-----------------------------------------------------------------------------
(* setAppAudio.  One call may start an output while another's is starting:    *)
(* appOutStarting is the last begun, and null as soon as any has come back.   *)

\* The calls a start lets go on run before the page does anything else.
Settled == \A i \in DOMAIN waiting : waiting[i].behind # 0

\* A start has come back: appOutStarting = null, and who awaited it may go on.
StartReturns(o) ==
  waiting' = [i \in DOMAIN waiting |->
    IF waiting[i].behind = o THEN [waiting[i] EXCEPT !.behind = 0] ELSE waiting[i]]

TurnOn ==
  /\ app' = [app EXCEPT !.starting = app.made + 1, !.made = app.made + 1]
  /\ tasks' = tasks \cup {Call(app.made + 1, "start")}
  /\ sent' = Append(sent, Call(app.made + 1, "start"))
  /\ UNCHANGED <<stopped, checking, mixOf, open, voice, tap>>

TurnOff ==
  /\ StopOut(app.out, tasks)
  /\ app' = [app EXCEPT !.out = 0]
  /\ BackToBrowser
  /\ UNCHANGED sent

Set(on) ==
  IF on /\ app.out = 0 /\ ~app.disposed THEN TurnOn
  ELSE IF ~on /\ app.out # 0 THEN TurnOff
  ELSE UNCHANGED <<app, stopped, checking, mixOf, open, tasks, sent, voice, tap>>

\* The panel's switch alternates; a session that begins as it is turned on may ask
\* for the same once more.
Asks(on) == on # tries.asked \/ (on /\ tries.toggles = 1)

Toggle(on) ==
  /\ Settled /\ Asks(on)
  /\ ~app.disposed /\ tries.toggles < MaxToggles /\ MayTry
  /\ tries' = [tries EXCEPT !.toggles = @ + 1, !.asked = on]
  /\ IF app.starting # 0
     THEN waiting' = Append(waiting, [on |-> on, behind |-> app.starting])
          /\ UNCHANGED <<app, stopped, checking, mixOf, open, tasks, sent, voice, tap>>
     ELSE Set(on) /\ UNCHANGED waiting
  /\ UNCHANGED <<rates, native>>

\* A call whose start has come back goes on, in its turn, and does not ask whether
\* another call has begun a start meanwhile.
Resumes(i) ==
  /\ waiting[i].behind = 0 /\ \A j \in 1..(i - 1) : waiting[j].behind # 0
  /\ waiting' = RemoveAt(waiting, i)
  /\ Set(waiting[i].on)
  /\ UNCHANGED <<rates, native, tries>>

Resumed == \E i \in DOMAIN waiting : Resumes(i)

SwitchDevice ==
  /\ Settled /\ app.out # 0 /\ tries.switches < MaxSwitches /\ MayTry
  /\ ~\E t \in tasks : t.op = "switch" /\ t.at = "sent"
  /\ tries' = [tries EXCEPT !.switches = @ + 1]
  /\ tasks' = tasks \cup {Call(app.out, "switch")}
  /\ sent' = Append(sent, Call(app.out, "switch"))
  /\ UNCHANGED <<pageVars, native>>

\* cleanup(): the peers are closed.
Cleanup ==
  /\ Settled /\ ~app.disposed
  /\ app' = [app EXCEPT !.disposed = TRUE, !.out = 0]
  /\ IF app.out # 0 THEN StopOut(app.out, tasks)
     ELSE UNCHANGED <<stopped, checking, open, mixOf, tasks>>
  /\ BackToBrowser
  /\ UNCHANGED <<waiting, rates, sent, native, tries>>

-----------------------------------------------------------------------------
(* The native side.                                                        *)

Answer(t, rate) == tasks' = (tasks \ {t}) \cup {[t EXCEPT !.at = "answered", !.rate = rate]}
NextIs(t)       == sent # <<>> /\ Head(sent) = t

\* audio_out_start, which the thread comes to after any stop before it: the device
\* opened, or there was none.
Started(t) ==
  /\ NextIs(t) /\ t.op \in {"start", "switch"} /\ native.stops = 0
  /\ sent' = Tail(sent)
  /\ \/ \E r \in DeviceRates :
          /\ native' = [stream |-> TRUE, rate |-> r, running |-> TRUE, error |-> FALSE, stops |-> 0]
          /\ Answer(t, r)
     \/ native' = [native EXCEPT !.stream = FALSE] /\ Answer(t, 0)
  /\ UNCHANGED <<pageVars, tries>>

StopArrives ==
  /\ sent # <<>> /\ Head(sent).op = "stop"
  /\ sent' = Tail(sent)
  /\ native' = [native EXCEPT !.stops = @ + 1]
  /\ UNCHANGED <<pageVars, tasks, tries>>

\* Cmd::Stop.
ThreadStops ==
  /\ native.stops > 0
  /\ native' = [Silent EXCEPT !.stops = native.stops - 1]
  /\ UNCHANGED <<pageVars, tasks, sent, tries>>

\* audio_out_status: rate 0 stands for not running.
Status(t) ==
  /\ NextIs(t) /\ t.op = "check"
  /\ sent' = Tail(sent)
  /\ Answer(t, IF native.running THEN native.rate ELSE 0)
  /\ UNCHANGED <<pageVars, native, tries>>

\* The stream's error callback.
DeviceLost ==
  /\ native.stream /\ ~native.error /\ tries.losses < MaxLosses /\ MayTry
  /\ native' = [native EXCEPT !.error = TRUE]
  /\ tries' = [tries EXCEPT !.losses = @ + 1]
  /\ UNCHANGED <<pageVars, tasks, sent>>

\* Wrong variant of Reopens: a stream that cannot be reopened still counts as running.
ReopensAtMost ==
  /\ native.stream /\ native.error /\ native.stops = 0
  /\ \/ \E r \in DeviceRates : native' = [native EXCEPT !.error = FALSE, !.rate = r]
     \/ native' = [native EXCEPT !.stream = FALSE]
  /\ UNCHANGED <<pageVars, tasks, sent, tries>>
\* The thread's half-second timeout: on the default device, or no longer running.
Reopens ==
  /\ native.stream /\ native.error /\ native.stops = 0
  /\ \/ \E r \in DeviceRates : native' = [native EXCEPT !.error = FALSE, !.rate = r]
     \/ native' = [native EXCEPT !.stream = FALSE, !.running = FALSE]
  /\ UNCHANGED <<pageVars, tasks, sent, tries>>

-----------------------------------------------------------------------------
(* The page again, as its calls come back.                                 *)

NeedsBuild(o, rate) == mixOf[o] # 0 /\ rates[mixOf[o]] # rate

StartAnswered(t) ==
  /\ t \in tasks /\ t.op = "start" /\ t.at = "answered"
  /\ IF t.rate = 0
     THEN /\ tasks' = tasks \ {t} /\ app' = [app EXCEPT !.starting = 0]
          /\ StartReturns(t.out) /\ UNCHANGED <<open, tap>>
     ELSE BeginBuild(t, t.rate) /\ UNCHANGED <<app, waiting>>
  /\ UNCHANGED <<stopped, checking, mixOf, rates, voice, sent, native, tries>>

\* setDevice and checkStatus: what they learnt, and whether the mix must be rebuilt.
Learnt(t) ==
  /\ t \in tasks /\ t.op \in {"switch", "check"} /\ t.at = "answered"
  /\ \/ /\ t.rate = 0
        /\ Fails(t.out, tasks \ {t})
     \/ /\ t.rate # 0 /\ NeedsBuild(t.out, t.rate)
        /\ BeginBuild(t, t.rate)
        /\ UNCHANGED <<app, stopped, checking, mixOf, voice>>
     \/ /\ t.rate # 0 /\ ~NeedsBuild(t.out, t.rate)
        /\ tasks' = tasks \ {t}
        /\ UNCHANGED <<app, stopped, checking, mixOf, open, voice, tap>>
  /\ UNCHANGED <<waiting, rates, sent, native, tries>>

\* buildGraph ends; a start that the session outlived routes the peers to it.
Built(t) ==
  LET mix == Len(rates) + 1 IN
  /\ t \in tasks /\ t.at = "building"
  /\ rates' = Append(rates, t.rate)
  /\ IF t.op = "start" THEN StartReturns(t.out) ELSE UNCHANGED waiting
  /\ IF t.op = "start" /\ app.disposed
     THEN /\ StopOut(t.out, tasks \ {t})
          /\ app' = [app EXCEPT !.starting = 0]
          /\ UNCHANGED <<voice, tap>>
     ELSE /\ open' = open \cup {mix}
          /\ mixOf' = [mixOf EXCEPT ![t.out] = mix]
          /\ tasks' = tasks \ {t}
          /\ IF t.op = "start"
             THEN /\ app' = [app EXCEPT !.starting = 0, !.out = t.out]
                  /\ checking' = checking \cup {t.out}
                  /\ voice' = t.out /\ tap' = mix
             ELSE /\ tap' = IF voice = t.out THEN mix ELSE tap
                  /\ UNCHANGED <<app, checking, voice>>
          /\ UNCHANGED stopped
  /\ UNCHANGED <<sent, native, tries>>

CheckStatus(o) ==
  /\ Settled
  /\ o \in checking /\ mixOf[o] # 0
  /\ ~\E t \in tasks : t.out = o /\ t.op = "check"
  /\ tasks' = tasks \cup {Call(o, "check")}
  /\ sent' = Append(sent, Call(o, "check"))
  /\ UNCHANGED <<pageVars, native, tries>>

SendStop(t) ==
  /\ t \in tasks /\ t.op = "stop"
  /\ tasks' = tasks \ {t}
  /\ sent' = Append(sent, t)
  /\ UNCHANGED <<pageVars, native, tries>>

Ops      == {"start", "switch", "check", "stop"}
Arrives  == StopArrives \/ \E t \in tasks : Started(t) \/ Status(t)
Goes(op) == Settled /\ \E t \in tasks : t.op = op /\ (StartAnswered(t) \/ Learnt(t) \/ Built(t) \/ SendStop(t))
Checks   == \E o \in Outs : CheckStatus(o)

AppAudioNext ==
  \/ \E on \in BOOLEAN : Toggle(on)
  \/ SwitchDevice \/ Cleanup \/ DeviceLost
  \/ Resumed \/ Arrives \/ ThreadStops \/ Reopens \/ Checks
  \/ \E op \in Ops : Goes(op)

AppAudioSpec == AppAudioInit /\ [][AppAudioNext]_appAudioVars

\* Awaits return, the native side works through what it is sent, and timers fire.
AppAudioFairness ==
  /\ WF_appAudioVars(Resumed) /\ WF_appAudioVars(Arrives) /\ WF_appAudioVars(ThreadStops)
  /\ WF_appAudioVars(Reopens) /\ WF_appAudioVars(Checks)
  /\ \A op \in Ops : WF_appAudioVars(Goes(op))

FairAppAudioSpec == AppAudioSpec /\ AppAudioFairness

-----------------------------------------------------------------------------
Heard ==
  \/ voice = 0
  \/ tap \in open /\ native.stream /\ ~native.error /\ native.rate = rates[tap]

\* "If app audio cannot start, or fails later, the voices stay in (or go back to) the
\* browser, so nobody is left hearing nothing" (audio.ts:840-842): however starts, stops,
\* lost devices and status checks cross, the voices are heard again - by the
\* browser, or by a device that runs at the rate of the mix they are connected to.  Two
\* starts at once can break it, see Resumed.
NobodyLeftSilent == []<>(Heard \/ app.disposed)

\* Two starts are under way at once.
Overlapping == \E t, u \in tasks : t # u /\ t.op = "start" /\ u.op = "start"

\* That much of it holds: as long as no call starts an output beside another's start,
\* however many wait for one, nobody is left hearing nothing.
SilencedOnlyByOverlap == [](~Overlapping) => NobodyLeftSilent

\* The peers are never routed to an output that has been stopped, nor to one that
\* setAppAudio no longer knows and so could not turn off.
RoutedToTheOutput == voice # 0 => voice = app.out /\ voice \notin stopped

=============================================================================
