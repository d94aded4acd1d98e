----------------------------- MODULE GameBundle -----------------------------
(***************************************************************************)
(* One zip per game.  The page buffers log lines and ships them in batches *)
(* (core/logging.ts), starts and finishes the game's bundle on a promise   *)
(* chain (services/orchestrator.ts ensureDebugBundle and endSession,       *)
(* services/debug-bundle.ts), and the native side copies what it is sent   *)
(* into the active game's directory and zips that (game_bundle.rs).  The   *)
(* app may die at any point; the next launch zips what it finds on a       *)
(* thread, beside whatever game is being played by then.                   *)
(*                                                                         *)
(* A game's bundle is named for its lobby and the minute it starts in.     *)
(***************************************************************************)
EXTENDS Integers, Sequences, FiniteSets

CONSTANTS
  Games,          \* bound: sessions, 1..Games
  MaxLines,       \* bound: lines logged
  MaxBuffered,    \* MAX_BUFFERED_LINES
  KeepZips,       \* KEEP_ZIPS
  MaxCrashes,     \* bound: deaths of the app
  MaxFaults,      \* bound: file operations that fail
  MaxToggles,     \* bound: switchings of Debug
  NoBundle

ASSUME BundleAssumption ==
  /\ {Games, MaxLines, MaxBuffered, KeepZips, MaxCrashes, MaxFaults, MaxToggles} \subseteq Nat
  /\ KeepZips > 0 /\ MaxBuffered > 0

VARIABLES
  page,     \* [up, debug, game, bundle, starting, failedFor]
  chain,    \* bundleChain: the jobs not done, the first one running
  buffer,   \* the log buffer: [lines, sent, scheduled]
  active,   \* ACTIVE: the bundle collecting, or NoBundle
  dirs,     \* the .inprogress- directories: bundle -> lines
  zips,     \* the zips, newest first, each the lines in it
  rescue,   \* the recovery thread: [found, holds]
  minute,
  said,     \* lines logged so far
  teed,     \* those that reached a bundle
  pruned,   \* those in zips removed for KeepZips newer ones
  bounded   \* [games, crashes, faults, toggles] so far
bundleVars == <<page, chain, buffer, active, dirs, zips, rescue, minute, said, teed, pruned, bounded>>

Nobody    == [up |-> TRUE, debug |-> FALSE, game |-> 0, bundle |-> NoBundle,
              starting |-> FALSE, failedFor |-> 0]
Unwritten == [lines |-> {}, sent |-> {}, scheduled |-> FALSE]
AtRest    == [found |-> {}, holds |-> NoBundle, read |-> {}]

BundleInit ==
  /\ page = Nobody
  /\ chain = <<>>
  /\ buffer = Unwritten
  /\ active = NoBundle
  /\ dirs = <<>> /\ zips = <<>>
  /\ rescue = AtRest
  /\ minute = 0
  /\ said = 0 /\ teed = {} /\ pruned = {}
  /\ bounded = [games |-> 0, crashes |-> 0, faults |-> 0, toggles |-> 0]

MayFail  == bounded.faults < MaxFaults
Fault    == bounded' = [bounded EXCEPT !.faults = @ + 1]
Contents(d) == IF d \in DOMAIN dirs THEN dirs[d] ELSE {}
Without(d)  == [e \in DOMAIN dirs \ {d} |-> dirs[e]]
Filled(d, lines) == [e \in DOMAIN dirs \cup {d} |-> Contents(e) \cup (IF e = d THEN lines ELSE {})]

-----------------------------------------------------------------------------
(* The log buffer: at most one batch is on its way, and one drain queued.   *)

\* What a caller of flushLogBuffer waits for, in batches still to land.
Outstanding(b) == (IF b.sent = {} THEN 0 ELSE 1) + (IF b.scheduled THEN 1 ELSE 0)

FlushLogBuffer(b) == [b EXCEPT !.scheduled = @ \/ b.lines # {}]

Say ==
  /\ page.up /\ page.debug /\ said < MaxLines
  /\ Cardinality(buffer.lines) < MaxBuffered     \* else the line is counted as dropped
  /\ said' = said + 1
  /\ buffer' = [buffer EXCEPT !.lines = @ \cup {said + 1}]
  /\ UNCHANGED <<page, chain, active, dirs, zips, rescue, minute, teed, pruned, bounded>>

\* The quarter-second timer, a burst or an error.
Flush ==
  /\ page.up /\ page.debug
  /\ ~buffer.scheduled /\ buffer.lines # {}
  /\ buffer' = FlushLogBuffer(buffer)
  /\ UNCHANGED <<page, chain, active, dirs, zips, rescue, minute, said, teed, pruned, bounded>>

Drain ==
  /\ page.up /\ buffer.scheduled /\ buffer.sent = {}
  /\ buffer' = [lines |-> {}, sent |-> buffer.lines, scheduled |-> FALSE]
  /\ UNCHANGED <<page, chain, active, dirs, zips, rescue, minute, said, teed, pruned, bounded>>

\* append_log_lines: tee writes to the active game's log, if there is one.  A
\* flush that is waited for is one batch nearer.
Nearer(jobs) ==
  [i \in DOMAIN jobs |->
    IF jobs[i].at = "flushing" THEN [jobs[i] EXCEPT !.wait = IF @ > 0 THEN @ - 1 ELSE 0] ELSE jobs[i]]

Tee ==
  /\ page.up /\ buffer.sent # {}
  /\ buffer' = [buffer EXCEPT !.sent = {}]
  /\ chain' = Nearer(chain)
  /\ IF active = NoBundle THEN UNCHANGED <<dirs, teed>>
     ELSE dirs' = Filled(active, buffer.sent) /\ teed' = teed \cup buffer.sent
  /\ UNCHANGED <<page, active, zips, rescue, minute, said, pruned, bounded>>

-----------------------------------------------------------------------------
(* The page: sessions, the Debug switch, and the chain.                    *)

Job(what, g) == [what |-> what, of |-> g, at |-> "queued", wait |-> 0, holds |-> NoBundle,
                 read |-> {}, owed |-> {}, name |-> NoBundle]

GameStarts ==
  /\ page.up /\ page.game = 0 /\ bounded.games < Games
  /\ bounded' = [bounded EXCEPT !.games = @ + 1]
  /\ page' = [page EXCEPT !.game = bounded.games + 1]
  /\ UNCHANGED <<chain, buffer, active, dirs, zips, rescue, minute, said, teed, pruned>>

Ensure ==
  /\ page.up /\ page.game # 0 /\ page.bundle = NoBundle /\ ~page.starting /\ page.debug
  /\ page.failedFor # page.game
  /\ page' = [page EXCEPT !.starting = TRUE]
  /\ chain' = Append(chain, Job("start", page.game))
  /\ UNCHANGED <<buffer, active, dirs, zips, rescue, minute, said, teed, pruned, bounded>>

\* owed: what was logged of a game whose bundle was collecting when it ended.
SessionStops ==
  /\ page.up /\ page.game # 0
  /\ page' = [page EXCEPT !.game = 0, !.bundle = NoBundle]
  /\ chain' = IF page.bundle # NoBundle \/ page.debug
              THEN Append(chain, [Job("finish", page.game) EXCEPT !.owed =
                     IF page.bundle # NoBundle THEN buffer.lines \cup buffer.sent ELSE {}])
              ELSE chain
  /\ UNCHANGED <<buffer, active, dirs, zips, rescue, minute, said, teed, pruned, bounded>>

\* setLoggingEnabled: turned off, the tail is flushed.
ToggleDebug ==
  /\ page.up /\ bounded.toggles < MaxToggles
  /\ bounded' = [bounded EXCEPT !.toggles = @ + 1]
  /\ page' = [page EXCEPT !.debug = ~@]
  /\ buffer' = IF page.debug THEN FlushLogBuffer(buffer) ELSE buffer
  /\ UNCHANGED <<chain, active, dirs, zips, rescue, minute, said, teed, pruned>>

Running      == chain[1]
HeadIs(what, stage) == page.up /\ chain # <<>> /\ Running.what = what /\ Running.at = stage
Step(job) == chain' = <<job>> \o Tail(chain)

\* Wrong variant of BeginFinish: the lines still buffered are not shipped first.
BeginFinishUnflushed ==
  /\ HeadIs("finish", "queued")
  /\ Step([Running EXCEPT !.at = "flushing"])
  /\ UNCHANGED <<page, buffer, active, dirs, zips, rescue, minute, said, teed, pruned, bounded>>
\* The finish job's first step: await flushLogBuffer().
BeginFinish ==
  /\ HeadIs("finish", "queued")
  /\ buffer' = FlushLogBuffer(buffer)
  /\ Step([Running EXCEPT !.at = "flushing", !.wait = Outstanding(FlushLogBuffer(buffer))])
  /\ UNCHANGED <<page, active, dirs, zips, rescue, minute, said, teed, pruned, bounded>>

\* DebugBundle.start names the bundle and calls bundle_start.
BeginStart ==
  /\ HeadIs("start", "queued")
  /\ Step([Running EXCEPT !.at = "asked", !.name = <<Running.of, minute>>])
  /\ UNCHANGED <<page, buffer, active, dirs, zips, rescue, minute, said, teed, pruned, bounded>>

\* bundle_start came back: the bundle is kept if the session is still the one it
\* was started for.
Landed ==
  /\ HeadIs("start", "landed")
  /\ page' = [page EXCEPT !.starting = FALSE,
                          !.bundle = IF page.game = Running.of THEN Running.name ELSE @,
                          !.failedFor = IF Running.name = NoBundle THEN Running.of ELSE @]
  /\ chain' = Tail(chain)
  /\ UNCHANGED <<buffer, active, dirs, zips, rescue, minute, said, teed, pruned, bounded>>

-----------------------------------------------------------------------------
(* bundle_start and bundle_finish: the active bundle is taken, zipped and,  *)
(* on a start, the next one opened.                                        *)

Newest(s) == SubSeq(s, 1, IF Len(s) > KeepZips THEN KeepZips ELSE Len(s))
Oldest(s) == UNION {s[i] : i \in (KeepZips + 1)..Len(s)}
Prune(s)  == zips' = Newest(s) /\ pruned' = pruned \cup Oldest(s)

Calls == HeadIs("start", "asked") \/ (HeadIs("finish", "flushing") /\ Running.wait = 0)
AfterZip == IF Running.what = "start" THEN "opening" ELSE "done"

\* ACTIVE.lock().take(), and zip_dir reads the directory.
TakeActive ==
  /\ Calls
  /\ Step([Running EXCEPT !.at = IF active = NoBundle THEN AfterZip ELSE "zipping", !.holds = active,
                       !.read = Contents(active)])
  /\ active' = NoBundle
  /\ UNCHANGED <<page, buffer, dirs, zips, rescue, minute, said, teed, pruned, bounded>>

\* zip_dir removes the directory; prune.
Zipped ==
  /\ \/ HeadIs("start", "zipping") \/ HeadIs("finish", "zipping")
  /\ Step([Running EXCEPT !.at = AfterZip, !.holds = NoBundle, !.read = {}])
  /\ dirs' = Without(Running.holds)
  /\ Prune(<<Running.read>> \o zips)
  /\ UNCHANGED <<page, buffer, active, rescue, minute, said, teed, bounded>>

\* "Leaves the folder in place if zipping fails."
ZipFails ==
  /\ MayFail /\ Fault
  /\ \/ HeadIs("start", "zipping") \/ HeadIs("finish", "zipping")
  /\ Step([Running EXCEPT !.at = AfterZip, !.holds = NoBundle, !.read = {}])
  /\ UNCHANGED <<page, buffer, active, dirs, zips, rescue, minute, said, teed, pruned>>

Opens ==
  /\ HeadIs("start", "opening")
  /\ dirs' = Filled(Running.name, {})
  /\ active' = Running.name
  /\ Step([Running EXCEPT !.at = "landed"])
  /\ UNCHANGED <<page, buffer, zips, rescue, minute, said, teed, pruned, bounded>>

OpenFails ==
  /\ MayFail /\ Fault /\ HeadIs("start", "opening")
  /\ Step([Running EXCEPT !.at = "landed", !.name = NoBundle])
  /\ UNCHANGED <<page, buffer, active, dirs, zips, rescue, minute, said, teed, pruned>>

Finished ==
  /\ HeadIs("finish", "done")
  /\ chain' = Tail(chain)
  /\ UNCHANGED <<page, buffer, active, dirs, zips, rescue, minute, said, teed, pruned, bounded>>

-----------------------------------------------------------------------------
(* The app dies and is launched again.                                     *)

\* Whatever was in memory is gone; a zip half written stays beside its directory.
Crash ==
  /\ page.up /\ bounded.crashes < MaxCrashes
  /\ bounded' = [bounded EXCEPT !.crashes = @ + 1]
  /\ page' = [Nobody EXCEPT !.up = FALSE]
  /\ chain' = <<>> /\ buffer' = Unwritten /\ active' = NoBundle /\ rescue' = AtRest
  /\ LET halves == [i \in 1..(IF chain # <<>> /\ Running.at = "zipping" THEN 1 ELSE 0) |-> {}] IN
     zips' = halves \o zips
  /\ UNCHANGED <<dirs, minute, said, teed, pruned>>

\* unfinished(): what is there is listed before any game can begin.  By the time
\* Debug, always off at launch, is on again another minute has begun.
Launch ==
  /\ ~page.up
  /\ page' = Nobody
  /\ rescue' = [AtRest EXCEPT !.found = DOMAIN dirs]
  /\ minute' = minute + 1
  /\ UNCHANGED <<chain, buffer, active, dirs, zips, said, teed, pruned, bounded>>

\* The directories recover() listed as it began and has not dealt with yet.
Unfinished == rescue.found

RecoverReads(d) ==
  /\ page.up /\ rescue.holds = NoBundle /\ d \in Unfinished
  /\ rescue' = [found |-> rescue.found \ {d}, holds |-> d, read |-> Contents(d)]
  /\ UNCHANGED <<page, chain, buffer, active, dirs, zips, minute, said, teed, pruned, bounded>>

RecoverZips ==
  /\ page.up /\ rescue.holds # NoBundle
  /\ rescue' = [rescue EXCEPT !.holds = NoBundle, !.read = {}]
  /\ dirs' = Without(rescue.holds)
  /\ zips' = <<rescue.read>> \o zips
  /\ UNCHANGED <<page, chain, buffer, active, minute, said, teed, pruned, bounded>>

RecoverFails ==
  /\ MayFail /\ Fault
  /\ page.up /\ rescue.holds # NoBundle
  /\ rescue' = [rescue EXCEPT !.holds = NoBundle, !.read = {}]
  /\ UNCHANGED <<page, chain, buffer, active, dirs, zips, minute, said, teed, pruned>>

RecoverPrunes ==
  /\ page.up /\ rescue.holds = NoBundle /\ rescue.found = {} /\ Len(zips) > KeepZips
  /\ Prune(zips)
  /\ UNCHANGED <<page, chain, buffer, active, dirs, rescue, minute, said, teed, bounded>>

BundleNext ==
  \/ Say \/ Flush \/ Drain \/ Tee
  \/ GameStarts \/ Ensure \/ SessionStops \/ ToggleDebug
  \/ BeginFinish \/ BeginStart \/ Landed
  \/ TakeActive \/ Zipped \/ ZipFails \/ Opens \/ OpenFails \/ Finished
  \/ Crash \/ Launch
  \/ \E d \in DOMAIN dirs : RecoverReads(d)
  \/ RecoverZips \/ RecoverFails \/ RecoverPrunes

BundleSpec == BundleInit /\ [][BundleNext]_bundleVars

-----------------------------------------------------------------------------
\* "zipped at the next launch, so a game is never lost to how the app closed": what
\* reached a game's bundle is in a directory a launch will find or in a zip - or
\* was, until KeepZips newer ones were made - whatever failed and whenever the
\* app died, and although the recovery thread zips and removes directories beside
\* the games being played.
NothingLost ==
  teed \subseteq pruned \cup (UNION {dirs[d] : d \in DOMAIN dirs}) \cup (UNION {zips[i] : i \in DOMAIN zips})

\* "a quick end-and-restart can never zip the new game with the old one's finish":
\* while the page holds a bundle for the session there is, that bundle is the one
\* collecting on the native side.
CollectsThisGame == page.bundle # NoBundle => active = page.bundle /\ page.bundle[1] = page.game

\* "Logs flushed by the caller first, so the zip has the last lines": when a game's
\* bundle is taken to be zipped, what was logged before the game ended has reached it,
\* through batches that were under way and a drain that was only queued.
LastLinesIncluded ==
  chain # <<>> /\ Running.at \in {"zipping", "done"} => Running.owed \subseteq teed

\* Nothing that reached a bundle is lost, a session's bundle is the one that collects, and
\* a bundle is not zipped before the last lines of its game have come.  It may hold more:
\* a new game's first lines, while the finish of the one before still flushes.
BundlesAreWhole == NothingLost /\ CollectsThisGame /\ LastLinesIncluded

=============================================================================
