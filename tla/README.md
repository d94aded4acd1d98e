# LoLProxChat: models, model checks and proofs

LoLProxChat is proximity voice chat for League of Legends. A Tauri desktop client reads the
minimap, tells a signaling server where its player is, asks it how loud everyone should be, and
talks to the other players over WebRTC. This directory holds TLA+ models of the parts of it whose
difficulty is in the order of things: connections that die half way, sockets that replace each
other, calls suspended at an `await` while the world changes under them. TLC checks the models on
small instances; TLAPS proves every safety property the passing runs check, refinements included,
for every instance. What is left to TLC alone is liveness.

Paths below are relative to the repository. `PROJECT.json` maps every definition to the lines it
models and lists the runs, the theorems, the findings and the hazards.

## 1. The system

| Component | State | Operations | Talks to |
|---|---|---|---|
| Connection layer (`server/src/index.ts`, `heartbeat.ts`, `rate-limit.ts`, `evict` in `ws-handler.ts`) | `readyState` of each socket, open sockets per address, heartbeat `alive`, pending terminate timers | upgrade, refusal, ping sweep, evict, client close, 'close' event | the rooms (inbound frames, close), the clients |
| Rooms and handlers (`rooms.ts`, `ws-handler.ts`) | `rooms`, `clients`, per-entry position, camera, last-seen place, team, opt-in; RESET cooldown stamps | join, repeated join, leave, takeover, coords, stale, shared reset, reset_all, signal relay | connection layer, clients (room_state, peer_joined, peer_left, ...) |
| Proximity volumes (`volumes.ts`) | none | computing one player's volumes from a room | HTTP endpoint, rooms |
| HTTP, limits, TURN (`index.ts`, `rate-limit.ts`, `validate.ts`, `turn.ts`) | token buckets, refusal counts, cached credentials | compute-volumes, turn-credentials, health | volumes, Cloudflare |
| Client signaling (`signaling.ts`) | current socket, room, reconnect timer, `intentionallyClosed` | joinRoom, leaveRoom, reconnect, send | server, orchestrator |
| Peer connections (`audio.ts`, `peer-connection.ts`) | `peers`, `peerClaimIds`, `peerCreations`, `pendingSignals`, each connection's negotiation and restart count | connectToPeer, handleSignal, handlePeerLeave, dropPeer, ICE restart, cleanup | signaling, ICE servers, WebRTC |
| Session lifecycle (`orchestrator.ts`) | `session`, `audio`, `tracking`, `sessionActive`, interval ids, poll guards | pollGameState, startSession, endSession, stop, microphone retry | all of the client |
| Position tick (`orchestrator.ts`, `volume-client.ts`) | `positionTickRunning`, `coordsDisowned`, `disownedWith` | positionTick: report, disown, ask for volumes, apply them | tracker, signaling, server, audio |
| Death and respawn (`orchestrator.ts`, `game-state.ts`) | `localPlayer.isDead`, respawn timer, `respawnedAtMs` | the 3 s and the 1 s poll, applyDeathState, the timer | League, tracker |
| Tracking (`tracking.ts`, `tracking-helpers.ts`) | state, position, hold, cover, stack, scan, RESET memory, wrong-lock evidence | processFrame, resetPosition, rescan, onDeath, onRespawn, a new region or scan rate | capture, recognition, orchestrator |
| Recognition (`champion-classifier.ts`, `skin-matcher.ts`, `icon-identity.ts`, `camera-*.ts`) | templates, held identities | scoring icons, finding the camera box | tracking |
| Game state and identity (`game-state.ts`, `core/`) | none | parsing, matching, room id | orchestrator |
| Debug bundle and logging (`logging.ts`, `debug-bundle.ts`, `orchestrator.ts`, `game_bundle.rs`) | buffered lines, flush in flight, promise chain, the active game, directories and zips on disk | log, flush, start, finish, tee, prune, recover | native side, file system |
| App audio (`app-audio-output.ts`, `audio.ts`, `audio_out.rs`) | outputs, mixes, routes, status timers; the native stream, its thread and jitter buffer | setAppAudio, setDevice, checkStatus; start, stop, push, status, pull | device, peers |
| Push-to-talk (`global_keys.rs`, `key_decision.rs`, `overlay.ts`, `background.ts`) | bound keys, `CAPS_HELD`, input mode, mute | keyboard hook, rebinding, mode | Windows, audio |
| Windows and overlay (`overlay`, `scanner`, `speakers`, `background`) | display state | toggles, drawing | orchestrator |
| Other native parts (`updater.rs`, `capture.rs`, `lcu.rs`, ...) | files, handles | update, capture, League access | the webview |

### What is hard, and what would be correct

* **Connections.** A client can vanish without a word, at any moment, also while the server is
  closing it. Its slot of the per-address cap must come back exactly once and its socket must go
  without its help, while a client that speaks is never destroyed.
* **Rooms.** Joins, moves, renames, takeovers and closes interleave; the close of an evicted socket
  arrives after its name has moved on. One entry per name, two maps in agreement, members told
  exactly who is there, the place moved with a takeover and the consent not.
* **Reconnecting.** An app has one current socket and a tail of superseded ones whose events still
  arrive. It must always get back to its room, never take the room from its own successor, and two
  apps under one name must not trade the room for ever.
* **Building a voice connection.** Both sides start, each awaits an ICE fetch, offers and candidates
  arrive early, a player leaves during the fetch, a call fails. One connection per pair, none leaked,
  and the two do hear each other.
* **Sessions.** A session starts over several awaits and can end during each. Nothing it starts may
  outlive it: no loop, no capture, no open microphone.
* **Being heard.** A position lives in four places - the tracker, the tick, the socket, the server's
  entry - and each has its own idea of when it is too old. An enemy may hear us only where we were
  moments ago; a recall, a death, a RESET or a dropped socket must not leave us standing somewhere.
* **Tracking.** An icon can be covered, merged, mistaken, gone; every explanation for not seeing it
  is believed for a while, and one must not follow another for ever. The user's RESET must count.
* **Death.** Two polls answer late and out of order, and a timer runs beside them: one death, told
  once, ended once, and not before League ends it.
* **Caches and limits.** Credentials read before an await are served after it; a bucket is filled
  when visited and dropped when idle; an address is read from a header anyone writes on.
* **The native side.** A crash between any two steps of a bundle; a hook that sees its own key
  strokes; commands to the audio thread that cross its own reopening.

## 2. The modules

| Module | Models | State and actions |
|---|---|---|
| `Connections` | connection layer | `ready`, `counts`, `alive`, `evictTimer` as in the code; `link` and `torn` for what the server cannot see. `Admit`/`Reject` (upgrade), `Sweep` (Heartbeat.sweep), `Takeover` (evict), `EvictTimeout`, `CloseTimeout` (ws's own 30 s), `ClientCloses`, `Vanish`, `CloseEvent` |
| `RoomServer` (extends `Connections`) | rooms and handlers | `rooms` and `clients` as two maps; `info` the mutable part of an entry. `RepeatJoin`, `TakeSeat` (join after leaving, with takeover), `ReportCoords`, `DisownCoords`, `SetSharedReset`, `RelayReset`, `Close`. One action per handler: Node runs each to completion |
| `Signaling` (extends `RoomServer`) | clients' SignalingService, composed with the server | `current`, `wanted`, `done`, `timer` per app, `state` and `outbound` per socket. `JoinRoom`, `LeaveRoom`, `TimerFires`, `Opened`, `Replaced` (4000), `Dropped`, and the server's side of each connection |
| `PeerLinks` | AudioService and orchestrator callbacks of two clients, relay between them | `peer`, `claim`, `pending` as in the code; `tasks` the calls suspended at an await; `channel` signals on their way. `HearPosition`, `HearOffer`, `HearSignal`, `HearLeft`, `Created`, `Abandoned`, `CreateFails`, `OfferMade`, `AnswerMade`, `IceConnects`, `IceFails`, ... |
| `SessionLifecycle` | orchestrator sessions | `session`, `audio`, `tracking`, `ids` and the loops, trackers and microphones that exist. Poll in three stages, startSession await by await, `EndSession`, `Stop`, `RetryDone` |
| `TrackerPromise` | what the tracker tells the rest of the app | one record `trk`: state, position, how long it has been holding and why, where it last saw us. One kind of step (`Move`) per kind of thing the tracker may do, and time |
| `Tracking` | the tracker, implements `TrackerPromise` | `lock` (state, position, hold, last sighting), `cover` (hidden or merged), `budget`, `scan` (what a rescan starts from). `Frame` is one processFrame; `ResetPosition`, `SharedReset`, `OnDeath`, `OnRespawn`, `NewRegion`, `Restart` |
| `LockEvidence` | the classifier's runs against a wrong lock | `evidence`, `target` as in the code, `run` the one in flight. `Frame` starts and consumes, `Lands`/`Throws` end a run on whatever lock there is by then |
| `PositionTick` (extends `TrackerPromise`) | the orchestrator's position tick, the uplink, the server's entry for us | `running`, `coordsDisowned`, `disownedWith` as in the code; `waiting` the ticks at an await; `uplink` and `link`; `entry`. `PositionTick` up to its await, `Answered`, `Failed`, `StartSession`, `EndSession`, `LinkDown`, `Rejoin`, `Deliver` |
| `DeathWatch` | both death polls and the respawn timer | `local`, `respawnDue`, `respawnedAt` as in the code; `poll` the calls in flight with what League told them; `league` what is so. `SlowAsks`, `FastAsks`, `LeagueAnswers`, `SlowLands`, `FastLands`, `RespawnTimer`, `TrackerMade`, `RegionMoves` |
| `GameBundle` | log buffer, bundle chain, native bundle, recovery | `page`, `chain` and `buffer` of the page; `active`, `dirs`, `zips`, `rescue` of the native side. One action per job step, one per file operation that may fail, `Crash` and `Launch` |
| `PushToTalk` | hook, binds, mode, microphone | `keys` the keyboard and its injected input, `hook` the three atomics, two queues between hook, panel and page. `Press`, `Repeat`, `Release`, `Injected`, `Rebind`, `SetMode`, `Bound`, `NewSession` |
| `AppAudio` | page and native side of the app's own output | `app`, `waiting`, `mixOf`, `tap`, `voice` of the page; `sent` commands; `native` the stream and its thread. One action per call and per await |
| `Jitter` | the jitter buffer | samples held. `Push`, `PushBurst`, `Pull` (with its trim), `Clear` |
| `Proximity` | computeTieredVolumes, computeVolumes | pure operators over one situation (requester, other player, request) that then only grows older |
| `TokenBudget`, `RateLimit` | a budget per client; the buckets that implement it | `buckets` as in the code, `clock`, requests between their two limits. `TurnCredentials`, `PostArrives`, `PostEnds`, ..., `Prune` |
| `IceCache` | TURN credentials, server and client cache | `cached`, `iceCache` as in the code, `request` with the cache each suspended handler read. `Arrive`, `Issue`, `FetchSucceeds`, `FetchFails`, `Received`, `Lost` |
| `ClientAddress` | clientIp and what it rests on | operators over addresses of a few bits and networks as their leading bits; `Pad` writes one more entry on the left |
| `ConnectionsProofs`, `RoomServerProofs`, `ServerEdgeProofs` | theorems about the server | types, invariants, refinements |
| `PeerLinksProofs`, `ClientProofs`, `PositionTickProofs`, `TrackingProofs`, `NativeProofs` | theorems about the client | the same; `ClientProofs` is about `Signaling`, `SessionLifecycle` and `AppAudio`, `NativeProofs` about the modules of `MCNative` |
| `MCRoomServer`, `MCRegistry`, `MCSignaling`, `MCClient`, `MCPeerLinks`, `MCPositionTick`, `MCTracking`, `MCServerEdge`, `MCNative` | instances for TLC | |

**Abstract specifications.** `Connections` says what the server may do to its sockets: `Takeover(s,
gone)` evicts any admitted live sockets. `RoomServer` decides which, from its registry, and is shown
to implement it (`Spec => ConnSpec`, proved). `TrackerPromise` is the interface between the tracker
and the tick: `PositionTick` uses nothing else of the tracker, and `Tracking` is checked and proved
to keep it (`KeepsItsPromise`, by INSTANCE ... WITH). `TokenBudget` says what a rate limit is for; `RateLimit`
implements it for every key (`IsABudget`, checked and proved).

**Compositions.** `Signaling` runs the clients against the real `RoomServer`. `PositionTick` has the
tick, the socket and the server's entry in one behaviour. `MCClient`, `MCServerEdge` and `MCNative`
put several modules in one run that share no state in the code either: a variable `focus`, chosen at
the start, says which of them moves, so the run is the union of their behaviours, not their product.

History variables say what a state alone does not: what a client was told, when a tick last vouched
for a position, which runs of the classifier a lock has seen. They guard nothing.

Definitions whose comment begins "Wrong variant of X" are X with a plausible bug - a dropped call, a
forgotten reset, a missing check. Nothing uses them; substituting one for X makes the property
listed beside it in `PROJECT.json` fail, which shows that the property depends on that code.

### How data is abstracted

Names, rooms and places are model values. Chat content, audio, SDP and candidates are not modelled;
an exchange of descriptions is an offer's identity, so that an answer to a stale offer can be told
from one to the current offer (`Garbled`). In `PeerLinks`, position reports matter only in that they
trigger `connectToPeer`; in `PositionTick`, in where they leave us at the server. The reconnect
back-off is a timer that may fire at any time.

A frame of `Tracking` is a set of spots where an icon of our team's is read, and of what lies where
we last were. Scores, pixels and distances are the frame's, so they are arbitrary: the alternatives
of a frame are exactly the branches its decisions can take. In `LockEvidence` spots are integers one
icon apart, which keeps what "still", "near" and "distinct" mean. The map in `Proximity` is a line:
a score depends on distances only. Times keep their arithmetic in units of a run's own.

## 3. The runs

| Run | Bounds | What it shows |
|---|---|---|
| `server` | without the shared RESET: 2 sockets trading one name, clock 0..2, one place, vanishing clients, heartbeats | a silent or evicted connection is destroyed in bounded time and its ghost leaves the room; nobody who spoke is reaped; one place at most; a takeover keeps the place |
| `registry` | seats: 4 sockets behind a cap of 3, 2 names, 2 rooms. Shared RESET: 3 sockets, 2 names, 1 room, clock 0..2, cooldowns 1 and 2 | slots balanced, one registry on live seats, members' views agree with it; consent is the connection's own, relays are spaced |
| `client` | signaling: 2 apps of one player, 4 sockets, 4 disturbances, at most 3 calls, 1 drop and 1 lost close frame among them. Sessions: 2 games, the first on an unsupported map, 3 sessions, blocked microphone, failing audio graph, stop(). App audio: 2 rates, 4 disturbances, at most 4 toggles, 1 device change and 1 lost device among them | the apps settle, leaving ends presence, a pending reconnect threatens a live connection only where joinRoom is called for a room that was not left; sessions end with their game and nothing scans or records outside them; the voices are never routed to an output that was stopped or forgotten, and are heard again unless two starts ran at once |
| `peer_safety` | 2 clients, 6 identities, 4 offers, buffer of 2, one session change, one signaling outage, one failure | one connection each, claims served, nothing stranded in the buffer |
| `pairs_connect` | the same, one session change, three media breaks | two players that stay end up hearing each other |
| `position` | 2 places, 2 sessions, 2 suspended ticks, clock 0..2, 1 message in transit; stale at once, sightings for 1 unit | heard only where vouched for, disowned is forgotten, lost answers stay in their session, ticks do not pile up |
| `tracking` | a lane and a base, clock 0..4 of about 3 s | explanations run out, a RESET is heeded, the promise is kept |
| `server_edge` | scoring: places 0, 1, 3 with ranges 1 and 3, ages 0..2, stale at 1, anchor at 2, ageing by 2. Limits: 1 address, 2 names, capacities 2 and 1, clock 0..3. TURN: 2 requests, life 6, lead 4, grace 2, clock 0..9. Addresses: 1 bit (IPv4) and 2 bits (IPv6), 7 settings, 3 entries | the other team is heard only in sight, ageing only narrows, limits are budgets, cached credentials are live, padding a header moves nothing |
| `native` | death: clock 0..11, timers 3 and 6. Evidence: 3 spots, 3 runs. Bundles: 3 games, 3 lines, 2 crashes, 1 failing file operation, 1 zip kept. Keys: 3 presses, 3 changes. Jitter: target 2, cap 8, bursts up to 9 | one death told and ended once, no respawn while dead, locks left on their own evidence, no line of a game lost and none left out of its zip, Caps Lock untouched, microphone follows the hand, delay bounded |
| `reconnected_voice` (violation) | one signaling outage | the two stay silent to each other after the reconnect |
| `withdrawn` (violation) | as `position`, stale after 1 unit | a position vouched for is not taken back when the player dies during the first moments of a rescan |
| `stale_reconnect` (violation) | 1 app, 3 sockets, 2 calls, 1 drop | a reconnect left pending by joinRoom hangs up on the new connection |

**Why the bounds are enough.** A takeover needs two sockets and an onlooker; a second socket beyond
the cap and one elsewhere suffice for the slots. The counters of unanswered pings and of sweeps
saturate at `HistoryCap`: the properties ask "at least one" and "at least two", so 2 tells all
states apart that they tell apart. In the runs whose properties read no counter it is 0. `Fragile`
names the connections whose client may vanish and `Sweeping` switches the heartbeat's interval off
in the runs that ask about the registry, where a reaped connection is a closing one like any other.
With cooldowns of 1 and 2 and a clock up to 2, a relay can come too early, exactly on time and late,
for the room and for the sender. Every connection of `Signaling` follows a call, a drop or a lost frame, so with four of these
together (`MaxDisturbed`) four sockets are enough for two joins and a reconnect after a drop and one
after a lost frame, or three joins and one reconnect, and no behaviour ends for want of a socket. The
two apps are alike, so `MCSignaling` lets the first call be the first app's; the sockets of `registry`
are alike, so one of them, `spare`, is the last to connect. Four toggles are one start and
three calls that wait for it, two of which ask for it: the fewest that make two starts overlap.
`MaxTries` bounds toggles, device changes and lost devices together; in `PeerLinks`, identities are
reused once nothing refers to them and six never run out. The code's buffer cap is 64: 2 suffices to
reach it and to go on.

Two slots hold the two ticks that can be suspended at once across two sessions, which
`TicksAreBounded` shows to be all there are. A lane and a base are a spot we can walk from and one
we can only recall to, and four units pass every one of the tracker's windows (hold 3, cover 1,
stack 2, avoidance 2). In `server_edge` the three places are at distances within full volume, at its
edge, between and at the edge of hearing, and ages lie before, at and after their limits; the clock
outlasts a credential's whole life and its grace. In `native` a timer of 6 outlives three polls and
a timer of 3 one; three runs stand for the code's six: one that may have started before the lock,
one between and one that tips the scale; three games let a bundle be kept, one be pruned and one be
recovered by a launch while another collects; three presses are one as a plain key, one bound and
one across a change.

Symmetry is used for sockets, places, tick slots and names, in runs that check safety only. Deadlock
is not checked: with every socket used up, or all games played, the models have nothing more to do,
and neither has the program.

### Fairness

* `ConnFairness`: the heartbeat interval and the eviction timers fire and Node delivers due 'close'
  events, as `setInterval`, `setTimeout` and the event loop do while the process lives. Nothing is
  assumed of clients, the network or ws's close timeout. `RoomFairness` is the same.
* `SignalingFairness`: timers fire, attempted connections are answered, what is in flight arrives.
  No call, drop or lost frame is forced. It is one weak fairness condition on all of it (`Underway`):
  a socket is used once, so no action can go on for ever and starve another, and the condition is as
  strong as one for each action.
* `PeerLinks!Fairness`: awaited fetches and WebRTC calls come back, relayed signals arrive, position
  broadcasts repeat every tick, ICE reaches a verdict. Sessions, outages, breaks, failures and the
  return of a signaling connection are free; `PairsConnect` asks for the two to stay, from some
  moment on, both in a session and connected.
* `LifecycleFairness`: the poll's interval fires and its request returns, since it has a timeout;
  awaits return. League, the roster and stop() are free.
* `AppAudioFairness`: awaits return, the native side works through what it is sent, the audio
  thread's and the page's timers fire. Devices and the user are free.

The other specifications state no fairness: their properties are about safety.

Some environment assumptions are worth knowing. A game begins only after the poll has seen the gap
since the last one and pending device or capture calls have returned (`GameBegins`); games are
minutes apart and the poll seconds. `IceFails` waits until nothing is under way between the two (ICE
gives up after tens of seconds, messages take less than one). `PositionTick` delivers messages within
a unit of the clock, five seconds. `DeathWatch` assumes answers within a second and nobody dead
within three units of a respawn, in the fountain. `GameBundle` assumes that a crashed app is back, with
Debug on again, no sooner than the next minute: a bundle's name has a minute in it, and one named like
a bundle being recovered would share its directory.

One switch of `Signaling` is set to what the network nearly always does and is there to be turned.
With `InOrder = FALSE` a join may overtake one the same app sent earlier on another socket: the late
join then evicts the newer connection with 4000, the app takes that as final and `SoleAppReturns`
fails (`rooms.ts` lets the last join handled win, not the newest socket).

### What the violations say

1. **`reconnected_voice`** - an offer or answer lost with a half-open signaling connection is never
   repeated: the takeover tells nobody, both sides keep a peer that never finishes negotiating, and
   nothing times it out. The same gap swallows an ICE restart offer made while signaling is down.
2. **`withdrawn`** - `disownCoords` returns without a message when the tracker has no position any
   more (`orchestrator.ts:1036`). If the tracker goes back to scanning after a tick that reported us,
   and the player dies before the next tick, `onDeath` has cleared the position, so the server keeps
   serving the reported one until it is stale - what the comment above the method sets out to prevent.
3. **`stale_reconnect`** - `joinRoom` (`signaling.ts:73`) does not clear a pending `reconnectTimer`.
   When the previous socket closed and joinRoom is called before its reconnect is due, the timer fires
   on the new connection and `openSocket` closes it, although it is open or being made. Nothing between
   the two calls disarms it unless the room was left, and there is a way to get there: a startSession
   that resumes from `initMicrophone` after its session ended joins a room with no session
   (`orchestrator.ts:508-533`), and the next game's joinRoom then comes with no leaveRoom in between.
   `ThreatenedOnlyByRejoining` shows that there is no other: no late close of an old socket, no lost or
   4000 close and no leave and fresh join has a reconnect turn on a live connection. `EveryoneSettles`
   holds all the same: the reconnect that hung up makes a connection of its own.

### What else the models meet

Further behaviours of the code that its comments or tests speak against, or that may surprise, are part
of the models, and the properties say where they stop:

* The heartbeat terminates a socket at the first ping that stays unanswered for one interval, although
  `heartbeat.ts:20` says that one missed pong is tolerated. `ReapsOnlySilent` asks for one unanswered
  ping, not two.
* On an unsupported map startSession does not look at its session again after `initMicrophone` and may
  start a volume loop for a session that has ended (`orchestrator.ts:551`);
  `orchestrator-lifecycle.test.ts:631` expects every loop cleared. `OneSession` is about the loops of
  tracked games.
* `initMicrophone`, unlike `applyInputDevice`, does not ask whether it was disposed of while the device
  was opening (`audio.ts:209`). `RetryHoldsNoMicrophone` is about the retry, which does.
* A new game's first lines can reach the bundle of the game before: `tee` writes to whatever bundle is
  active, and the old one is until its finish job, which flushes first, takes it. `BundlesAreWhole` says
  that no line is lost and none comes too late for its game's zip, not that a bundle holds one game only.
* `setAppAudio` awaits `appOutStarting` once (`audio.ts:845`). Calls that waited for one start all go
  on when it comes back, and when it failed, two that ask for app audio each start an output;
  `appOutStarting` is null as soon as either returns. If the second `audio_out_start` finds no device,
  the audio thread has dropped the first one's stream, but leaves the shared status as running
  (`audio_out.rs:158-172`). The first output becomes the voices', its status checks find it running,
  and nobody hears anything, although `audio.ts:840-842` says that nobody is left hearing nothing.
  `NobodyLeftSilent` is that sentence, and TLC finds it false. `SilencedOnlyByOverlap` says that, within
  the bounds of `client`, it takes just that: where no two starts ever run at once, the voices are
  always heard again.
* When two starts of app audio overlap and both succeed, the later one becomes the voices' output and the
  earlier one is stopped by nobody until a status check of its own fails; its mix, silent by then, goes
  on into the same jitter buffer. `RoutedToTheOutput` is about where the voices go, and holds there too;
  `Heard` asks for a route to a running device, not for what else is pushed to it.

## 4. The proofs

Everything proved holds for every value of the constants: every set of sockets, addresses, rooms,
names, teams, clients, players, places and spots, any cap, cooldowns, limits, latencies, windows and
buffer sizes, any bound on calls, drops, sessions, crashes or key presses. Each proof has the same
shape: the property is not inductive alone, the invariant that is (`...Inv`)
says what else has to be true of calls in flight and of the histories, and one lemma per action and
part of it shows that it is kept.

* **`ConnectionsProofs`.** `SlotsBalanced` is not inductive alone: a release must not come from a
  socket that never had a slot, or twice. `ConnInv` adds `Shape` (admitted sockets are past the
  upgrade, a torn socket has not emitted 'close', only admitted sockets are evicted) and `Progress`
  (how far the heartbeat is with a vanished client, which gives the two sweeps). The counting step
  is done with cardinalities of the sockets that hold a slot. `ReapsOnlySilent` needs one invariant
  more, `PingsCounted`: a socket marked not alive has a ping on record. It assumes `HistoryCap > 0`,
  a history that can count one ping; the code keeps no such counter. Results: `SlotsAlwaysBalanced`,
  `SilenceAlwaysNoticed` with its parts `ConnTypeCorrect`, `DetectionInTwoSweeps` and
  `EvictionNeedsNobody`, and `OnlyTheSilentAreReaped`.
* **`RoomServerProofs`.** `RoomInv` is the types and `Registry`: unique names, the two maps in
  agreement and seats on live sockets need each other (a takeover is right because the map agrees
  with the list, the list is right because names are unique). With it each server step is a
  connection-layer step - a displaced socket is admitted and live because its seat was - hence
  `RoomsImplementConnections`, and what is proved of the layer carries over: `ServerSlotsBalanced`,
  `ServerNoticesSilence`. Results: `SeatingHolds` with its parts `TypeCorrect`, `NamesAreUnique`,
  `RegistryStaysInAgreement` and `SeatsStayLive`.
* **`RoomServerProofs`, what members are told.** `ViewsStayInAgreement`: room_state, peer_joined and
  peer_left add up to the truth for each open member, the hard case being a move whose old and new
  room share onlookers or a takeover that tells of a name already known. `OnePlaceEach`,
  `ConsentStaysOwn`, and `RelaysStaySpaced`, an action property that needs `StampsCover`: the stamps
  are at least as recent as every relay made since the room last stood empty.
  `PlaceOutlivesTheConnection` is the action property `TakeoverKeepsPlace`: only a join puts a new
  socket behind a name, it displaces exactly one (names are unique), and so the place it copies is
  that socket's.
* **`ServerEdgeProofs`, limits.** `LimiterIsABudget`: buckets filled only when visited and pruned
  when idle implement a budget that accrues all the time. The refinement maps a key's level to what
  a visit would find (`Filled`), so time passing is the abstract accrual, a visit takes from it, and
  a prune changes nothing - that last by `RateAssumption`: a bucket is idle long enough before it is
  pruned to have filled up (`LIMITS` and the prune interval of `index.ts` satisfy it). The inductive
  invariant is `BucketsOK`, no bucket above its capacity or refilled in the future (`BucketsHold`);
  products of variables, beyond the solver, are covered by two lemmas on multiples.
* **`ServerEdgeProofs`, proximity.** `EnemiesNeedSight` and `VolumesOnlyNarrow` for any map, ranges
  and age limits (`ProximityAssumption`: the full range is the smaller, a position goes stale before
  its anchor). The first follows the code's early returns. The second says that ageing takes points
  to hear from and anchors away and adds none, that the closest of fewer points is no closer
  (`Closest`, `NotCloser`), and that the fall-off is decreasing (`FallsOff`, from squares being
  monotone). `SituationStays` gives both their types; the run adds times and places at which each
  boundary is met.
* **`ServerEdgeProofs`, credentials.** `CachedCredentialsHaveLifeLeft`. The hard part is the handler
  suspended in Cloudflare's API with the cache it read before (`turn.ts`): `CredsOK` says of every
  call, by its stage, what it holds and since when, so that an answer's age is known when it reaches
  the client. `IceAssumption`: the client's minute and two ways of an answer fit into the refresh
  lead.
* **`ServerEdgeProofs`, addresses.** `PaddingIsUnread`: counted from the right, by listed network or
  by hops, the entry a request is charged to is the last one that stops the count (`LastOf`, by
  well-founded induction from the library), which an entry further left does not move.
* **`PeerLinksProofs`.** `OneConnectionPerPlayer` and `NobodyIsStranded` from `LinkInv`: `Owners`
  (an id is one link's; the creation that bears it has built nothing yet) and `Kept` (only a session
  has connections and claims, and what is open is in `peers`) tie `peers`, `peerClaimIds`,
  `peerCreations` and the suspended calls together. What breaks the two without it is a creation
  that returns after its player left and a new claim was made for the same name.
* **`ClientProofs`, sessions.** `OneSessionAtATime` and `RetriesHoldNoMicrophone` from `LifeInv`
  (`SessionsAreKeptApart`): nothing outlives its game short of a retry (`SameGame`), a suspended
  start is the latest session's while the poll serves (`Latest`), a game whose session ended is not
  asked about again (`EndedForGood`), and a retry that may still open the microphone is the
  session's (`Retries`).
* **`ClientProofs`, app audio.** `VoicesGoToTheOutput` from `AudioInv`, for any number of calls that
  wait for a start and of starts under way at once: the start of an output is the one call that output
  has, it is not the voices' output yet, and nothing has stopped it or checks on it, whatever toggles
  and failures crossed its awaits.
* **`ClientProofs`, signaling.** `OnlyRejoiningThreatens` from `SocketInv` (a socket in use is its
  owner's; an app that wants no room has neither a connection nor a pending reconnect): the only step
  that makes a pending reconnect threaten a live connection is a joinRoom for a room that was not left.
  It assumes nothing of how joinRoom is called. The stronger `ReconnectsOnlyWhenDown` is false, see
  `stale_reconnect`.
* **`PositionTickProofs`.** `TickInv` (`TickStays`): what is in the uplink was said at this very
  moment and what the server holds was vouched for no earlier than it arrived (`Vouched`); while we
  disown our position, the last thing on its way says so (`Withdrawn`); and ticks that wait are
  counted against those that came back late (`Overlaps`, a cardinality argument). Results:
  `OnlyVouchedIsHeard`, `DisowningSticks`, `LostAnswersAreOfThisSession`, `OverlapIsBounded`.
  `TickAssumption` says that the ticks suspended at once are finitely many.
* **`TrackingProofs`.** `ExplanationsDoNotAddUp`, `ResetsAreHeeded`, and the refinement
  `TrackerKeepsItsPromise`. `TrackInv` adds to the types `LockShape` (a hold has a reason, a lock a
  sighting: what `onDeath` reads), `Rides` (the history of teammate covers is `coverBudgetStart`)
  and `Explained`, the heart of it: for each explanation there may be - none, an enemy's icon, a
  teammate's, a pair, a merged blob, a hold - how far back our icon was last found, counted from
  when that explanation began. It is inductive because every explanation begins at most a frame
  after the last sighting: a cover from the first lost frame on, a stack only where none was yet, a
  teammate cover on what is left of the budget. One lemma per way a frame can end (`LockedScans`,
  `LockedRides`, `LockedHolds`, `LockedAcquires`, `LockedUnder`, `LockedMerges`, `LockedFollows`)
  shows both the invariant and the promise's step. That the promise holds of this tracker means that
  what `PositionTickProofs` shows of the tick is shown for it, not for some tracker.
* **`NativeProofs`, keys.** `CapsLockIsLeftAlone`: injected keys come in whole presses, so the
  parity of what is still in the input queue makes up for the LED (`CapsInv`).
  `TheHandHasTheMicrophone`: what a reader makes of a queue is a path from what it holds to what it
  will hold (`Path`), and the events on their way lead to the hand (`MicInv`). Keys are not 0, which
  is `PTT_VK`'s "none".
* **`NativeProofs`, evidence.** `SwitchesRestOnThisLock` from `EvidenceInv`: the streak counts the
  last runs heard, all but the first started in this lock, and no run lands between the decision and
  the frame that acts on it.
* **`NativeProofs`, bundles.** `GamesAreKeptWhole` from `BundleInv`: a job's place in the chain
  decides what it may owe and hold (`Queue`, `AtHead`), and `Dated` keeps the recovery thread, which
  works on bundles of an earlier minute, off what collects now.
* **`NativeProofs`, deaths.** `DeathsAreToldOnce` and the action property `NobodyRisesEarly` from
  `DeathInv`: an answer in flight is recent and orders itself against the last death told
  (`InOrder`), the timer is set for the end of the latest death (`Due`), and deaths told are as many
  as there were, but for one (`Reckoning`). `DeathAssumption`: latencies under a second, the slower
  poll's the longer, and no death within them after a respawn.
* **`NativeProofs`, playback.** `DelayBounded` for any target, callback and burst, with
  `JitterAssumption` that the cap leaves room for twice the target and a callback (250, 40 and about
  10 ms in the code). `JitterOK` adds that no more than a callback and a sample come between two
  callbacks of a page that keeps up: the trim's threshold is exactly what keeps the bound inductive.

**Only model-checked:** liveness (`GhostsLeave`, `EveryoneSettles`, `LeavingEndsPresence`,
`PairsConnect`, `SessionsEnd`, `SilencedOnlyByOverlap`), which TLAPS's backends do not cover. Type
correctness of `Signaling` is proved only as far as its invariant needs it (`SocketsOwned`).

**Forms that serve the proofs.** Two definitions state in closed form what the code does in a loop:
`Replayed` (`flushPendingSignals` hands over the buffered signals, which land on the one new
connection) and `Apart` (a pair come apart, as records of what is ours and what is set aside). TLC
checks the same formulas the proofs use.

**Assumptions** are the `...Assumption` of each module, which TLC evaluates for the constants of
every run: sets are finite where they are counted (`Sockets`, `Slots`), durations and bounds are
naturals, "none" values are none of the values, and the relations between limits named above, each
of which the constants of the code satisfy.

## 5. What is not modelled

* Image processing and recognition (`champion-classifier.ts`, `skin-matcher.ts`, `camera-box.ts`,
  `camera-hearing.ts`, the pixel half of `tracking.ts` and `tracking-helpers.ts`): numeric, without
  interleaving of its own. Its verdicts are arbitrary inputs of `Tracking` and `LockEvidence`.
* Per-peer volume glide, mutes and the browser's audio graph; the speaking overlay; drawing, wording
  and the panels, but for the key binds.
* The token bucket on messages is folded into frames that change nothing, validation likewise. The
  encryption of positions in volume requests, of which only the age matters to a score.
* Operating-system and League I/O (`capture.rs`, `lcu.rs`, `game_window.rs`, `mic_permission.rs`) are
  the environment, the updater a straight sequence of such calls. WebRTC is modelled from how
  `peer-connection.ts` uses it.
* `peer_safety` and `pairs_connect` have two clients: links of different pairs share no state in
  the code but the session.
* Known gaps within modelled parts: `AppAudio` stands one voice for all peers, which the code routes
  alike; `PushToTalk` asks about the microphone only once a bind or a mode changed in the middle of a
  press has been followed by a release; a shared ICE fetch that never returns holds its callers for ever,
  which `IceCache` allows and `PeerLinks`'s fairness rules out.

## 6. Plan

Modelled first was what a mistake is most visible in: connections and rooms, then peers and sessions,
then where we are heard, then the caches, limits and native parts. What would come next, most important
first: `PeerLinks` without the assumption that a fetch returns; `CameraHearing` (held identities and the
camera box over frames); per-peer volumes with their grace period and mutes.

Proofs left: type correctness of `Signaling` as a whole; that the evicted socket's place and the
consent of a name follow `Signaling`'s apps across reconnects, which needs the server's theorems carried
to the composition; the relation between `EnemyHears` and the tracker's own sightings, now that the
tracker's promise is proved.
