# A TLA+ verification of speech-to-speech-k8s

The repository deploys a voice assistant on a small Kubernetes cluster: a
browser page that talks to a realtime gateway, a server for the page that
admits users and meters them, the language model with its tools, speech
recognition and synthesis services, and the scripts that take the cluster down
and up. This directory holds TLA+ modules of the parts that keep state, TLC
configurations that check them on small instances, and TLAPS proofs of their
most important properties for every size.

Lines are given as `file:line` of this repository. Run everything from this
directory: `tlc -config MCSession.cfg MCSessionServer`, `tlapm SpeechTtsProofs.tla`.

## 1. Inventory

| component | source | state it keeps | operations | module |
|---|---|---|---|---|
| conversation life cycle of the page | `demo/main.js` | `currentState`, `client`, `micStream`, `trackedSessionId`, `queuedTicketId`, `heartbeatTimer`, the dialogs | tap, restart, stop, leave the queue, join, close the tab; the realtime client's status, queue, session and error events; the heartbeat | `VoiceClient`, `Conversation` |
| tool switches and webcam of the page | `demo/main.js` | `toolsEnabled` (saved), `cameraStream`, the preview, the search key | switches, key input, page load, permission listener, `enableCamera`/`disableCamera`, tools pushed to a session | `CameraTools` |
| settings, connection target and noise gate of the page | `demo/main.js`, `/api/config` in `demo/server.py` | `settings` (saved), what `/api/config` said, the dialog's fields, the device lists | dialog, Save, Restart, transport, gate, `fetchConfig`, `refreshAudioDeviceLists`, `connectionTarget`, `captureSnapshot` | `PageSettings` |
| tool executor, tool and search proxies, speech-mcp | `demo/main.js`, `demo/server.py`, `speech-mcp/` | calls under way; the pod's readiness | `runTool`, `/api/mcp/call`, `/api/search`, `local_time`, `global_internet_search`, `/health/ready` | `ToolCall` |
| session server | `demo/server.py` | none of its own; reservations in the limiter's database, slots and tickets at the load balancer | `/api/session`, `/api/queue`, `/api/session/heartbeat`, `/api/session/end`, `/api/queue/leave`, the sweeper | `SessionServer` |
| TTS service | `tts/app/` | the model and its lock, open generators, the worker threads that run them | start-up, `/healthz`, `/v1/audio/speech` | `SpeechTts`, `SerialSynthesis` |
| cluster stop and start | `scripts/cluster-*.sh` | replica counts, an annotation on each Deployment, cordons, power | annotate, scale, cordon, drain, power off; wait, uncordon, restore, wait for GPUs, clean up | `ClusterPower` |
| STT service | `stt/app/` | the model | one blocking transcription at a time | not yet |
| account chip, chat view, drawing | `demo/main.js` | text, styles | forwarding events | no |
| `/api/calls`, `/api/me`, login | `demo/server.py` | none | pass-through, a read | where `/api/calls` forwards to, in `PageSettings` |
| install, deploy, build, mirror, secret, smoke-test, cleanup scripts | `scripts/` | none | one command after the other | no |
| manifests | `k8s/` | declarative | pinning, GPU requests, probes | constants of `ClusterPower`, `ToolCall` |
| gateway, LLM server, SearXNG, load balancer, limiter, realtime client | not in the repository | | | external actions |

How they meet. The page asks the session server for a session, is granted one
or put in line, polls, joins, and then dials the gateway; while it talks it
sends heartbeats that extend its reservation, and when it goes it sends a
farewell that may be lost. The language model asks for tools through the page,
which answers them itself (snapshot) or through the server's proxy. The gateway
calls STT and TTS. All of it runs in Deployments that the scripts scale to zero
and back.

What is hard, and for each part what makes it correct:

- *Page.* Single-threaded, but its functions interleave at every `await` over
  shared module variables, and its requests and farewells outlive it on the wire.
  Correct: one connect at a time, a call goes through its stages in order, what is
  shown is what happens, nothing granted by the server is forgotten, the microphone
  is open in calls only, a spent budget ends the call and nothing else does so in
  its name.
- *Webcam.* Three callers of `enableCamera` (load, switch, permission
  listener), two awaits, and a revoke at any time. Correct: no camera that the
  page has lost hold of; tool, stream and preview agree; a live conversation
  offers the search it can use and no other.
- *Settings.* The dialog is filled by two answers that come when they come
  (`/api/config`, the list of devices), edited meanwhile, saved from its fields;
  calls capture settings at different moments. Correct: what was entered, and
  nothing else, is saved; the deployment decides where a conversation goes; a
  live one has the settings on show, and snapshots that fit its transport.
- *Session server.* Handlers interleave at each await on the limiter and the
  balancer, go on when the client has gone, die with a restart; messages are
  lost. Correct: waiting and refusals are free, grants are booked, the budget is
  overspent by a bounded amount, reservations are settled, the line moves.
- *Tool calls.* Nested timeouts over five programs, a probe with a timeout of
  its own. Correct: the inner timeout fires first, every call is answered,
  results are bounded.
- *TTS.* A request needs a thread *and* the lock and gives back one of them
  between chunks. Correct: one generation at a time, the lock never lost, no
  circular wait.
- *Cluster scripts.* Long, ended by any command that fails or by Ctrl-C (and, where
  the shell does not see the failure, not ended by it), with controllers acting in
  between.
  Correct: what ran is restored, no pod on a dead node, no GPU pod before its
  plugin, every wait ends.

`PROJECT.json` lists the hazards at their lines with the properties that catch
them.

## 2. Modules

One module per component; its `MC` module adds what TLC needs (symmetry sets,
constants that are functions), its `Proofs` module the theorems. Every module
is self-contained, so every external party appears as actions or as a choice
inside an action. Operators named in comments as *Mutant* are plausible bugs of
the code, each of which breaks a property (they are not part of `Next`).

### VoiceClient and Conversation (`demo/main.js:1208-1784`, `demo/server.py:359-661` as the page meets it)
An activation of `doStart` is a member of `Calls`, with the realtime client it
creates (`conn`), the session or ticket it may get and the heartbeat of that
session (`beat`). An activation of `teardown` that awaits `client.close()` is a
record in `td`. An action is the code between two awaits: `DoStart` runs to the
microphone prompt, `PrimeGranted` to `connect()`, `Teardown` to `close()`,
`FinishTeardown`/`Complete` from there to the end of its caller. Events of the
client (`Granted`, `Queued`, `ReadyToJoin`, `Connected`, `ConnectFails`,
`ClientError`) are the listeners of `doStart` and `onClientStatus`. The four
live states are one.

The server is `booked`, `inLine`, `spent`, and it acts at steps of its own. A
client's request is on the `wire` (`posted`, `polled`) until the server serves it
(`Grant`, `Enqueue`, `Claim`: booking or ticket), and its answer (`session`,
`ticket`, `offer`) until the page reads it, which a page that closed the client or
went away never does. `Farewell` only sends; the server acts on it at `ServeEnd` or
`ServeLeave`, later or never. `Lapse` is its sweeper, or the balancer, giving up a
place of a page it has not heard of for too long, which the page learns from its
next heartbeat only (`reaped` is history).

`Next` lets everything interleave with everything else. `Heeded` is a history: so
far no button was pressed while a teardown awaited `close()` (`pressed`), and no
expired reply about another session has cut the page (`cutStale`). `overlapped` are
calls that were in progress at the same time as another.

`Conversation` is what all this amounts to: each call goes from its prompt to its
end through its stages in order, each step after the server's side of it; its place
at the server comes from its own request, once, possibly when the call is over; the
page remembers a place from the moment it is told of it, and when a call ends it
keeps none. The page implements it as it is. `StageOf` computes a call's stage from
its `doStart` and its client, `PlaceOf` its place from `wire`, `booked` and `inLine`.

### CameraTools (`demo/main.js:385-400, 640-800, 1509, 1778`)
A `getUserMedia` call is a member of `Requests` and also the stream it yields;
`stage` says in which of `enableCamera`'s two awaits it is. Every handler may run
while one is under way: the switch, the permission listener, a reload. `watched` is
chosen at the start: browsers without a camera permission descriptor never run the
listener. Three histories name what goes wrong, so that the properties can say that
nothing else does: `overlapped`, requests that were under way with another; `crossed`,
the camera was switched off while a request was under way, or one of two failed, and
it has not been switched off at rest or reloaded since; `missed`, the tools changed
while a session connected, and not since.

### PageSettings (`demo/main.js:150-185, 338-368, 479-637, 805-847, 984-1234, 1303-1400, 1467-1532`, `demo/server.py:133-145, 213-233`)
`stored` is localStorage as it was read or written; `settings` derives from it
what `loadSettings` makes of it (an unset gate, an unknown transport), since both
always change together. `config` is what the page knows of `deploy`, the
server's environment. `form` are the dialog's fields, `listing` an
`enumerateDevices` under way, `draft` a history variable: what the user entered
since the dialog opened. An address is a scheme, a host that is local or not, and
whether it has a path: what the two derivations tell apart. `call` is a
conversation reduced to what it took from the settings and when: target and
transport at the tap (`Dialled`), speaker and gate after the microphone prompt
(`Primed`), changes while live (`Pushed`); it also remembers what it missed.
`active` is `activeTransport`, which every `doStart` sets, that of another
conversation started beside this one included (`DialAgain`). `CaptureSnapshot` walks
`SNAPSHOT_LADDER` to the first rung that fits, for any set of rungs that do.
`patient` is chosen at the start and concerns `SavedAsEntered` only: whether this
user lets the dialog settle (`Calmly` in the guards names each such wait): no typing
before `/api/config` has answered, no saving before the device list is there, no
cancelled device choice, no Restart of a live call with the address removed. Voice
and prompt go the way of the speaker and the microphone too, so one device stands for
all four.

### ToolCall (`demo/main.js` runTool, `demo/server.py:261-316, 665-720`, `speech-mcp/`)
A call is a token that moves from the page to the proxy's connection, the
server, the search and back, or to the proxy of the Serper service and back;
`age` counts the seconds in the wait it is in.
Work takes no time, waiting does: `Tick` is disabled while a timeout is due.
The kubelet's probe of `/health/ready` runs beside it and sets `ready`.

### SessionServer (`demo/server.py:188-203, 359-649`)
A visit is one attempt at a conversation. `req` is the await its handler is in,
`page` what the browser knows, `wire` the messages nobody waits for. All visits
share one identity, hence one budget; the actions split at each await, so
budget checks and bookings of several visits interleave. The limiter counts
chunks (`used`), the balancer has `line` and `slot`. A reply of the balancer
without a `session_id` is granted and not booked (`nameless`, `server.py:587`).

### SpeechTts and SerialSynthesis (`tts/app/main.py:49-124`, `tts/app/model.py:47-94`)
A request moves between the event loop, a worker thread (`inThread`) and the
socket; `gen` is the line its generator is suspended at and `lock` the holder of
`_lock`. `SerialSynthesis` is what the clients were promised, with no threads
and no lock: one speaker at a time. `SpeechTts` implements it under the mapping
`speaker <- lock`, `stage <- phase`, `heard <- sent`.

### ClusterPower (`scripts/cluster-stop.sh`, `scripts/cluster-start.sh`)
One action per kubectl or ssh command, with the Deployment controller, the
kubelets, the device plugin, the operator and the power in between. Under
`set -euo pipefail` any command may end its script (`Abort`, also Ctrl-C), and every
one of kubectl does while the control plane is down (`Unreachable`); a power cut may
come at any time. What fails in a process substitution or before `|| true` is not
noticed: `StopUnlisted` and the second alternatives of `Uncordon` and `Restore`.
`ran`, `service` and `mishaps` are history: what the operator had asked for, and which
of these has happened: a power cut, a stop repeated out of service, a GPU not back in
time, counts not recorded (the loop cut short, or power lost in service), a list of
Deployments or an annotation that was not read. Each property says which it withstands.

## 3. Runs

| run | instance | shows |
|---|---|---|
| `MCSpeechTts` | 3 requests, 3 threads, 2 chunks | the lock's owner can go on, refinement of `SerialSynthesis`, and that every response ends |
| `MCSpeechTtsPool` (violation) | 3 requests, 2 threads | see finding 1 |
| `MCVoice` | 2 calls, 2 teardowns, metered, every await, request and farewell open | refinement of `Conversation`, no session and no place forgotten, heartbeats for booked sessions only, `connecting` is always left; where the page is heeded, what it shows is so, the microphone is open in calls only, the limit is shown only for a spent budget or a lapsed reservation, and an expired call is cut |
| `MCVoicePress` (violation) | 3 calls, 1 teardown | see finding 5 |
| `MCVoiceStaleBeat` (violation) | 2 calls, no button pressed during `close()` | see finding 2 |
| `MCSession` | 2 metered visits (two tabs of a user), budget 2, 1 slot, queue of 1 | waiting is free, grants are metered, overspending is bounded, reservations are settled, the line moves |
| `MCCluster` | 2 workers, a GPU and another Deployment, 0 or 1 replica, one kind of mishap at a time | restoration, pods and nodes, GPU order, each up to the mishaps it withstands; scripts end |
| `MCClusterRerun` (violation) | the same | see finding 4 |
| `MCCamera` | 3 `getUserMedia` calls, watched or not | only overlapping requests lose a camera; camera, tool and preview agree at rest, but for requests switched off under way; a revoke releases the camera; a live conversation offers web search only while it is on and has a key |
| `MCCameraLeak` (violation) | the same | see finding 3 |
| `MCTool` | 1 call, the repository's timeouts (5 s search, 12 s proxy, 2 s health, 1 s probe, 3 misses) | results capped, timeouts nested, readiness, every call answered |
| `MCSettings` | 1 typed address and 2 pins (one bare and remote), 1 device beside the default, 1 gate angle and whatever was stored, a ladder of 2; patient users and others; with and without load balancer and pin | saving is entering, the deployment decides, a live call has the settings on show but for what it missed, snapshots fit |

*Bounds.* Two calls of a page are the one that ends and the one that starts in
its wake, and two teardowns are what it takes for one to overtake another. For two
calls to overlap it takes a third one (finding 5), so `overlapped` stays empty in
`MCVoice`; the theorems on `NoForgottenSession`, `NoPhantomPlace` and `ConversationSpec`
have no bound and cover it. Two metered visits race for the last chunk of a budget, and
with two chunks the second one can be granted what the first gave back. With one slot
and one ticket, granted, queued and rejected are all reached; the unmetered visit, which
only takes slots, is covered by the proofs. In `MCCluster` a Deployment at 0 tells a
restored count from the default of 1, two workers are an order between nodes, and
`MaxMishaps` of 1 lets one kind of mishap befall a cluster any number of times, besides
late GPUs and unrecorded counts; several kinds together are left to the theorems, which
have no such bound, and so are larger counts. The angle of `MCSettings` is past the
arc's end and reads as the loudest gate; with one device and the default, "saved but not
listed" and "listed but not saved" are both reached; a ladder of two has a first, a last
and no fitting rung. Three camera requests are load, switch and listener; a run ends
when they are used up, so `MCCamera` checks the first three requests of a browser
profile. In `VoiceClient`, one heartbeat at most is in flight per session (the interval
is far longer than a reply), and the server checks the budget and books in one step
(`SessionServer` takes them apart); in `SessionServer` one handler at a time serves a
visit. One operator runs one script at a time.
`CHECK_DEADLOCK FALSE` in the `VoiceClient` runs: a closed tab and a page that has
used its calls really do stop.

*Symmetry* is used in `MCCamera` alone, which checks invariants only.

*Fairness.*
- `SpeechTts`: weak fairness of the warm-up and of each response's own steps
  (the interpreter schedules its threads, the client reads). The model ends a
  generation after `MaxChunks` (`max_new_tokens`). Clients need not come or go.
- `VoiceClient`: what the page awaits comes back, be it with a failure, and the timer
  fires. Heartbeats may fail, but not every time (strong fairness of being served and
  of the `expired` reply), and each fetch ends. No gesture is fair, nor that the server
  serves a request or a farewell, nor the sweeper.
- `SessionServer`: `FairSpec` has handlers, the sweeper (an asyncio loop) and the
  balancer's own reaping. `LiveSpec` adds pages that poll, dial or give up and send
  heartbeats, as their timers do, and strong fairness for requests that may be lost
  or fail any number of times but not always. Pages may still leave without a
  word at any time, which is what `ReservationsSettle` is about.
- `ClusterPower`: only the scripts' own steps are fair. Nodes, pods and plugins
  may do nothing for ever: the scripts' deadlines are what ends them.
- `ToolCall`: time diverges (strong fairness of `Tick`), a probe that is under way
  ends, the proxy and the server act on what is due. Neither SearXNG, nor Serper, nor
  the network has to answer.
- `CameraTools`, `PageSettings`: safety only, no fairness.

## 4. Proofs

TLAPS proves, for every value of the constants:

| module | theorem | property | along |
|---|---|---|---|
| `SpeechTtsProofs` | `TypeCorrect` | `TypeOK` | |
| | `OneGenerationAtATime` | `LockOwner` (no run: `SerialSpec` implies it) | `LockOwner` is inductive with types, *Warm* (no request before the warm-up is over) and *GenOpen* (only a response under way has an open generator) |
| | `NoCircularWait` | `HolderCanGoOn` | assumes `Cardinality(Requests) <= PoolSize`; the holder is not over, by *GenOpen* and `LockOwner`; a waiting holder is not in `Busy`, so `Busy` is smaller than `Requests` |
| | `ImplementsSerialSynthesis` | `SerialSpec` | step simulation, with *Fresh*: a generator that has not entered the lock has sent nothing |
| `VoiceClientProofs` | `TypeCorrect` | `TypeOK` | |
| | `SessionsAccounted`, `PlacesAccounted` | `NoForgottenSession`, `NoPhantomPlace` | *Ledger*, the inductive invariant: where the place of a call can be, given how far its request has come (*Requests*); that `tracked` and `ticket` are of connections that can use them, and what the page has done with it cannot track again (*References*); that calls in progress together are known to overlap (*Overlaps*). The key lemma is that a teardown preserves it, at whichever of its awaits |
| | `HeartbeatsOnlyForBooked` | `HeartbeatsAreBooked` | from *Ledger*: the session that is tracked while the timer runs is booked, or was given up by the server |
| | `LimitTellsTruthIfHeeded` | `LimitMeansSpentIfHeeded` | *LimitsTrue*: a teardown that a reply about its own session caused means a spent budget or a lapsed reservation. `Heeded` is a state of the page here, and no assumption on its steps |
| `VoicePromiseProofs` | `KeepsPromise` | `ConversationSpec` | step simulation from *Ledger*, of the page as it is. The key lemma is that a teardown is one `End` of the calls it ends |
| `SessionServerProofs` | `TypeCorrect` | `TypeOK` | *Charged*: there are never fewer chunks charged than sessions booked, so a refund never goes below 0 |
| | `WaitingCostsNothing`, `GrantsAreMetered`, `RefusalsCostNothing` | `WaitingIsFree`, `GrantIsMetered`, and `RefusalCostsNothing` (no run) | *InOrder*: what a visit's handler and page are doing decides whether it may be in line or booked |
| | `OverspendIsBounded` | `OverspendBounded` | *InBudget*: `used` plus the visits past their check is bounded, each visit passing it once |
| `ToolCallProofs` | `TypeCorrect` | `TypeOK` | |
| | `SearchesAreCapped` | `ResultsCapped` | a lemma on `MaxResults` for every configured default, negative ones included |
| | `ProxyOutwaitsServer` | `ServerAnswersFirst` | assumes `ToolTimeout < ProxyTimeout`, which `config.go` and `server.py` set; *InTime*: a search is never older than its timeout |
| | `OnlyHangingUnreadies` | `ReadyWithoutSearch` | by the one step that can clear `ready` of a running process, a probe that is missed; for every value of the timeouts |
| `CameraToolsProofs` | `TypeCorrect` | `TypeOK` | |
| | `OnlyOverlapsLeak`, `ToggleLeavesOnlyOverlaps` | `OneCamera`, and what it says of `FlipCameraOff` (no run) | *Counted*: of two requests under way each is known to overlap the other, and while one is, the page holds no stream that it could make it lose but an overlapping one |
| | `CameraFollowsItsTool` | `CameraFollowsTool` | *Agree*: how far and whose the one request is decides what it has brought and whether its tool is on. It needs *FlippedUsed*: a request is made once |
| | `RevokeAlwaysTurnsItOff` | `RevokeTurnsItOff` | *Refused*: no stream arrives without permission |
| | `SearchStaysUsable` | `OffersUsableSearch` | *Usable*: the same from the moment the session is asked for |
| `ClusterPowerProofs` | `TypeCorrect` | `TypeOK` | |
| | `StartRestoresWhatRan` | `RestoresWhatRan` | *Prompted* (what each stage of a script has left to do, wherever it may be cut short) and *CountsKept*: where the counts are that the operator asked for, on the Deployments not yet visited, in the annotations of the others, and back on those restored |
| | `ScriptsLeaveNoPod` | `NoPodWhileDown` | *ScaledDown*, *Drained* and *Powered*, each what the next needs: no replicas behind the loop that scales, no pods behind the one that drains, and power wherever there are replicas or pods |
| | `NoAdmissionStorm` | `NoStorm` | *GpusReady*: where GPU pods are asked for, the plugin has its GPU, from `restoringGpu` on |
| `PageSettingsProofs` | `TypeCorrect` | `TypeOK` | with *ConfigTrue* (the page knows what its server told it, or nothing) and *FormOwn* (without a pin, the URL field holds the user's own) |
| | `DeploymentDecides` | `DeployDecides` | by case on `deploy` at the one step that sets a target; a lemma on where the page and its server derive the same endpoint from a pin |
| | `SavingIsEntering` | `SavedAsEntered` | *Fields*: what each field of the open dialog holds, given what was entered and which answers are still out. The URL's, the speaker's and the transport's part differ, as the code fills them differently |
| | `LiveCallIsCurrent` | `CallHasSettings` | *Current*: the same from the moment the client is made, up to what the call has missed |
| | `SnapshotsFit` | `SnapshotFits` | for every length of the ladder, from *Carried*: `activeTransport` is that of the call beside which no other was started |

The assumptions on constants are named where the constants are declared
(`TtsAssumption`, `ClientAssumption`, ...) and evaluated by TLC in every run.

*Only model-checked:* everything about liveness (`EveryResponseEnds`,
`ConnectSettles`, `ExpiredCallIsCut`, `ReservationsSettle`, `LineMoves`, `ScriptsEnd`,
`EveryCallAnswered`), which the prover does not reach, and of the safety properties
`PageTellsTruth` and `MicOnlyInCall`. Every other safety property that a passing run
checks is the subject of a theorem.

## 5. Findings

1. **TTS pool exhaustion** (`tts/app/model.py:86`). A request that waits for the
   model's lock keeps its worker thread, while the owner of the lock needs a
   thread for its next chunk. Once as many requests wait as there are threads,
   nothing moves again. With no more requests than threads it cannot happen
   (`NoCircularWait`); the framework's default pool has 40.
2. **A stale heartbeat cuts the next call** (`demo/main.js:1638`). A heartbeat in
   flight while its session is ended is answered `expired`; the reply tears down
   whatever call is current and shows the daily limit.
3. **A camera nobody can stop** (`demo/main.js:792`). Granting the prompt of the
   page-load request runs the permission listener before the request resolves;
   the listener asks for a second stream and the first is lost, still capturing.
   In any browser the camera's switch, flipped off and on during that prompt, makes
   the second request too (`main.js:692-715, 740-746`). Nothing else loses a
   stream: it takes requests that overlap (`OneCamera`, `OnlyOverlapsLeak`).
4. **A second `cluster-stop.sh` forgets the replica counts**
   (`scripts/cluster-stop.sh:70`): they are overwritten with 0.
5. **Two conversations at once** (`demo/main.js:1740`). The buttons stay enabled while
   a teardown awaits `close()`. After a connection error the page shows the error at
   once, and a tap starts the next conversation; when the teardown goes on, it drops
   that conversation's client without closing it (1744) and shows an error over it. The
   next tap starts another one beside it, although a restart is refused because "a
   connect is already underway" (1209).

The models show more disagreements between code and comments that have no run
of their own:

- A tap or a restart during any other teardown's `close()` has the same effect on what
  is shown: the teardown goes on in the state of the next conversation
  (`main.js:1738-1745`). `Heeded` in `PageTellsTruth` and `MicOnlyInCall` marks the runs in
  which it happened, and those of finding 2; `NoForgottenSession`, `NoPhantomPlace` and
  `ConversationSpec` are checked and proved through both.
- A limit that cuts a call while its microphone is being acquired leaves the
  recording indicator on (`main.js:1419`), hence `~spent` and `reaped = {}` in
  `MicOnlyInCall`.
- A page that was suspended or offline for so long that the sweeper gave up its
  reservation is told `expired` and shows the daily limit, whatever is left of the
  budget (`main.js:1638`), against "when it reports the daily budget is spent"
  (`main.js:1623-1624`) and "A transient network blip shouldn't kill the call"
  (`main.js:1640`). Hence the second half of `LimitTellsTruth`.
- A permission granted in the browser turns the camera tool back on that the
  user had turned off (`main.js:791`), against "an explicit saved `false` is
  respected" (`main.js:195`); the listener also asks for the camera, against "We
  never call getUserMedia on page load" (`main.js:192-194`).
- The camera switched off while its prompt is open captures once the prompt is
  granted, with the tool off: `disableCamera` finds no stream to stop, and
  `enableCamera` does not look at the switch again (`main.js:742-753`). `CameraFollowsTool`
  excepts the requests that were switched off under way (`crossed`).
- A tool that goes off while the session connects is still offered to the model
  (`main.js:398, 1509`), until the next change of a tool; `missed` in `OffersUsableSearch`
  says so.
- A grant of the load balancer without a `session_id` is passed to the page and
  metered by nobody (`server.py:587`, `main.js:1599`): its budget is never
  charged and it is never cut. Hence `nameless` in `GrantIsMetered`.
- `ToolMaxResults` is a default rather than a cap (`mcpserver.go:41` against
  `config.go:29-30`).
- A search backend that *hangs* takes speech-mcp out of its Service: the
  readiness route waits 2 s for it, the probe 1 s (`health.go:31`,
  `k8s/speech-mcp/deployment.yaml:51-56`), against `health.go:13-15`. This is why
  `ReadyWithoutSearch` excepts it.
- A `kubectl` that fails in `mapfile < <(...)` leaves an empty list of Deployments
  and ends nothing, `set -e` or not: `cluster-stop.sh` scales nothing, drains and
  powers off under running pods (`cluster-stop.sh:63-66`), against "every
  Deployment [...] is scaled to 0 FIRST, and we wait for those pods" (5-6).
- `cluster-stop.sh` cut short between its Deployments (`cluster-stop.sh:67-73`, by an
  error under `set -euo pipefail` or Ctrl-C) leaves the rest without an annotation, or
  with that of an earlier stop; the next start restores those to 1, or to the old
  count (`cluster-start.sh:71-82`). An annotation that cannot be read counts as none
  (`|| true`, 71), and an unread list restores nothing. `RestoresWhatRan` names these
  three.
- After a power cut `cluster-start.sh` scales up Deployments the operator had at 0,
  and does not hold GPU Deployments at 0 (`cluster-start.sh:3-13, 72-82`).
- A remote server pinned by a bare host name is dialled over `wss` by the page
  and over plain `http` by the server (`main.js:1050-1051`, `server.py:140-141`),
  against "mirroring the client's buildDirectWsUrl normalisation"
  (`server.py:138`). `DeployDecides` says where the two agree, and a pin on which
  they do not is in the run.
- A search key typed back while the saved switch is on makes the tool active and
  leaves the switch unchecked until the panel is drawn again, and a live conversation
  is not told (`main.js:387, 717-736`); hence `OffersUsableSearch` says "only", not "whenever".

What an *impatient* user of Settings meets; no comment promises otherwise.
`SavedAsEntered` is about the patient one, `CallHasSettings` excepts what `missed`
names, and `DeployDecides` covers the early tap:

- A tap before `/api/config` has answered dials the user's own saved URL,
  whatever the deployment pins or balances (fail open, `main.js:348-351`).
- Its answer rewrites a URL that is being typed (`main.js:1014, 1146`).
- Save and Restart before the first list of devices has come find empty selects
  and overwrite the saved devices with the default (`main.js:1093-1094`).
- A device plugged in resets a choice not yet saved; a choice that was cancelled
  comes back with the next list if "System default" is saved (`main.js:1373`).
- A change of the gate, the speaker or the tools while a conversation connects or
  waits in line is stored and never reaches it (`main.js:398, 594, 1185`).
- A Restart refused for a missing URL during a live call has already stored the
  new settings, of which the call learns nothing (`main.js:1210-1212`).
- Two tabs share localStorage, and the last one to save writes all its settings
  over the other's (`main.js:177-185`).

## 6. Not modelled, and why

- STT: an async handler that blocks its event loop serves one request at a time
  by construction (`stt/app/main.py:72`). What that does to the kubelet's probes (10 s
  readiness, 20 s liveness, three misses) depends on the length of a transcription,
  which nothing in the source bounds; it is in the plan.
- Chat view, account chip, drawing, level meter: text and styles, with their logic in
  modules that are not in the repository. `/api/me` is a read; `/api/calls` passes one
  offer through (the page's side of it is `connect()` in `VoiceClient`).
- Login, limiter store, load balancer, gateway, LLM, SearXNG: their source is not
  here; the models contain what this repository's code relies on.
- Build, install and deploy scripts: linear and idempotent. Of the cluster scripts,
  the etcd snapshot (it changes nothing else), and two scripts run at once.
- Muting and unmuting a call: a flag on the tracks and the client; no property depends on it.
- Audio, text and wire formats: no property depends on them.

## 7. Plan

Order of work, most important behaviour first; steps 1 to 9 are done.

1. `SpeechTts` with the abstract `SerialSynthesis`; proofs.
2. `VoiceClient`; proofs of its properties.
3. `SessionServer`; proofs of its accounting.
4. `ClusterPower`.
5. `CameraTools`.
6. `ToolCall`; proofs of caps and timeouts.
7. `PageSettings`; proofs of all its properties.
8. The abstract `Conversation`, which the page refines; proofs of the
   refinement and of the rest of `VoiceClient`'s properties.
9. Proofs of `ClusterPower`, `CameraTools` and the readiness of `ToolCall`.
10. `VoiceClient` composed with `SessionServer`. Requests, grants and farewells are on
   the wire in `VoiceClient` already; what is left is the budget, slots and line
   that several pages share, in place of the free choices of `Grant` and `Enqueue`.
11. `SpeechStt`: transcription, the blocked event loop and the probe's misses.
