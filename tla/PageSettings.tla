---------------------------- MODULE PageSettings ----------------------------
(***************************************************************************)
(* The settings of the demo page (demo/main.js): what the browser stores,  *)
(* the Settings dialog that edits it, what /api/config says of the         *)
(* deployment (demo/server.py), and what a conversation makes of the three:*)
(* the server it reaches, its transport, its speaker, gate and snapshots.  *)
(*                                                                         *)
(* `settings` and localStorage change together, before the handler that    *)
(* changes them yields: the variable stored stands for both.  The dialog's *)
(* fields are filled from them and by two answers that come when they come:*)
(* /api/config and the browser's list of audio devices.  Voice and prompt  *)
(* go the way of the speaker; the microphone too, but is never pushed.     *)
(***************************************************************************)
EXTENDS Integers

CONSTANTS
  Urls,      \* server addresses a user types
  Pins,      \* those a deployment pins (SPEECH_TO_SPEECH_URL)
  NoUrl,     \* the empty address
  Session,   \* the session proxy, as a target
  Devices,   \* speakers beside the system's default
  Default,   \* "System default"
  Untouched, \* a field left alone; a key that was never stored
  Angles,    \* where the gate's arc is touched, in degrees
  Rungs      \* length of SNAPSHOT_LADDER

Schemes == {"bare", "http", "https", "ws", "wss"}
Address == [scheme : Schemes, host : {"localhost", "remote"}, path : {"none", "given"}]
Endpoint == [tls : BOOLEAN, host : {"localhost", "remote"}, path : {"realtime", "given"}]

ASSUME SettingsAssumption ==
  /\ Urls \subseteq Address /\ Pins \subseteq Address
  /\ NoUrl \notin Address /\ Untouched \notin Address \cup {NoUrl} \cup Int
  /\ Session \notin Endpoint /\ NoUrl \notin Endpoint
  /\ Default \notin Devices /\ Untouched \notin Devices \cup {Default}
  /\ Angles \subseteq 0..359
  /\ Rungs \in Nat \ {0}

VARIABLES
  patient,  \* the user lets the page settle (see Calmly)
  deploy,   \* the server's LOAD_BALANCER_URL and SPEECH_TO_SPEECH_URL
  config,   \* what the page knows of them
  stored,   \* localStorage, and `settings`
  open,     \* the Settings dialog
  form,     \* its fields
  listing,  \* enumerateDevices is under way
  options,  \* the speakers the list offers
  draft,    \* what the user entered since the dialog was opened (history)
  call,     \* the conversation
  active    \* activeTransport, which every doStart sets

vars == <<patient, deploy, config, stored, open, form, listing, options, draft, call, active>>

GATE_OFF_DB == -66
GATE_MAX_DB == -3
GATE_DEFAULT_DB == -50

Transports == {"ws", "webrtc"}
Deploys == [lb : BOOLEAN, pin : Pins \cup {NoUrl}]
Speakers == Devices \cup {Default}
Settings == [url : Urls \cup {NoUrl}, transport : Transports,
             gate : GATE_OFF_DB..GATE_MAX_DB, device : Speakers]

----------------------------------------------------------------------------
\* Addresses

\* A bare local host is dialled in clear, any other bare host over TLS.
BuildDirectWsUrl(url) ==
  [tls  |-> url.scheme \in {"https", "wss"} \/ (url.scheme = "bare" /\ url.host # "localhost"),
   host |-> url.host,
   path |-> IF url.path = "none" THEN "realtime" ELSE url.path]

\* The server's: where it forwards a WebRTC offer ("/calls" goes behind it).
WebrtcCallsUrl(url) ==
  [tls  |-> url.scheme \in {"https", "wss"},
   host |-> url.host,
   path |-> IF url.path = "none" THEN "realtime" ELSE url.path]

----------------------------------------------------------------------------
\* The noise gate, in dB

Clamp(db) == IF db < GATE_OFF_DB THEN GATE_OFF_DB
             ELSE IF db > GATE_MAX_DB THEN GATE_MAX_DB ELSE db

\* An angle of the arc, which spans 80..280 degrees; Math.round rounds up halves.
PointerToDb(deg) == Clamp(GATE_OFF_DB + (2 * (GATE_MAX_DB - GATE_OFF_DB) * (deg - 80) + 200) \div 400)

----------------------------------------------------------------------------
\* What is stored

\* Mutant: the stored transport is taken as it is.
LoadTransportAsIs(raw) == raw

LoadTransport(raw) == IF raw = "webrtc" THEN "webrtc" ELSE "ws"

\* A gate that was never stored is not 0 dB.
LoadGate(raw) == IF raw = Untouched THEN GATE_DEFAULT_DB ELSE Clamp(raw)

settings == [stored EXCEPT !.transport = LoadTransport(@), !.gate = LoadGate(@)]

----------------------------------------------------------------------------
\* What the page knows of the deployment

\* GET /api/config: a pinned URL overrides the load balancer.
Config(env) ==
  [known |-> "yes", allowDirect |-> env.pin # NoUrl \/ ~env.lb,
   pin |-> env.pin, rtc |-> env.pin # NoUrl]

\* Fail open.
Unknown(known) == [known |-> known, allowDirect |-> TRUE, pin |-> NoUrl, rtc |-> FALSE]

TransportSelectable(cfg) == cfg.allowDirect /\ cfg.pin # NoUrl /\ cfg.rtc

EffectiveTransport(mine) ==
  IF TransportSelectable(config) /\ mine.transport = "webrtc" THEN "webrtc" ELSE "ws"

MissingServerUrl(url) == config.allowDirect /\ config.pin = NoUrl /\ url = NoUrl

----------------------------------------------------------------------------
\* A conversation.  From knew on all but device and gate is history: the configuration
\* was known when it was dialled; settings that were saved while it connected or by a
\* Restart that could not dial; another was started beside it; its last snapshot was
\* too large for a message and a smaller one was not.
NoCall == [phase |-> "none", transport |-> "ws", target |-> NoUrl, knew |-> FALSE,
           device |-> Default, gate |-> GATE_OFF_DB, missed |-> {},
           overrun |-> FALSE, oversized |-> FALSE]

Phases == {"none", "closing", "priming", "connecting", "live"}

Configs == [known : {"not yet", "yes", "no"}, allowDirect : BOOLEAN,
            pin : Pins \cup {NoUrl}, rtc : BOOLEAN]
Forms == [url : Urls \cup Pins \cup {NoUrl}, transport : Transports, device : Speakers]
Drafts == [url : Urls \cup {NoUrl, Untouched}, device : Speakers \cup {Untouched}]
Conversations ==
  [phase : Phases, transport : Transports, target : Endpoint \cup {Session, NoUrl},
   knew : BOOLEAN, device : Speakers, gate : GATE_OFF_DB..GATE_MAX_DB,
   missed : SUBSET {"device", "gate"}, overrun : BOOLEAN, oversized : BOOLEAN]

TypeOK ==
  /\ patient \in BOOLEAN
  /\ deploy \in Deploys
  /\ config \in Configs
  /\ settings \in Settings
  /\ open \in BOOLEAN
  /\ form \in Forms
  /\ listing \in BOOLEAN
  /\ options \subseteq Speakers
  /\ draft \in Drafts
  /\ call \in Conversations
  /\ active \in Transports

NoDraft == [url |-> Untouched, device |-> Untouched]

BlankForm == [url |-> NoUrl, transport |-> "ws", device |-> Default]

Init ==
  /\ patient \in BOOLEAN
  /\ deploy \in Deploys
  /\ config = Unknown("not yet")
  /\ stored \in [url : Urls \cup {NoUrl}, transport : Transports \cup {Untouched},
                 gate : {Untouched} \cup {PointerToDb(deg) : deg \in Angles},
                 device : Speakers]
  /\ open = FALSE
  /\ form = BlankForm
  /\ listing = FALSE
  /\ options = {}
  /\ draft = NoDraft
  /\ call = NoCall
  /\ active = "ws"

\* A reload, of a page that may be served by another deployment by now.
Load ==
  /\ deploy' \in Deploys
  /\ config' = Unknown("not yet")
  /\ open' = FALSE
  /\ form' = BlankForm
  /\ listing' = FALSE
  /\ options' = {}
  /\ draft' = NoDraft
  /\ call' = NoCall
  /\ active' = "ws"
  /\ UNCHANGED <<patient, stored>>

\* A patient user lets the dialog settle before entering or saving anything, saves
\* what was entered before devices come and go, and leaves the server's address in
\* while a conversation is live.
Calmly(settled) == patient => settled

----------------------------------------------------------------------------
\* The dialog's fields

\* syncConnectionUi and syncTransportUi.  The hidden URL of balanced mode stays.
Synced(cfg, mine, fields) ==
  [fields EXCEPT
     !.url = IF cfg.pin # NoUrl THEN cfg.pin
             ELSE IF cfg.allowDirect THEN mine.url ELSE @,
     !.transport = IF TransportSelectable(cfg) THEN mine.transport ELSE "ws"]

\* Mutant: the answer leaves the dialog as it is.
FetchConfigUnsynced ==
  /\ config.known = "not yet"
  /\ Calmly(draft.url = Untouched)
  /\ config' \in {Config(deploy), Unknown("no")}
  /\ UNCHANGED <<patient, deploy, stored, open, form, listing, options, draft, call, active>>

\* The answer to /api/config, or that there is none.
FetchConfig ==
  /\ config.known = "not yet"
  /\ Calmly(draft.url = Untouched)
  /\ config' \in {Config(deploy), Unknown("no")}
  /\ form' = Synced(config', settings, form)
  /\ UNCHANGED <<patient, deploy, stored, open, listing, options, draft, call, active>>

\* A saved device stays selected even when it is not listed.
FillDeviceSelect(listed) ==
  LET wanted == IF settings.device # Default THEN settings.device ELSE form.device
  IN  /\ options' = listed \cup {Default, wanted}
      /\ form' = [form EXCEPT !.device = wanted]

\* enumerateDevices answers, or fails and lists nothing.  Bound: lists that are
\* asked for together are answered together.
ListDevices ==
  /\ listing
  /\ listing' = FALSE
  /\ \E listed \in SUBSET Devices : FillDeviceSelect(listed)
  /\ UNCHANGED <<patient, deploy, config, stored, open, draft, call, active>>

DeviceChange ==
  /\ open
  /\ Calmly(draft.device = Untouched)
  /\ listing' = TRUE
  /\ UNCHANGED <<patient, deploy, config, stored, open, form, options, draft, call, active>>

----------------------------------------------------------------------------
\* The dialog

Opened == open' = TRUE /\ listing' = TRUE /\ form' = Synced(config, settings, form) /\ draft' = NoDraft

OpenSettings ==
  /\ ~open
  /\ Opened
  /\ UNCHANGED <<patient, deploy, config, stored, options, call, active>>

\* The URL can be edited only in free direct mode.
TypeUrl ==
  /\ open /\ config.allowDirect /\ config.pin = NoUrl
  /\ Calmly(config.known # "not yet")
  /\ \E url \in Urls \cup {NoUrl} :
       form' = [form EXCEPT !.url = url] /\ draft' = [draft EXCEPT !.url = url]
  /\ UNCHANGED <<patient, deploy, config, stored, open, listing, options, call, active>>

PickDevice ==
  /\ open
  /\ Calmly(~listing)
  /\ \E device \in options :
       form' = [form EXCEPT !.device = device] /\ draft' = [draft EXCEPT !.device = device]
  /\ UNCHANGED <<patient, deploy, config, stored, open, listing, options, call, active>>

\* Applies to the next conversation, and is stored at once.
PickTransport(transport) ==
  /\ open
  /\ TransportSelectable(config)
  /\ stored' = [stored EXCEPT !.transport = transport]
  /\ form' = [form EXCEPT !.transport = transport]
  /\ UNCHANGED <<patient, deploy, config, open, listing, options, draft, call, active>>

\* A change is pushed to `client`: to this call once it is live, unless another was
\* made beside it.
Pushed(setting, value) ==
  LET told == CASE call.phase = "live" ->
                     [call EXCEPT ![setting] = value, !.missed = @ \ {setting}]
                [] call.phase = "connecting" -> [call EXCEPT !.missed = @ \cup {setting}]
                [] OTHER -> call
  IN  call' \in IF call.overrun THEN {told, call} ELSE {told}

\* Mutant: the gate is stored and shown, but the call keeps the old one.
SetGateThresholdUnpushed(db) ==
  /\ stored' = [stored EXCEPT !.gate = db]
  /\ UNCHANGED <<patient, deploy, config, open, form, listing, options, draft, call, active>>

\* The slider and the arc: stored at once.
SetGateThreshold(db) ==
  /\ stored' = [stored EXCEPT !.gate = db]
  /\ Pushed("gate", db)
  /\ UNCHANGED <<patient, deploy, config, open, form, listing, options, draft, active>>

ReadSettingsFromForm ==
  [settings EXCEPT
     !.url = IF config.allowDirect /\ config.pin = NoUrl THEN form.url ELSE @,
     !.transport = IF TransportSelectable(config) THEN form.transport ELSE @,
     !.device = form.device]

CanSave == open /\ Calmly(~listing)

Save ==
  /\ CanSave
  /\ stored' = ReadSettingsFromForm
  /\ Pushed("device", stored'.device)
  /\ open' = FALSE
  /\ draft' = NoDraft
  /\ UNCHANGED <<patient, deploy, config, form, listing, options, active>>

\* Any other way to close it.
Cancel ==
  /\ open
  /\ Calmly(~listing /\ draft.device = Untouched)
  /\ open' = FALSE
  /\ draft' = NoDraft
  /\ UNCHANGED <<patient, deploy, config, stored, form, listing, options, call, active>>

----------------------------------------------------------------------------
\* The conversation

\* Mutant: the user's own URL goes first.
ConnectionTargetOwn(mine) ==
  IF ~config.allowDirect THEN Session
  ELSE BuildDirectWsUrl(IF mine.url # NoUrl THEN mine.url ELSE config.pin)

ConnectionTarget(mine) ==
  IF ~config.allowDirect THEN Session
  ELSE BuildDirectWsUrl(IF config.pin # NoUrl THEN config.pin ELSE mine.url)

\* over WebRTC the page's server has the target
Dialled(mine) ==
  [NoCall EXCEPT
     !.phase = "priming",
     !.transport = EffectiveTransport(mine),
     !.target = IF EffectiveTransport(mine) = "webrtc" THEN WebrtcCallsUrl(deploy.pin)
                ELSE ConnectionTarget(mine),
     !.knew = config.known = "yes"]

\* doStart up to its first await
Dials(mine) ==
  /\ call' = Dialled(mine)
  /\ active' = EffectiveTransport(mine)

\* Points at the empty field, in a dialog that is open already (by a Restart, which
\* saved what was entered) or that it opens.
PromptServerUrl ==
  IF open
    THEN /\ form' = Synced(config, settings', form) /\ draft' = NoDraft
         /\ UNCHANGED <<open, listing>>
    ELSE Opened

\* The orb, beside which the dialog is closed.
TapCircle ==
  /\ ~open
  /\ call.phase = "none"
  /\ IF MissingServerUrl(settings.url)
       THEN PromptServerUrl /\ UNCHANGED <<call, active>>
       ELSE Dials(settings) /\ UNCHANGED <<open, listing, form, draft>>
  /\ UNCHANGED <<patient, deploy, config, stored, options>>

\* Without a URL the dialog stays open, and a live call is not told what was saved;
\* without a call there is nothing to await.
Restart ==
  /\ CanSave
  /\ call.phase \in {"none", "live"}
  /\ stored' = ReadSettingsFromForm
  /\ Calmly(call.phase = "live" => ~MissingServerUrl(stored'.url))
  /\ IF MissingServerUrl(stored'.url)
       THEN /\ PromptServerUrl
            /\ call' = IF call.phase = "live" THEN [call EXCEPT !.missed = @ \cup {"device"}]
                        ELSE call
            /\ UNCHANGED active
       ELSE /\ IF call.phase = "live"
                 THEN call' = [call EXCEPT !.phase = "closing"] /\ UNCHANGED active
                 ELSE Dials(stored')
            /\ open' = FALSE /\ draft' = NoDraft
            /\ UNCHANGED <<form, listing>>
  /\ UNCHANGED <<patient, deploy, config, options>>

\* After the teardown, during which further taps are VoiceClient's matter; doStart
\* throws without a URL.
RestartDials ==
  /\ call.phase = "closing"
  /\ IF MissingServerUrl(settings.url) THEN call' = NoCall /\ UNCHANGED active
     ELSE Dials(settings)
  /\ UNCHANGED <<patient, deploy, config, stored, open, form, listing, options, draft>>

\* Another conversation is started beside this one (VoiceClient tells how).
DialAgain ==
  /\ call.phase \in {"priming", "connecting", "live"}
  /\ ~MissingServerUrl(settings.url)
  /\ active' = EffectiveTransport(settings)
  /\ call' = [call EXCEPT !.overrun = TRUE]
  /\ UNCHANGED <<patient, deploy, config, stored, open, form, listing, options, draft>>

\* The microphone's prompt is answered: what the client is made with.
Primed ==
  /\ call.phase = "priming"
  /\ call' = [call EXCEPT !.phase = "connecting", !.device = settings.device,
                         !.gate = settings.gate]
  /\ UNCHANGED <<patient, deploy, config, stored, open, form, listing, options, draft, active>>

GoLive ==
  /\ call.phase = "connecting"
  /\ call' = [call EXCEPT !.phase = "live"]
  /\ UNCHANGED <<patient, deploy, config, stored, open, form, listing, options, draft, active>>

CallEnds ==
  /\ call.phase \in {"priming", "connecting", "live"}
  /\ call' = NoCall
  /\ UNCHANGED <<patient, deploy, config, stored, open, form, listing, options, draft, active>>

\* Mutant: the ladder is walked for the transport of the next call.
CaptureSnapshotNext(fits, rung) ==
  IF EffectiveTransport(settings) # "webrtc" THEN rung = 1
  ELSE (\A larger \in 1..(rung - 1) : larger \notin fits) /\ (rung \in fits \/ rung = Rungs)

\* The rung of the ladder that is sent, of those that would fit a message: over
\* WebRTC the first that does, or the last.
CaptureSnapshot(fits, rung) ==
  IF active # "webrtc" THEN rung = 1
  ELSE (\A larger \in 1..(rung - 1) : larger \notin fits) /\ (rung \in fits \/ rung = Rungs)

Snapshot(fits, rung) ==
  /\ call.phase = "live"
  /\ CaptureSnapshot(fits, rung)
  /\ call' = [call EXCEPT !.oversized = rung \notin fits /\ fits # {}]
  /\ UNCHANGED <<patient, deploy, config, stored, open, form, listing, options, draft, active>>

Next ==
  \/ Load \/ FetchConfig \/ ListDevices \/ DeviceChange
  \/ OpenSettings \/ TypeUrl \/ PickDevice \/ Save \/ Cancel
  \/ \E transport \in Transports : PickTransport(transport)
  \/ \E deg \in Angles : SetGateThreshold(PointerToDb(deg))
  \/ TapCircle \/ Restart \/ RestartDials \/ DialAgain
  \/ Primed \/ GoLive \/ CallEnds
  \/ \E fits \in SUBSET (1..Rungs), rung \in 1..Rungs : Snapshot(fits, rung)

Spec == Init /\ [][Next]_vars

----------------------------------------------------------------------------
\* Properties

\* Saving is what the user did: a setting changes only to what was entered for
\* it, and what a patient user entered is saved.  "The user's saved URL survives either
\* way", "a saved webrtc survives a visit to a deploy that can't offer it", and
\* so does a device that is not plugged in (main.js:1077-1081, 1385).
SavedAsEntered ==
  [][patient =>
       /\ \A f \in {"url", "device"} :
            settings'[f] # settings[f] => settings'[f] = draft[f]
       /\ \A f \in {"url", "device"} :
            (Save \/ Restart) /\ draft[f] # Untouched => settings'[f] = draft[f]
       /\ settings'.transport # settings.transport =>
            \E transport \in Transports : PickTransport(transport)]_vars

\* The deployment decides where a conversation goes, once the page knows it:
\* through the session proxy, or to the pinned server, or to the user's own over
\* WebSocket (main.js:339-346).  Page and server read a pinned address alike, so that
\* it is the same endpoint whatever the transport, unless it is a bare remote one: the
\* page dials that over TLS and the server in clear (main.js:1050, server.py:140).
\* Before the page knows, it goes nowhere but to the user's own.
DeployDecides ==
  call.phase # "none" =>
    CASE ~call.knew \/ (deploy.pin = NoUrl /\ ~deploy.lb) ->
           /\ call.target \in {BuildDirectWsUrl(url) : url \in Urls}
           /\ call.transport = "ws"
      [] call.knew /\ deploy.pin # NoUrl ->
           \/ call.target = BuildDirectWsUrl(deploy.pin)
           \/ /\ call.transport = "webrtc" /\ call.target = WebrtcCallsUrl(deploy.pin)
              /\ deploy.pin.scheme = "bare" /\ deploy.pin.host = "remote"
      [] OTHER -> call.target = Session /\ call.transport = "ws"

\* A live conversation has the speaker and the gate that Settings shows, whether they
\* were changed before or during it (main.js:584-585, 1181-1184).  What is saved while
\* it connects, or by a Restart without an address, it misses until the next change.
CallHasSettings ==
  call.phase = "live" /\ ~call.overrun =>
    /\ "device" \notin call.missed => call.device = settings.device
    /\ "gate" \notin call.missed /\ call.transport = "ws" => call.gate = settings.gate

\* A snapshot fits its conversation's data channel, if any rung of the ladder
\* does, whatever transport the next conversation will use (main.js:134-140,
\* 364-366), until that is started beside it.
SnapshotFits ==
  call.transport = "webrtc" /\ ~call.overrun => ~call.oversized

=============================================================================
