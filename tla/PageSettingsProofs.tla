------------------------- MODULE PageSettingsProofs -------------------------
(***************************************************************************)
(* What the page's settings keep for every set of addresses, devices and   *)
(* angles and every length of the snapshot ladder.                         *)
(***************************************************************************)
EXTENDS PageSettings, TLAPS

\* The page and its server derive the same endpoint from a pinned address
\* (main.js:1043-1061, server.py:133-145), unless it is a bare remote one.
LEMMA SameEndpoint ==
  ASSUME NEW pin \in Pins, pin.scheme # "bare" \/ pin.host # "remote"
  PROVE  WebrtcCallsUrl(pin) = BuildDirectWsUrl(pin)
BY SettingsAssumption DEF WebrtcCallsUrl, BuildDirectWsUrl, Address

LEMMA CallsIsEndpoint ==
  ASSUME NEW pin \in Pins
  PROVE  WebrtcCallsUrl(pin) \in Endpoint
BY SettingsAssumption DEF WebrtcCallsUrl, Endpoint, Address

LEMMA DirectIsEndpoint ==
  ASSUME NEW url \in Urls \cup Pins
  PROVE  BuildDirectWsUrl(url) \in Endpoint
BY SettingsAssumption DEF BuildDirectWsUrl, Endpoint, Address

----------------------------------------------------------------------------
\* The gate's scale

GateRange == GATE_OFF_DB..GATE_MAX_DB

LEMMA ClampInRange ==
  ASSUME NEW db \in Int
  PROVE  /\ Clamp(db) \in GateRange
         /\ db \in GateRange => Clamp(db) = db
BY DEF Clamp, GateRange, GATE_OFF_DB, GATE_MAX_DB

LEMMA PointerInRange ==
  ASSUME NEW deg \in Angles
  PROVE  PointerToDb(deg) \in GateRange
<1>1. deg \in Int
  BY SettingsAssumption
<1>2. GATE_OFF_DB + (2 * (GATE_MAX_DB - GATE_OFF_DB) * (deg - 80) + 200) \div 400 \in Int
  BY <1>1 DEF GATE_OFF_DB, GATE_MAX_DB
<1> QED
  BY <1>2, ClampInRange DEF PointerToDb

----------------------------------------------------------------------------
\* What is stored: anything may be read back from a browser, only settings are
\* ever written.

StoredOK ==
  stored \in [url : Urls \cup {NoUrl}, transport : Transports \cup {Untouched},
              gate : {Untouched} \cup GateRange, device : Speakers]

LEMMA LoadedSettings == StoredOK => settings \in Settings
<1> SUFFICES ASSUME StoredOK
             PROVE  settings \in Settings
  OBVIOUS
<1>1. LoadTransport(stored.transport) \in Transports
  BY DEF LoadTransport, Transports
<1>2. LoadGate(stored.gate) \in GateRange
  <2>1. GATE_DEFAULT_DB \in GateRange
    BY DEF GATE_DEFAULT_DB, GATE_OFF_DB, GATE_MAX_DB, GateRange
  <2>2. stored.gate # Untouched => stored.gate \in GateRange /\ stored.gate \in Int
    BY DEF StoredOK, GateRange, GATE_OFF_DB, GATE_MAX_DB
  <2> QED
    BY <2>1, <2>2, ClampInRange DEF LoadGate
<1> QED
  BY <1>1, <1>2 DEF StoredOK, settings, Settings, GateRange

\* What was saved is what is loaded.
LEMMA SavedSettings ==
  ASSUME NEW s \in Settings, stored' = s
  PROVE  settings' = s /\ StoredOK'
<1>1. LoadTransport(s.transport) = s.transport
  BY DEF Settings, LoadTransport, Transports
<1>2. LoadGate(s.gate) = s.gate
  <2>1. s.gate \in GateRange /\ s.gate \in Int
    BY DEF Settings, GateRange, GATE_OFF_DB, GATE_MAX_DB
  <2>2. s.gate # Untouched
    BY <2>1, SettingsAssumption
  <2> QED
    BY <2>1, <2>2, ClampInRange DEF LoadGate
<1>3. settings' = [s EXCEPT !.transport = LoadTransport(s.transport), !.gate = LoadGate(s.gate)]
  BY DEF settings, Settings
<1>4. settings' = s
  BY <1>1, <1>2, <1>3 DEF Settings
<1> QED
  BY <1>4 DEF StoredOK, Settings, GateRange

\* A field that is written alone leaves the other settings as they were loaded.
LEMMA SavedTransport ==
  ASSUME StoredOK, NEW t \in Transports, stored' = [stored EXCEPT !.transport = t]
  PROVE  settings' = [settings EXCEPT !.transport = t] /\ StoredOK'
<1>1. LoadTransport(t) = t
  BY DEF LoadTransport, Transports
<1>2. settings' = [stored' EXCEPT !.transport = LoadTransport(t), !.gate = LoadGate(stored.gate)]
  BY DEF settings, StoredOK
<1> QED
  BY <1>1, <1>2 DEF settings, StoredOK

LEMMA SavedGate ==
  ASSUME StoredOK, NEW db \in GateRange, stored' = [stored EXCEPT !.gate = db]
  PROVE  settings' = [settings EXCEPT !.gate = db] /\ StoredOK'
<1>1. LoadGate(db) = db
  <2>1. db \in Int
    BY DEF GateRange, GATE_OFF_DB, GATE_MAX_DB
  <2>2. db # Untouched
    BY <2>1, SettingsAssumption
  <2> QED
    BY <2>1, <2>2, ClampInRange DEF LoadGate
<1>2. settings' = [stored' EXCEPT !.transport = LoadTransport(stored.transport), !.gate = LoadGate(db)]
  BY DEF settings, StoredOK
<1> QED
  BY <1>1, <1>2 DEF settings, StoredOK

----------------------------------------------------------------------------
\* Type correctness: with the types, the page knows what the server told it or
\* nothing, and without a pin the URL field holds the user's own.

ConfigTrue ==
  config = IF config.known = "yes" THEN Config(deploy) ELSE Unknown(config.known)

FormOwn == config.pin = NoUrl => form.url \in Urls \cup {NoUrl}

Typed == TypeOK /\ StoredOK /\ ConfigTrue /\ FormOwn

LEMMA SyncedForm ==
  ASSUME NEW cfg \in Configs, NEW mine \in Settings, NEW fields \in Forms,
         cfg.pin = NoUrl => fields.url \in Urls \cup {NoUrl}
  PROVE  /\ Synced(cfg, mine, fields) \in Forms
         /\ cfg.pin = NoUrl => Synced(cfg, mine, fields).url \in Urls \cup {NoUrl}
         /\ Synced(cfg, mine, fields).device = fields.device
         /\ cfg.allowDirect /\ cfg.pin = NoUrl => Synced(cfg, mine, fields).url = mine.url
         /\ TransportSelectable(cfg) => Synced(cfg, mine, fields).transport = mine.transport
BY DEF Synced, Configs, Settings, Forms, Transports

LEMMA ReadSettings ==
  ASSUME Typed
  PROVE  ReadSettingsFromForm \in Settings
BY DEF Typed, TypeOK, FormOwn, ReadSettingsFromForm, Settings, Forms

LEMMA ConfigTyped ==
  ASSUME deploy \in Deploys
  PROVE  Config(deploy) \in Configs /\ Unknown("no") \in Configs /\ Unknown("not yet") \in Configs
BY DEF Deploys, Configs, Config, Unknown

\* Where a conversation goes: to what the deployment decided, if the page knew it.
GoesWhereDecided(c) ==
  CASE ~c.knew \/ (deploy.pin = NoUrl /\ ~deploy.lb) ->
         /\ c.target \in {BuildDirectWsUrl(url) : url \in Urls}
         /\ c.transport = "ws"
    [] c.knew /\ deploy.pin # NoUrl ->
         \/ c.target = BuildDirectWsUrl(deploy.pin)
         \/ /\ c.transport = "webrtc" /\ c.target = WebrtcCallsUrl(deploy.pin)
            /\ deploy.pin.scheme = "bare" /\ deploy.pin.host = "remote"
    [] OTHER -> c.target = Session /\ c.transport = "ws"

\* The three cases exclude one another.
LEMMA Decided ==
  ASSUME NEW c,
         ~c.knew \/ (deploy.pin = NoUrl /\ ~deploy.lb) =>
           c.target \in {BuildDirectWsUrl(url) : url \in Urls} /\ c.transport = "ws",
         c.knew /\ deploy.pin # NoUrl =>
           \/ c.target = BuildDirectWsUrl(deploy.pin)
           \/ /\ c.transport = "webrtc" /\ c.target = WebrtcCallsUrl(deploy.pin)
              /\ deploy.pin.scheme = "bare" /\ deploy.pin.host = "remote",
         c.knew /\ deploy.pin = NoUrl /\ deploy.lb => c.target = Session /\ c.transport = "ws"
  PROVE  GoesWhereDecided(c)
<1>1. CASE ~c.knew \/ (deploy.pin = NoUrl /\ ~deploy.lb)
  <2>1. ~(c.knew /\ deploy.pin # NoUrl)
    BY <1>1
  <2> QED
    BY <1>1, <2>1, Zenon DEF GoesWhereDecided
<1>2. CASE c.knew /\ deploy.pin # NoUrl
  <2>1. ~(~c.knew \/ (deploy.pin = NoUrl /\ ~deploy.lb))
    BY <1>2
  <2> QED
    BY <1>2, <2>1, Zenon DEF GoesWhereDecided
<1>3. CASE c.knew /\ deploy.pin = NoUrl /\ deploy.lb
  BY <1>3, Zenon DEF GoesWhereDecided
<1> QED
  BY <1>1, <1>2, <1>3

LEMMA NoCallTyped == NoCall \in Conversations /\ NoCall.phase = "none"
BY SettingsAssumption
   DEF NoCall, Conversations, Phases, Transports, Speakers, GATE_OFF_DB, GATE_MAX_DB

LEMMA DialledWell ==
  ASSUME Typed, NEW mine \in Settings, ~MissingServerUrl(mine.url)
  PROVE  Dialled(mine) \in Conversations /\ GoesWhereDecided(Dialled(mine))
<1>1. /\ deploy.pin \in Pins \cup {NoUrl} /\ deploy.lb \in BOOLEAN
      /\ config.pin \in Pins \cup {NoUrl} /\ mine.url \in Urls \cup {NoUrl}
  BY DEF Typed, TypeOK, Deploys, Configs, Settings
<1>2. config.known = "yes" => config = Config(deploy)
  BY DEF Typed, ConfigTrue
<1>3. config.known # "yes" => config = Unknown(config.known)
  BY DEF Typed, ConfigTrue
<1>4. EffectiveTransport(mine) = "webrtc" => deploy.pin \in Pins /\ config.known = "yes"
  BY <1>1, <1>2, <1>3 DEF EffectiveTransport, TransportSelectable, Config, Unknown
<1>5. EffectiveTransport(mine) \in Transports
  BY DEF EffectiveTransport, Transports
<1>6. ConnectionTarget(mine) \in Endpoint \cup {Session}
  BY <1>1, DirectIsEndpoint DEF ConnectionTarget, MissingServerUrl
<1>7. /\ Dialled(mine).knew = (config.known = "yes")
      /\ Dialled(mine).transport = EffectiveTransport(mine)
      /\ Dialled(mine).target = IF EffectiveTransport(mine) = "webrtc" THEN WebrtcCallsUrl(deploy.pin)
                                ELSE ConnectionTarget(mine)
  BY DEF Dialled, NoCall
<1>8. Dialled(mine) \in Conversations
  <2>1. Dialled(mine) = [NoCall EXCEPT !.phase = "priming", !.transport = EffectiveTransport(mine),
                                 !.target = Dialled(mine).target, !.knew = (config.known = "yes")]
    BY DEF Dialled, NoCall
  <2>2. Dialled(mine).target \in Endpoint \cup {Session}
    BY <1>4, <1>6, <1>7, CallsIsEndpoint
  <2> QED
    BY <1>5, <2>1, <2>2, NoCallTyped DEF Conversations, Phases
<1>9. ASSUME config.known # "yes" \/ (deploy.pin = NoUrl /\ ~deploy.lb)
      PROVE  /\ Dialled(mine).target \in {BuildDirectWsUrl(url) : url \in Urls}
             /\ Dialled(mine).transport = "ws"
  <2>1. config.allowDirect /\ config.pin = NoUrl
    <3>1. CASE config.known # "yes"
      BY <1>3, <3>1 DEF Unknown
    <3>2. CASE config.known = "yes" /\ deploy.pin = NoUrl /\ ~deploy.lb
      <4>1. config = Config(deploy)
        BY <1>2, <3>2
      <4> QED
        BY <3>2, <4>1 DEF Config
    <3> QED
      BY <1>9, <3>1, <3>2
  <2>2. EffectiveTransport(mine) = "ws"
    BY <2>1 DEF EffectiveTransport, TransportSelectable
  <2>3. mine.url \in Urls /\ ConnectionTarget(mine) = BuildDirectWsUrl(mine.url)
    BY <1>1, <2>1 DEF ConnectionTarget, MissingServerUrl
  <2> QED
    BY <1>7, <2>2, <2>3
<1>10. ASSUME config.known = "yes", deploy.pin # NoUrl
       PROVE  \/ Dialled(mine).target = BuildDirectWsUrl(deploy.pin)
              \/ /\ Dialled(mine).transport = "webrtc"
                 /\ Dialled(mine).target = WebrtcCallsUrl(deploy.pin)
                 /\ deploy.pin.scheme = "bare" /\ deploy.pin.host = "remote"
  <2>0. config = Config(deploy)
    BY <1>2, <1>10
  <2>1. ConnectionTarget(mine) = BuildDirectWsUrl(deploy.pin)
    BY <1>10, <2>0 DEF ConnectionTarget, Config
  <2>2. CASE EffectiveTransport(mine) = "webrtc"
    BY <1>1, <1>7, <1>10, <2>2, SameEndpoint
  <2>3. CASE EffectiveTransport(mine) # "webrtc"
    BY <1>7, <2>1, <2>3
  <2> QED
    BY <2>2, <2>3
<1>11. ASSUME config.known = "yes", deploy.pin = NoUrl, deploy.lb
       PROVE  Dialled(mine).target = Session /\ Dialled(mine).transport = "ws"
  <2>0. config = Config(deploy)
    BY <1>2, <1>11
  <2>1. config.pin = NoUrl /\ ~config.allowDirect
    BY <1>11, <2>0 DEF Config
  <2> QED
    BY <1>7, <2>1 DEF EffectiveTransport, TransportSelectable, ConnectionTarget
<1>12. GoesWhereDecided(Dialled(mine))
  BY <1>7, <1>9, <1>10, <1>11, Decided
<1> QED
  BY <1>8, <1>12

\* The transport the page takes its next message for.
LEMMA DialsTyped ==
  ASSUME Typed, NEW mine \in Settings, ~MissingServerUrl(mine.url), Dials(mine)
  PROVE  call' \in Conversations /\ active' \in Transports
BY DialledWell DEF Dials, EffectiveTransport, Transports

\* What a change does to the call.
LEMMA PushedTyped ==
  ASSUME call \in Conversations, NEW setting \in {"device", "gate"},
         NEW value, value \in IF setting = "device" THEN Speakers ELSE GateRange,
         Pushed(setting, value)
  PROVE  /\ call' \in Conversations
         /\ call'.phase = call.phase /\ call'.overrun = call.overrun
         /\ call'.oversized = call.oversized
         /\ call'.knew = call.knew /\ call'.target = call.target
         /\ call'.transport = call.transport
         /\ ~call.overrun => \A other \in {"device", "gate"} \ {setting} :
              call'[other] = call[other] /\ (other \in call'.missed <=> other \in call.missed)
         /\ ~call.overrun /\ call.phase = "live" => call'[setting] = value
         /\ ~call.overrun /\ call.phase = "connecting" => setting \in call'.missed
<1> DEFINE told == CASE call.phase = "live" ->
                          [call EXCEPT ![setting] = value, !.missed = @ \ {setting}]
                     [] call.phase = "connecting" -> [call EXCEPT !.missed = @ \cup {setting}]
                     [] OTHER -> call
<1>1. call' = told \/ (call.overrun /\ call' = call)
  BY DEF Pushed
<1>2. CASE call.phase = "live"
  <2>1. told = [call EXCEPT ![setting] = value, !.missed = @ \ {setting}]
    BY <1>2
  <2> HIDE DEF told
  <2>2. CASE setting = "device"
    <3>1. /\ told = [call EXCEPT !.device = value, !.missed = @ \ {"device"}]
          /\ value \in Speakers
      BY <2>1, <2>2
    <3>2. told \in Conversations
      BY <3>1 DEF Conversations
    <3>3. told.device = value /\ told.gate = call.gate /\ told.missed = call.missed \ {"device"}
      BY <3>1 DEF Conversations
    <3>4. /\ told.phase = call.phase /\ told.overrun = call.overrun /\ told.knew = call.knew
          /\ told.target = call.target /\ told.transport = call.transport
          /\ told.oversized = call.oversized
      BY <3>1 DEF Conversations
    <3> QED
      BY <1>1, <1>2, <2>2, <3>2, <3>3, <3>4
  <2>3. CASE setting = "gate"
    <3>1. /\ told = [call EXCEPT !.gate = value, !.missed = @ \ {"gate"}]
          /\ value \in GATE_OFF_DB..GATE_MAX_DB
      BY <2>1, <2>3 DEF GateRange
    <3>2. told \in Conversations
      BY <3>1 DEF Conversations
    <3>3. told.gate = value /\ told.device = call.device /\ told.missed = call.missed \ {"gate"}
      BY <3>1 DEF Conversations
    <3>4. /\ told.phase = call.phase /\ told.overrun = call.overrun /\ told.knew = call.knew
          /\ told.target = call.target /\ told.transport = call.transport
          /\ told.oversized = call.oversized
      BY <3>1 DEF Conversations
    <3> QED
      BY <1>1, <1>2, <2>3, <3>2, <3>3, <3>4
  <2> QED
    BY <2>2, <2>3
<1>3. CASE call.phase = "connecting"
  <2>1. told = [call EXCEPT !.missed = @ \cup {setting}]
    BY <1>3
  <2> HIDE DEF told
  <2> QED
    BY <1>1, <1>3, <2>1 DEF Conversations
<1>4. CASE call.phase # "live" /\ call.phase # "connecting"
  <2>1. call' = call
    BY <1>1, <1>4
  <2> QED
    BY <1>4, <2>1
<1> QED
  BY <1>2, <1>3, <1>4

LEMMA InitTyped == Init => Typed
<1> SUFFICES ASSUME Init
             PROVE  Typed
  OBVIOUS
<1>1. StoredOK
  BY PointerInRange DEF Init, StoredOK
<1>2. form \in Forms /\ FormOwn /\ draft \in Drafts
  BY DEF Init, BlankForm, NoDraft, Forms, Drafts, Transports, Speakers, FormOwn
<1>3. config \in Configs /\ ConfigTrue
  BY DEF Init, Unknown, Configs, ConfigTrue
<1>4. TypeOK
  BY <1>1, <1>2, <1>3, LoadedSettings, NoCallTyped DEF Init, TypeOK, Transports
<1> QED
  BY <1>1, <1>2, <1>3, <1>4 DEF Typed

\* Steps that write no setting.
LEMMA Unwritten ==
  ASSUME StoredOK, stored' = stored
  PROVE  settings' = settings /\ StoredOK'
BY DEF settings, StoredOK

LEMMA OpenedTyped ==
  ASSUME Typed, Opened
  PROVE  /\ form' \in Forms /\ draft' \in Drafts /\ open' \in BOOLEAN /\ listing' \in BOOLEAN
         /\ config.pin = NoUrl => form'.url \in Urls \cup {NoUrl}
BY SyncedForm DEF Typed, TypeOK, FormOwn, Opened, NoDraft, Drafts

LEMMA NextTyped == Typed /\ [Next]_vars => Typed'
<1> SUFFICES ASSUME Typed, [Next]_vars
             PROVE  Typed'
  OBVIOUS
<1>0. TypeOK /\ StoredOK /\ ConfigTrue /\ FormOwn
  BY DEF Typed
<1>1. CASE Load
  <2>1. StoredOK' /\ settings' = settings
    BY <1>0, <1>1, Unwritten DEF Load
  <2>2. form' \in Forms /\ FormOwn' /\ draft' \in Drafts
    BY <1>1 DEF Load, BlankForm, NoDraft, Forms, Drafts, Transports, Speakers, FormOwn
  <2>3. config' \in Configs /\ ConfigTrue'
    BY <1>1 DEF Load, Unknown, Configs, ConfigTrue
  <2>4. TypeOK'
    BY <1>0, <1>1, <2>1, <2>2, <2>3, NoCallTyped DEF Load, TypeOK, Transports
  <2> QED
    BY <2>1, <2>2, <2>3, <2>4 DEF Typed
<1>2. CASE FetchConfig
  <2>1. StoredOK' /\ settings' = settings
    BY <1>0, <1>2, Unwritten DEF FetchConfig
  <2>2. config' \in Configs
    BY <1>0, <1>2, ConfigTyped DEF FetchConfig, TypeOK
  <2>3. ConfigTrue'
    <3>1. Config(deploy).known = "yes" /\ Unknown("no").known = "no"
      BY DEF Config, Unknown
    <3>2. deploy' = deploy /\ config' \in {Config(deploy), Unknown("no")}
      BY <1>2 DEF FetchConfig
    <3> QED
      BY <3>1, <3>2 DEF ConfigTrue
  <2>4. form.url \in Urls \cup {NoUrl}
    <3>1. config = Unknown("not yet")
      BY <1>0, <1>2 DEF FetchConfig, ConfigTrue
    <3>2. config.pin = NoUrl
      BY <3>1 DEF Unknown
    <3> QED
      BY <1>0, <3>2 DEF FormOwn
  <2>5. form' \in Forms /\ FormOwn'
    BY <1>0, <1>2, <2>2, <2>4, SyncedForm DEF FetchConfig, TypeOK, FormOwn
  <2>6. TypeOK'
    BY <1>0, <1>2, <2>1, <2>2, <2>5 DEF FetchConfig, TypeOK
  <2> QED
    BY <2>1, <2>3, <2>5, <2>6 DEF Typed
<1>3. CASE ListDevices
  <2>1. StoredOK' /\ settings' = settings
    BY <1>0, <1>3, Unwritten DEF ListDevices
  <2>2. form' \in Forms /\ options' \subseteq Speakers /\ FormOwn'
    BY <1>0, <1>3 DEF ListDevices, FillDeviceSelect, TypeOK, Forms, Settings, Speakers, FormOwn
  <2> QED
    BY <1>0, <1>3, <2>1, <2>2 DEF ListDevices, Typed, TypeOK, ConfigTrue
<1>4. CASE DeviceChange \/ Cancel
  <2>1. StoredOK' /\ settings' = settings
    BY <1>0, <1>4, Unwritten DEF DeviceChange, Cancel
  <2>2. NoDraft \in Drafts
    BY DEF NoDraft, Drafts
  <2> QED
    BY <1>0, <1>4, <2>1, <2>2 DEF DeviceChange, Cancel, Typed, TypeOK, ConfigTrue, FormOwn
<1>5. CASE OpenSettings
  <2>1. StoredOK' /\ settings' = settings
    BY <1>0, <1>5, Unwritten DEF OpenSettings
  <2> QED
    BY <1>0, <1>5, <2>1, OpenedTyped DEF OpenSettings, Typed, TypeOK, ConfigTrue, FormOwn
<1>6. CASE TypeUrl \/ PickDevice
  <2>1. StoredOK' /\ settings' = settings
    BY <1>0, <1>6, Unwritten DEF TypeUrl, PickDevice
  <2>2. form' \in Forms /\ draft' \in Drafts /\ FormOwn'
    BY <1>0, <1>6 DEF TypeUrl, PickDevice, TypeOK, Forms, Drafts, FormOwn
  <2> QED
    BY <1>0, <1>6, <2>1, <2>2 DEF TypeUrl, PickDevice, Typed, TypeOK, ConfigTrue
<1>7. CASE Save
  <2>1. StoredOK' /\ settings' \in Settings /\ stored' \in Settings
    BY <1>7, ReadSettings, SavedSettings DEF Save
  <2>2. call' \in Conversations
    BY <1>0, <1>7, <2>1, PushedTyped DEF Save, TypeOK, Settings
  <2>3. NoDraft \in Drafts
    BY DEF NoDraft, Drafts
  <2> QED
    BY <1>0, <1>7, <2>1, <2>2, <2>3 DEF Save, Typed, TypeOK, ConfigTrue, FormOwn
<1>8. ASSUME NEW t \in Transports, PickTransport(t)
      PROVE  Typed'
  <2>1. StoredOK' /\ settings' = [settings EXCEPT !.transport = t]
    BY <1>0, <1>8, SavedTransport DEF PickTransport
  <2>2. form' \in Forms /\ FormOwn' /\ settings' \in Settings
    BY <1>0, <1>8, <2>1 DEF PickTransport, TypeOK, Forms, Settings, FormOwn
  <2> QED
    BY <1>0, <1>8, <2>1, <2>2 DEF PickTransport, Typed, TypeOK, ConfigTrue
<1>9. ASSUME NEW deg \in Angles, SetGateThreshold(PointerToDb(deg))
      PROVE  Typed'
  <2>1. PointerToDb(deg) \in GateRange
    BY PointerInRange
  <2>2. StoredOK' /\ settings' = [settings EXCEPT !.gate = PointerToDb(deg)]
    BY <1>0, <1>9, <2>1, SavedGate DEF SetGateThreshold
  <2>3. settings' \in Settings /\ call' \in Conversations
    BY <1>0, <1>9, <2>1, <2>2, PushedTyped DEF SetGateThreshold, TypeOK, Settings, GateRange
  <2> QED
    BY <1>0, <1>9, <2>2, <2>3 DEF SetGateThreshold, Typed, TypeOK, ConfigTrue, FormOwn
<1>10. CASE TapCircle
  <2>1. StoredOK' /\ settings' = settings
    BY <1>0, <1>10, Unwritten DEF TapCircle
  <2>2. CASE MissingServerUrl(settings.url)
    BY <1>0, <1>10, <2>1, <2>2, OpenedTyped
       DEF TapCircle, PromptServerUrl, Typed, TypeOK, ConfigTrue, FormOwn
  <2>3. CASE ~MissingServerUrl(settings.url)
    BY <1>0, <1>10, <2>1, <2>3, DialsTyped DEF TapCircle, Typed, TypeOK, ConfigTrue, FormOwn
  <2> QED
    BY <2>2, <2>3
<1>11. CASE Restart
  <2>1. StoredOK' /\ settings' \in Settings
    BY <1>11, ReadSettings, SavedSettings DEF Restart
  <2>2. NoDraft \in Drafts
    BY DEF NoDraft, Drafts
  <2>3. CASE MissingServerUrl(stored'.url)
    <3>1. form' = Synced(config, settings', form) /\ draft' = NoDraft /\ UNCHANGED <<open, listing, active>>
      BY <1>11, <2>3 DEF Restart, PromptServerUrl, CanSave
    <3>3. call' \in Conversations
      BY <1>0, <1>11, <2>3 DEF Restart, TypeOK, Conversations
    <3>2. form' \in Forms /\ (config.pin = NoUrl => form'.url \in Urls \cup {NoUrl})
      BY <1>0, <2>1, <3>1, SyncedForm DEF TypeOK, FormOwn
    <3> QED
      BY <1>0, <1>11, <2>1, <2>2, <3>1, <3>2, <3>3 DEF Restart, Typed, TypeOK, ConfigTrue, FormOwn
  <2>4. CASE ~MissingServerUrl(stored'.url)
    <3>1. stored' \in Settings
      BY <1>11, ReadSettings DEF Restart
    <3>2. call' \in Conversations /\ active' \in Transports
      BY <1>0, <1>11, <2>4, <3>1, DialsTyped DEF Restart, TypeOK, Conversations, Phases
    <3> QED
      BY <1>0, <1>11, <2>1, <2>2, <2>4, <3>2 DEF Restart, Typed, TypeOK, ConfigTrue, FormOwn
  <2> QED
    BY <2>3, <2>4
<1>12. CASE RestartDials \/ Primed \/ GoLive \/ CallEnds
  <2>1. StoredOK' /\ settings' = settings
    BY <1>0, <1>12, Unwritten DEF RestartDials, Primed, GoLive, CallEnds
  <2>2. CASE RestartDials
    <3>1. call' \in Conversations /\ active' \in Transports
      BY <1>0, <2>2, NoCallTyped, DialsTyped DEF RestartDials, TypeOK
    <3> QED
      BY <1>0, <2>1, <2>2, <3>1 DEF RestartDials, Typed, TypeOK, ConfigTrue, FormOwn
  <2>3. CASE Primed \/ GoLive \/ CallEnds
    <3>1. call' \in Conversations
      <4>1. CASE Primed
        BY <1>0, <4>1 DEF Primed, TypeOK, Conversations, Settings, Phases
      <4>2. CASE GoLive
        BY <1>0, <4>2 DEF GoLive, TypeOK, Conversations, Phases
      <4>3. CASE CallEnds
        BY <4>3, NoCallTyped DEF CallEnds
      <4> QED
        BY <2>3, <4>1, <4>2, <4>3
    <3> QED
      BY <1>0, <2>1, <2>3, <3>1 DEF Primed, GoLive, CallEnds, Typed, TypeOK, ConfigTrue, FormOwn
  <2> QED
    BY <1>12, <2>2, <2>3
<1>13. CASE DialAgain \/ \E fits \in SUBSET (1..Rungs), rung \in 1..Rungs : Snapshot(fits, rung)
  <2>1. StoredOK' /\ settings' = settings
    BY <1>0, <1>13, Unwritten DEF Snapshot, DialAgain
  <2>2. call' \in Conversations /\ active' \in Transports
    BY <1>0, <1>13 DEF Snapshot, DialAgain, TypeOK, Conversations, EffectiveTransport, Transports
  <2> QED
    BY <1>0, <1>13, <2>1, <2>2 DEF Snapshot, DialAgain, Typed, TypeOK, ConfigTrue, FormOwn
<1>14. CASE UNCHANGED vars
  <2>1. StoredOK' /\ settings' = settings
    BY <1>0, <1>14, Unwritten DEF vars
  <2> QED
    BY <1>0, <1>14, <2>1 DEF vars, Typed, TypeOK, ConfigTrue, FormOwn
<1> QED
  BY <1>1, <1>2, <1>3, <1>4, <1>5, <1>6, <1>7, <1>8, <1>9, <1>10, <1>11, <1>12, <1>13, <1>14 DEF Next

\* Every reachable state is well typed, whatever a browser had stored.
THEOREM TypeCorrect == Spec => []TypeOK
<1>1. Typed => TypeOK
  BY DEF Typed
<1> QED
  BY <1>1, InitTyped, NextTyped, PTL DEF Spec

----------------------------------------------------------------------------
\* The dialog's fields

Editable == config.allowDirect /\ config.pin = NoUrl

\* While the dialog is open its URL is what a patient user left or entered there.
UrlField ==
  patient =>
    /\ open /\ Editable => form.url = IF draft.url = Untouched THEN settings.url ELSE draft.url
    /\ draft.url # Untouched => Editable /\ config.known # "not yet"

\* So is its speaker, once the list is there; until then nothing was entered, and
\* the field is stale or the system's.
DeviceField ==
  patient =>
    /\ draft.device = Untouched => form.device \in {settings.device, Default}
    /\ open /\ ~listing /\ draft.device = Untouched => form.device = settings.device
    /\ draft.device # Untouched => form.device = draft.device /\ ~listing /\ open

TransportField == open /\ TransportSelectable(config) => form.transport = settings.transport

Fields == UrlField /\ DeviceField /\ TransportField

\* What a conversation was made with is what is stored, but for what it missed.
Current ==
  call.phase \in {"connecting", "live"} /\ ~call.overrun =>
    /\ "device" \notin call.missed => call.device = settings.device
    /\ "gate" \notin call.missed => call.gate = settings.gate

\* The page's transport is the conversation's, until another is started beside it.
Carried == call.phase # "none" /\ ~call.overrun => active = call.transport

IInv == Typed /\ Fields /\ DeployDecides /\ Current /\ Carried /\ SnapshotFits

LEMMA InitFields == Init => Fields
<1> SUFFICES ASSUME Init
             PROVE  Fields
  OBVIOUS
<1>1. ~open /\ form.device = Default /\ draft.url = Untouched /\ draft.device = Untouched
  BY DEF Init, BlankForm, NoDraft
<1> QED
  BY <1>1 DEF Fields, UrlField, DeviceField, TransportField

\* What a dialog that is opened, or pointed at again, shows.
LEMMA SyncedFields ==
  ASSUME Typed, patient' = patient, config' = config, draft' = NoDraft,
         settings' \in Settings, form' = Synced(config, settings', form),
         open' => listing' \/ form.device = settings'.device,
         patient => form.device \in {settings'.device, Default}
  PROVE  Fields'
<1>1. /\ form'.device = form.device
      /\ Editable => form'.url = settings'.url
      /\ TransportSelectable(config) => form'.transport = settings'.transport
  BY SyncedForm DEF Typed, TypeOK, FormOwn, Editable
<1>2. UrlField'
  BY <1>1 DEF UrlField, NoDraft, Editable
<1>3. DeviceField'
  BY <1>1 DEF DeviceField, NoDraft
<1>4. TransportField'
  BY <1>1 DEF TransportField, TransportSelectable
<1> QED
  BY <1>2, <1>3, <1>4 DEF Fields

\* Steps that touch nothing the dialog shows.
LEMMA FieldsApart ==
  ASSUME Fields, UNCHANGED <<patient, config, open, form, listing, draft>>,
         settings'.url = settings.url, settings'.device = settings.device,
         settings'.transport = settings.transport
  PROVE  Fields'
BY DEF Fields, UrlField, DeviceField, TransportField, Editable, TransportSelectable

LEMMA NextFields == Typed /\ Fields /\ [Next]_vars => Fields'
<1> SUFFICES ASSUME Typed, Fields, [Next]_vars
             PROVE  Fields'
  OBVIOUS
<1>a. TypeOK /\ StoredOK /\ ConfigTrue /\ FormOwn /\ settings \in Settings
  BY DEF Typed, TypeOK
<1>b. UrlField /\ DeviceField /\ TransportField
  BY DEF Fields
<1>1. CASE Load
  <2>1. ~open' /\ form'.device = Default /\ draft'.url = Untouched /\ draft'.device = Untouched
    BY <1>1 DEF Load, BlankForm, NoDraft
  <2> QED
    BY <2>1 DEF Fields, UrlField, DeviceField, TransportField
<1>2. CASE FetchConfig
  <2>1. settings' = settings
    BY <1>a, <1>2, Unwritten DEF FetchConfig
  <2>2. config' \in Configs
    BY <1>a, <1>2, ConfigTyped DEF FetchConfig, TypeOK
  <2>3. config = Unknown("not yet")
    BY <1>a, <1>2 DEF FetchConfig, ConfigTrue
  <2>4. form.url \in Urls \cup {NoUrl}
    BY <1>a, <2>3 DEF FormOwn, Unknown
  <2>5. /\ form'.device = form.device
        /\ Editable' => form'.url = settings'.url
        /\ TransportSelectable(config') => form'.transport = settings'.transport
    BY <1>a, <1>2, <2>1, <2>2, <2>4, SyncedForm DEF FetchConfig, TypeOK, Editable
  <2>6. patient => draft.url = Untouched
    BY <1>b, <2>3 DEF UrlField, Unknown
  <2>7. UNCHANGED <<patient, open, listing, draft>>
    BY <1>2 DEF FetchConfig
  <2>8. UrlField'
    BY <2>5, <2>6, <2>7 DEF UrlField
  <2>9. DeviceField'
    BY <1>b, <2>1, <2>5, <2>7 DEF DeviceField
  <2>10. TransportField'
    BY <2>5 DEF TransportField, TransportSelectable
  <2> QED
    BY <2>8, <2>9, <2>10 DEF Fields
<1>3. CASE ListDevices
  <2>1. settings' = settings
    BY <1>a, <1>3, Unwritten DEF ListDevices
  <2>2. UNCHANGED <<patient, config, open, draft>> /\ listing
    BY <1>3 DEF ListDevices
  <2>3. /\ form'.url = form.url /\ form'.transport = form.transport
        /\ form'.device = IF settings.device # Default THEN settings.device ELSE form.device
    BY <1>a, <1>3 DEF ListDevices, FillDeviceSelect, TypeOK, Forms
  <2>4. patient => draft.device = Untouched /\ form'.device = settings.device
    BY <1>b, <2>2, <2>3 DEF DeviceField
  <2> QED
    BY <1>b, <2>1, <2>2, <2>3, <2>4
       DEF Fields, UrlField, DeviceField, TransportField, Editable, TransportSelectable
<1>4. CASE DeviceChange
  <2>1. settings' = settings
    BY <1>a, <1>4, Unwritten DEF DeviceChange
  <2> QED
    BY <1>b, <1>4, <2>1 DEF DeviceChange, Calmly, Fields, UrlField, DeviceField, TransportField,
                            Editable, TransportSelectable
<1>5. CASE OpenSettings \/ (TapCircle /\ MissingServerUrl(settings.url))
  <2>1. /\ UNCHANGED <<patient, config, stored>> /\ ~open
        /\ form' = Synced(config, settings, form) /\ listing' = TRUE /\ draft' = NoDraft
    BY <1>5 DEF OpenSettings, TapCircle, PromptServerUrl, Opened
  <2>2. settings' = settings
    BY <1>a, <2>1, Unwritten
  <2>3. patient => form.device \in {settings.device, Default}
    BY <1>b, <2>1 DEF DeviceField
  <2> QED
    BY <1>a, <2>1, <2>2, <2>3, SyncedFields
<1>6. CASE TypeUrl
  <2>1. settings' = settings
    BY <1>a, <1>6, Unwritten DEF TypeUrl
  <2>2. PICK url \in Urls \cup {NoUrl} :
          form' = [form EXCEPT !.url = url] /\ draft' = [draft EXCEPT !.url = url]
    BY <1>6 DEF TypeUrl
  <2>3. /\ form'.url = url /\ draft'.url = url
        /\ form'.device = form.device /\ draft'.device = draft.device
        /\ form'.transport = form.transport
    BY <1>a, <2>2 DEF TypeOK, Forms, Drafts
  <2>4. url # Untouched
    BY SettingsAssumption, <2>2
  <2>5. Editable /\ (patient => config.known # "not yet")
        /\ UNCHANGED <<patient, config, open, listing>>
    BY <1>6 DEF TypeUrl, Calmly, Editable
  <2> QED
    BY <1>b, <2>1, <2>3, <2>4, <2>5
       DEF Fields, UrlField, DeviceField, TransportField, Editable, TransportSelectable
<1>7. CASE PickDevice
  <2>1. settings' = settings
    BY <1>a, <1>7, Unwritten DEF PickDevice
  <2>2. PICK device \in options :
          form' = [form EXCEPT !.device = device] /\ draft' = [draft EXCEPT !.device = device]
    BY <1>7 DEF PickDevice
  <2>3. /\ form'.device = device /\ draft'.device = device
        /\ form'.url = form.url /\ draft'.url = draft.url
        /\ form'.transport = form.transport
    BY <1>a, <2>2 DEF TypeOK, Forms, Drafts
  <2>4. device # Untouched
    BY <1>a, <2>2, SettingsAssumption DEF TypeOK, Speakers
  <2>5. open /\ (patient => ~listing) /\ UNCHANGED <<patient, config, open, listing>>
    BY <1>7 DEF PickDevice, Calmly
  <2> QED
    BY <1>b, <2>1, <2>3, <2>4, <2>5
       DEF Fields, UrlField, DeviceField, TransportField, Editable, TransportSelectable
<1>8. CASE Save
  <2>1. settings' = ReadSettingsFromForm
    BY <1>8, ReadSettings, SavedSettings DEF Save
  <2>2. settings'.device = form.device
    BY <1>a, <2>1 DEF ReadSettingsFromForm, Settings
  <2>3. /\ ~open' /\ draft'.url = Untouched /\ draft'.device = Untouched
        /\ UNCHANGED <<patient, form>>
    BY <1>8 DEF Save, NoDraft
  <2> QED
    BY <2>2, <2>3 DEF Fields, UrlField, DeviceField, TransportField
<1>9. CASE Cancel
  <2>1. settings' = settings
    BY <1>a, <1>9, Unwritten DEF Cancel
  <2>2. /\ ~open' /\ draft'.url = Untouched /\ draft'.device = Untouched
        /\ UNCHANGED <<patient, form>> /\ (patient => draft.device = Untouched)
    BY <1>9 DEF Cancel, NoDraft, Calmly
  <2> QED
    BY <1>b, <2>1, <2>2 DEF Fields, UrlField, DeviceField, TransportField
<1>10. ASSUME NEW t \in Transports, PickTransport(t)
       PROVE  Fields'
  <2>1. settings' = [settings EXCEPT !.transport = t]
    BY <1>a, <1>10, SavedTransport DEF PickTransport
  <2>2. /\ settings'.url = settings.url /\ settings'.device = settings.device
        /\ settings'.transport = t
    BY <1>a, <2>1 DEF Settings
  <2>3. /\ UNCHANGED <<patient, config, open, listing, draft>>
        /\ form'.url = form.url /\ form'.device = form.device /\ form'.transport = t
    BY <1>a, <1>10 DEF PickTransport, TypeOK, Forms
  <2> QED
    BY <1>b, <2>2, <2>3 DEF Fields, UrlField, DeviceField, TransportField, Editable
<1>11. ASSUME NEW deg \in Angles, SetGateThreshold(PointerToDb(deg))
       PROVE  Fields'
  <2>1. settings' = [settings EXCEPT !.gate = PointerToDb(deg)]
    BY <1>a, <1>11, PointerInRange, SavedGate DEF SetGateThreshold
  <2>2. /\ settings'.url = settings.url /\ settings'.device = settings.device
        /\ settings'.transport = settings.transport
    BY <1>a, <2>1 DEF Settings
  <2> QED
    BY <1>11, <2>2, FieldsApart DEF SetGateThreshold
<1>12. CASE Restart
  <2>1. settings' = ReadSettingsFromForm /\ settings' \in Settings /\ settings' = stored'
    BY <1>12, ReadSettings, SavedSettings DEF Restart
  <2>2. settings'.device = form.device
    BY <1>a, <2>1 DEF ReadSettingsFromForm, Settings
  <2>3. CASE MissingServerUrl(stored'.url)
    <3>1. /\ form' = Synced(config, settings', form) /\ draft' = NoDraft
          /\ UNCHANGED <<patient, config>>
      BY <1>12, <2>3 DEF Restart, PromptServerUrl, CanSave
    <3> QED
      BY <2>1, <2>2, <3>1, SyncedFields
  <2>4. CASE ~MissingServerUrl(stored'.url)
    <3>1. /\ ~open' /\ draft'.url = Untouched /\ draft'.device = Untouched
          /\ UNCHANGED <<patient, form>>
      BY <1>12, <2>4 DEF Restart, NoDraft
    <3> QED
      BY <2>2, <3>1 DEF Fields, UrlField, DeviceField, TransportField
  <2> QED
    BY <2>3, <2>4
<1>13. CASE \/ TapCircle /\ ~MissingServerUrl(settings.url)
            \/ RestartDials \/ DialAgain \/ Primed \/ GoLive \/ CallEnds
            \/ \E fits \in SUBSET (1..Rungs), rung \in 1..Rungs : Snapshot(fits, rung)
            \/ UNCHANGED vars
  <2>1. UNCHANGED <<patient, config, stored, open, form, listing, draft>>
    BY <1>13 DEF TapCircle, RestartDials, DialAgain, Primed, GoLive, CallEnds, Snapshot, vars
  <2>2. settings' = settings
    BY <1>a, <2>1, Unwritten
  <2> QED
    BY <2>1, <2>2, FieldsApart
<1> QED
  BY <1>1, <1>2, <1>3, <1>4, <1>5, <1>6, <1>7, <1>8, <1>9, <1>10, <1>11, <1>12, <1>13 DEF Next

----------------------------------------------------------------------------
\* The conversation

LEMMA CallBegins ==
  /\ NoCall.phase = "none" /\ ~NoCall.oversized
  /\ \A mine : /\ Dialled(mine).phase = "priming" /\ ~Dialled(mine).oversized
               /\ Dialled(mine).transport = EffectiveTransport(mine)
BY DEF NoCall, Dialled

LEMMA InitCall == Init => DeployDecides /\ Current /\ Carried /\ SnapshotFits
<1> SUFFICES ASSUME Init
             PROVE  DeployDecides /\ Current /\ Carried /\ SnapshotFits
  OBVIOUS
<1>1. call = NoCall
  BY DEF Init
<1> QED
  BY <1>1, CallBegins DEF DeployDecides, Current, Carried, SnapshotFits

\* How a step treats the conversation when it does not dial: it is left or goes on.
Over == call' = NoCall
Goes == /\ call.phase # "none" \/ call'.phase = "none"
        /\ deploy' = deploy /\ call'.knew = call.knew
        /\ call'.target = call.target /\ call'.transport = call.transport

LEMMA CallSteps ==
  ASSUME Typed, [Next]_vars
  PROVE  Over \/ Goes \/ \E mine \in Settings : /\ ~MissingServerUrl(mine.url) /\ Dials(mine)
                                                /\ deploy' = deploy
<1> DEFINE Dialling == \E mine \in Settings : /\ ~MissingServerUrl(mine.url) /\ Dials(mine)
                                              /\ deploy' = deploy
<1>a. call \in Conversations /\ settings \in Settings
  BY DEF Typed, TypeOK
<1>1. CASE Load \/ CallEnds
  BY <1>1 DEF Load, CallEnds, Over
<1>2. CASE \/ FetchConfig \/ ListDevices \/ DeviceChange \/ OpenSettings \/ TypeUrl \/ PickDevice
           \/ Cancel \/ (\E t \in Transports : PickTransport(t)) \/ UNCHANGED vars
  BY <1>2 DEF FetchConfig, ListDevices, DeviceChange, OpenSettings, TypeUrl, PickDevice, Cancel,
              PickTransport, vars, Goes
<1>3. CASE Save
  <2>1. form.device \in Speakers
    BY DEF Typed, TypeOK, Forms
  <2>2. stored'.device = form.device
    BY <1>3, <1>a DEF Save, ReadSettingsFromForm, Settings
  <2>3. deploy' = deploy /\ Pushed("device", stored'.device)
    BY <1>3 DEF Save
  <2> QED
    BY <1>a, <2>1, <2>2, <2>3, PushedTyped DEF Goes
<1>4. ASSUME NEW deg \in Angles, SetGateThreshold(PointerToDb(deg))
      PROVE  Goes
  <2>1. deploy' = deploy /\ Pushed("gate", PointerToDb(deg))
    BY <1>4 DEF SetGateThreshold
  <2> QED
    BY <1>a, <2>1, PointerInRange, PushedTyped DEF Goes
<1>5. CASE \/ GoLive \/ Primed \/ DialAgain
           \/ \E fits \in SUBSET (1..Rungs), rung \in 1..Rungs : Snapshot(fits, rung)
  BY <1>a, <1>5 DEF GoLive, Primed, DialAgain, Snapshot, Conversations, Goes
<1>6. CASE TapCircle
  <2>1. Goes \/ Dialling
    BY <1>a, <1>6 DEF TapCircle, Goes
  <2> QED
    BY <2>1
<1>7. CASE RestartDials
  <2>1. Over \/ Dialling
    BY <1>a, <1>7 DEF RestartDials, Over
  <2> QED
    BY <2>1
<1>8. CASE Restart
  <2>1. stored' \in Settings
    BY <1>8, ReadSettings DEF Restart
  <2>2. Goes \/ Dialling
    BY <1>a, <1>8, <2>1 DEF Restart, Conversations, Goes
  <2> QED
    BY <2>2
<1> QED
  BY <1>1, <1>2, <1>3, <1>4, <1>5, <1>6, <1>7, <1>8 DEF Next

LEMMA DecidesAbout == DeployDecides <=> (call.phase # "none" => GoesWhereDecided(call))
BY Zenon DEF DeployDecides, GoesWhereDecided

LEMMA NextDeployDecides == Typed /\ DeployDecides /\ [Next]_vars => DeployDecides'
<1> SUFFICES ASSUME Typed, DeployDecides, [Next]_vars
             PROVE  DeployDecides'
  OBVIOUS
<1>1. CASE Over
  BY <1>1, CallBegins DEF Over, DeployDecides
<1>2. CASE Goes
  <2>1. CASE call'.phase = "none"
    BY <2>1 DEF DeployDecides
  <2>2. CASE call'.phase # "none"
    <3>1. GoesWhereDecided(call)
      BY <1>2, <2>2, DecidesAbout DEF Goes
    <3>2. GoesWhereDecided(call)'
      BY <1>2, <3>1, Zenon DEF Goes, GoesWhereDecided
    <3> QED
      BY <3>2, Zenon DEF DeployDecides, GoesWhereDecided
  <2> QED
    BY <2>1, <2>2
<1>3. ASSUME NEW mine \in Settings, ~MissingServerUrl(mine.url), Dials(mine), deploy' = deploy
      PROVE  DeployDecides'
  <2>1. GoesWhereDecided(Dialled(mine)) /\ call' = Dialled(mine)
    BY <1>3, DialledWell DEF Dials
  <2>2. GoesWhereDecided(call)'
    BY <1>3, <2>1, Zenon DEF GoesWhereDecided
  <2> QED
    BY <2>2, Zenon DEF DeployDecides, GoesWhereDecided
<1> QED
  BY <1>1, <1>2, <1>3, CallSteps

LEMMA NextCurrent == Typed /\ Current /\ [Next]_vars => Current'
<1> SUFFICES ASSUME Typed, Current, [Next]_vars
             PROVE  Current'
  OBVIOUS
<1>a. call \in Conversations /\ StoredOK /\ settings \in Settings
  BY DEF Typed, TypeOK
<1> DEFINE On(c) == c.phase \in {"connecting", "live"}
<1>1. ~On(call') => Current'
  BY DEF Current
<1>2. ASSUME stored' = stored,
             On(call') /\ ~call'.overrun =>
               /\ On(call) /\ ~call.overrun
               /\ call'.device = call.device /\ call'.gate = call.gate
               /\ call'.missed = call.missed
      PROVE  Current'
  BY <1>a, <1>2, Unwritten DEF Current
<1>3. CASE Load \/ (TapCircle /\ ~MissingServerUrl(settings.url)) \/ RestartDials \/ CallEnds
  <2>1. call' = NoCall \/ \E mine : call' = Dialled(mine)
    BY <1>3 DEF Load, TapCircle, RestartDials, CallEnds, Dials
  <2> QED
    BY <1>1, <2>1, CallBegins
<1>4. CASE \/ FetchConfig \/ ListDevices \/ DeviceChange \/ OpenSettings \/ TypeUrl \/ PickDevice
           \/ Cancel \/ GoLive \/ DialAgain \/ (TapCircle /\ MissingServerUrl(settings.url))
           \/ (\E fits \in SUBSET (1..Rungs), rung \in 1..Rungs : Snapshot(fits, rung))
           \/ UNCHANGED vars
  <2>1. stored' = stored
    BY <1>4 DEF FetchConfig, ListDevices, DeviceChange, OpenSettings, TypeUrl, PickDevice,
                Cancel, GoLive, DialAgain, TapCircle, Snapshot, vars
  <2>2. On(call') /\ ~call'.overrun =>
          /\ On(call) /\ ~call.overrun
          /\ call'.device = call.device /\ call'.gate = call.gate /\ call'.missed = call.missed
    BY <1>a, <1>4 DEF FetchConfig, ListDevices, DeviceChange, OpenSettings, TypeUrl, PickDevice,
                      Cancel, GoLive, DialAgain, TapCircle, Snapshot, vars, Conversations
  <2> QED
    BY <1>2, <2>1, <2>2
<1>5. CASE Primed
  <2>1. settings' = settings
    BY <1>a, <1>5, Unwritten DEF Primed
  <2>2. call'.device = settings.device /\ call'.gate = settings.gate
    BY <1>a, <1>5 DEF Primed, Conversations
  <2> QED
    BY <2>1, <2>2 DEF Current
<1>6. CASE Save
  <2>1. settings' = ReadSettingsFromForm /\ settings' = stored'
    BY <1>6, ReadSettings, SavedSettings DEF Save
  <2>2. settings'.gate = settings.gate /\ settings'.device \in Speakers
    BY <1>a, <2>1 DEF ReadSettingsFromForm, Settings, Typed, TypeOK, Forms
  <2>3. Pushed("device", settings'.device)
    BY <1>6, <2>1 DEF Save
  <2> QED
    BY <1>a, <2>2, <2>3, PushedTyped DEF Current
<1>7. ASSUME NEW t \in Transports, PickTransport(t)
      PROVE  Current'
  <2>1. settings' = [settings EXCEPT !.transport = t]
    BY <1>a, <1>7, SavedTransport DEF PickTransport
  <2>2. settings'.device = settings.device /\ settings'.gate = settings.gate
    BY <1>a, <2>1 DEF Settings
  <2> QED
    BY <1>7, <2>2 DEF PickTransport, Current
<1>8. ASSUME NEW deg \in Angles, SetGateThreshold(PointerToDb(deg))
      PROVE  Current'
  <2>1. settings' = [settings EXCEPT !.gate = PointerToDb(deg)]
    BY <1>a, <1>8, PointerInRange, SavedGate DEF SetGateThreshold
  <2>2. settings'.device = settings.device /\ settings'.gate = PointerToDb(deg)
    BY <1>a, <2>1 DEF Settings
  <2>3. Pushed("gate", PointerToDb(deg))
    BY <1>8 DEF SetGateThreshold
  <2> QED
    BY <1>a, <2>2, <2>3, PointerInRange, PushedTyped DEF Current
<1>9. CASE Restart
  <2>1. settings' = ReadSettingsFromForm
    BY <1>9, ReadSettings, SavedSettings DEF Restart
  <2>2. settings'.gate = settings.gate
    BY <1>a, <2>1 DEF ReadSettingsFromForm, Settings
  <2>3. CASE MissingServerUrl(stored'.url)
    <3>1. \/ call.phase = "none" /\ call' = call
          \/ /\ call'.missed = call.missed \cup {"device"} /\ call'.gate = call.gate
             /\ call'.phase = call.phase /\ call'.overrun = call.overrun
      BY <1>9, <1>a, <2>3 DEF Restart, Conversations
    <3> QED
      BY <2>2, <3>1 DEF Current
  <2>4. CASE ~MissingServerUrl(stored'.url)
    <3>1. call'.phase \in {"closing", "priming"}
      BY <1>9, <1>a, <2>4, CallBegins DEF Restart, Dials, Conversations
    <3> QED
      BY <1>1, <3>1
  <2> QED
    BY <2>3, <2>4
<1> QED
  BY <1>3, <1>4, <1>5, <1>6, <1>7, <1>8, <1>9 DEF Next

LEMMA NextCarried == Typed /\ Carried /\ [Next]_vars => Carried'
<1> SUFFICES ASSUME Typed, Carried, [Next]_vars
             PROVE  Carried'
  OBVIOUS
<1>a. call \in Conversations /\ settings \in Settings
  BY DEF Typed, TypeOK
<1> DEFINE Kept == /\ call'.phase # "none" /\ ~call'.overrun => call.phase # "none" /\ ~call.overrun
                   /\ call'.transport = call.transport /\ active' = active
<1>1. Kept => Carried'
  BY DEF Carried
<1>2. call' = NoCall => Carried'
  BY CallBegins DEF Carried
<1>3. (\E mine : Dials(mine)) => Carried'
  BY CallBegins DEF Carried, Dials
<1>4. CASE Load \/ CallEnds \/ RestartDials
  <2>1. call' = NoCall \/ \E mine : Dials(mine)
    BY <1>4 DEF Load, CallEnds, RestartDials
  <2> QED
    BY <1>2, <1>3, <2>1
<1>5. CASE \/ FetchConfig \/ ListDevices \/ DeviceChange \/ OpenSettings \/ TypeUrl \/ PickDevice
           \/ Cancel \/ Primed \/ GoLive
           \/ (\E t \in Transports : PickTransport(t))
           \/ (\E fits \in SUBSET (1..Rungs), rung \in 1..Rungs : Snapshot(fits, rung))
           \/ UNCHANGED vars
  <2>1. Kept
    BY <1>a, <1>5 DEF FetchConfig, ListDevices, DeviceChange, OpenSettings, TypeUrl, PickDevice,
                      Cancel, Primed, GoLive, PickTransport, Snapshot, vars, Conversations
  <2> QED
    BY <1>1, <2>1
<1>6. CASE DialAgain
  <2>1. call'.overrun
    BY <1>a, <1>6 DEF DialAgain, Conversations
  <2> QED
    BY <2>1 DEF Carried
<1>7. CASE Save
  <2>1. settings' = stored' /\ settings' \in Settings
    BY <1>7, ReadSettings, SavedSettings DEF Save
  <2>2. Pushed("device", stored'.device) /\ active' = active /\ stored'.device \in Speakers
    BY <1>7, <2>1 DEF Save, Settings
  <2> QED
    BY <1>a, <1>1, <2>2, PushedTyped
<1>8. ASSUME NEW deg \in Angles, SetGateThreshold(PointerToDb(deg))
      PROVE  Carried'
  <2>1. Pushed("gate", PointerToDb(deg)) /\ active' = active
    BY <1>8 DEF SetGateThreshold
  <2> QED
    BY <1>a, <1>1, <2>1, PointerInRange, PushedTyped
<1>9. CASE TapCircle \/ Restart
  <2>1. Kept \/ \E mine : Dials(mine)
    BY <1>a, <1>9 DEF TapCircle, Restart, Conversations
  <2> QED
    BY <1>1, <1>3, <2>1
<1> QED
  BY <1>4, <1>5, <1>6, <1>7, <1>8, <1>9 DEF Next

LEMMA NextSnapshotFits == Typed /\ Carried /\ SnapshotFits /\ [Next]_vars => SnapshotFits'
<1> SUFFICES ASSUME Typed, Carried, SnapshotFits, [Next]_vars
             PROVE  SnapshotFits'
  OBVIOUS
<1>a. call \in Conversations /\ settings \in Settings
  BY DEF Typed, TypeOK
<1> DEFINE Kept == /\ call'.transport = call.transport /\ call'.oversized = call.oversized
                   /\ ~call'.overrun => ~call.overrun
           Anew == call' = NoCall \/ \E mine : Dials(mine)
<1>1. Kept => SnapshotFits'
  BY DEF SnapshotFits
<1>2. Anew => SnapshotFits'
  BY CallBegins DEF SnapshotFits, Dials
<1>3. ASSUME NEW fits \in SUBSET (1..Rungs), NEW rung \in 1..Rungs, Snapshot(fits, rung),
             call'.transport = "webrtc", ~call'.overrun
      PROVE  ~call'.oversized
  <2>1. /\ call.transport = "webrtc" /\ ~call.overrun /\ call.phase = "live"
        /\ call'.oversized = (rung \notin fits /\ fits # {})
    BY <1>a, <1>3 DEF Snapshot, Conversations
  <2>2. active = "webrtc"
    BY <2>1 DEF Carried
  <2>3. (\A larger \in 1..(rung - 1) : larger \notin fits) /\ (rung \in fits \/ rung = Rungs)
    BY <1>3, <2>2 DEF Snapshot, CaptureSnapshot
  <2>4. CASE rung \in fits
    BY <2>1, <2>4
  <2>5. CASE rung \notin fits
    <3>1. rung = Rungs /\ \A n \in 1..Rungs : n \in 1..(rung - 1) \/ n = rung
      BY <2>3, <2>5, SettingsAssumption
    <3>2. fits = {}
      BY <2>3, <2>5, <3>1
    <3> QED
      BY <2>1, <3>2
  <2> QED
    BY <2>4, <2>5
<1>4. CASE \/ FetchConfig \/ ListDevices \/ DeviceChange \/ OpenSettings \/ TypeUrl \/ PickDevice
           \/ Cancel \/ Primed \/ GoLive \/ DialAgain
           \/ (\E t \in Transports : PickTransport(t)) \/ UNCHANGED vars
  <2>1. Kept
    BY <1>a, <1>4 DEF FetchConfig, ListDevices, DeviceChange, OpenSettings, TypeUrl, PickDevice,
                      Cancel, Primed, GoLive, DialAgain, PickTransport, vars, Conversations
  <2> QED
    BY <1>1, <2>1
<1>5. CASE Load \/ RestartDials \/ CallEnds
  <2>1. Anew
    BY <1>5 DEF Load, RestartDials, CallEnds
  <2> QED
    BY <1>2, <2>1
<1>6. CASE TapCircle \/ Restart
  <2>1. Kept \/ Anew
    BY <1>a, <1>6 DEF TapCircle, Restart, Conversations
  <2> QED
    BY <1>1, <1>2, <2>1
<1>7. CASE Save
  <2>1. settings' = stored' /\ settings' \in Settings
    BY <1>7, ReadSettings, SavedSettings DEF Save
  <2>2. Pushed("device", stored'.device) /\ stored'.device \in Speakers
    BY <1>7, <2>1 DEF Save, Settings
  <2> QED
    BY <1>a, <1>1, <2>2, PushedTyped
<1>8. ASSUME NEW deg \in Angles, SetGateThreshold(PointerToDb(deg))
      PROVE  SnapshotFits'
  <2>1. Pushed("gate", PointerToDb(deg))
    BY <1>8 DEF SetGateThreshold
  <2> QED
    BY <1>a, <1>1, <2>1, PointerInRange, PushedTyped
<1> QED
  BY <1>3, <1>4, <1>5, <1>6, <1>7, <1>8 DEF Next, SnapshotFits

----------------------------------------------------------------------------
\* Saving

\* What a patient user's Save or Restart writes.
LEMMA SavesWhatWasEntered ==
  ASSUME Typed, Fields, patient, Save \/ Restart
  PROVE  /\ settings'.url # settings.url => settings'.url = draft.url
         /\ settings'.device # settings.device => settings'.device = draft.device
         /\ draft.url # Untouched => settings'.url = draft.url
         /\ draft.device # Untouched => settings'.device = draft.device
         /\ settings'.transport = settings.transport
<1>1. settings' = ReadSettingsFromForm
  BY ReadSettings, SavedSettings DEF Save, Restart
<1>2. /\ settings'.url = IF Editable THEN form.url ELSE settings.url
      /\ settings'.device = form.device
      /\ settings'.transport = IF TransportSelectable(config) THEN form.transport ELSE settings.transport
  BY <1>1 DEF Typed, TypeOK, Settings, ReadSettingsFromForm, Editable
<1>3. open /\ ~listing
  BY DEF Save, Restart, CanSave, Calmly
<1>4. UrlField /\ DeviceField /\ TransportField
  BY DEF Fields
<1>5. /\ settings'.url # settings.url => settings'.url = draft.url
      /\ draft.url # Untouched => settings'.url = draft.url
  BY <1>2, <1>3, <1>4 DEF UrlField
<1>6. /\ settings'.device # settings.device => settings'.device = draft.device
      /\ draft.device # Untouched => settings'.device = draft.device
  BY <1>2, <1>3, <1>4 DEF DeviceField
<1>7. settings'.transport = settings.transport
  BY <1>2, <1>3, <1>4 DEF TransportField
<1> QED
  BY <1>5, <1>6, <1>7

\* The steps that write a setting.
LEMMA Writes ==
  ASSUME Typed, [Next]_vars, ~Save, ~Restart
  PROVE  /\ settings'.url = settings.url /\ settings'.device = settings.device
         /\ settings'.transport # settings.transport => \E t \in Transports : PickTransport(t)
<1>a. StoredOK /\ settings \in Settings
  BY DEF Typed, TypeOK
<1>1. ASSUME NEW t \in Transports, PickTransport(t)
      PROVE  settings'.url = settings.url /\ settings'.device = settings.device
  <2>1. settings' = [settings EXCEPT !.transport = t]
    BY <1>a, <1>1, SavedTransport DEF PickTransport
  <2> QED
    BY <1>a, <2>1 DEF Settings
<1>2. ASSUME NEW deg \in Angles, SetGateThreshold(PointerToDb(deg))
      PROVE  settings'.url = settings.url /\ settings'.device = settings.device
             /\ settings'.transport = settings.transport
  <2>1. settings' = [settings EXCEPT !.gate = PointerToDb(deg)]
    BY <1>a, <1>2, PointerInRange, SavedGate DEF SetGateThreshold
  <2> QED
    BY <1>a, <2>1 DEF Settings
<1>3. CASE stored' = stored
  BY <1>a, <1>3, Unwritten
<1>4. \/ stored' = stored
      \/ \E t \in Transports : PickTransport(t)
      \/ \E deg \in Angles : SetGateThreshold(PointerToDb(deg))
  BY DEF Next, Load, FetchConfig, ListDevices, DeviceChange, OpenSettings, TypeUrl, PickDevice,
         Cancel, TapCircle, RestartDials, DialAgain, Primed, GoLive, CallEnds, Snapshot, vars
<1> QED
  BY <1>1, <1>2, <1>3, <1>4

LEMMA StepSavesAsEntered ==
  ASSUME Typed, Fields, [Next]_vars
  PROVE  patient =>
           /\ \A f \in {"url", "device"} :
                settings'[f] # settings[f] => settings'[f] = draft[f]
           /\ \A f \in {"url", "device"} :
                (Save \/ Restart) /\ draft[f] # Untouched => settings'[f] = draft[f]
           /\ settings'.transport # settings.transport =>
                \E transport \in Transports : PickTransport(transport)
<1>1. CASE Save \/ Restart
  BY <1>1, SavesWhatWasEntered
<1>2. CASE ~(Save \/ Restart)
  BY <1>2, Writes
<1> QED
  BY <1>1, <1>2

----------------------------------------------------------------------------
LEMMA Inductive == IInv /\ [Next]_vars => IInv'
BY NextTyped, NextFields, NextDeployDecides, NextCurrent, NextCarried, NextSnapshotFits DEF IInv

LEMMA Invariant == Spec => []IInv
<1>1. Init => IInv
  BY InitTyped, InitFields, InitCall DEF IInv
<1> QED
  BY <1>1, Inductive, PTL DEF Spec

\* A conversation goes where the deployment decided, or to the user's own server while
\* the page does not know, for every set of addresses (main.js:339-346).
THEOREM DeploymentDecides == Spec => []DeployDecides
<1>1. IInv => DeployDecides
  BY DEF IInv
<1> QED
  BY <1>1, Invariant, PTL

\* A live conversation has the settings on show, whoever the user is and whenever they
\* were changed, but for those saved while it connected or by a Restart without an
\* address (main.js:584-585, 1181-1184).
THEOREM LiveCallIsCurrent == Spec => []CallHasSettings
<1>1. IInv => CallHasSettings
  BY DEF IInv, Current, CallHasSettings
<1> QED
  BY <1>1, Invariant, PTL

\* Snapshots fit their channel, for ladders of every length and whichever of their rungs
\* fit (main.js:134-140).
THEOREM SnapshotsFit == Spec => []SnapshotFits
<1>1. IInv => SnapshotFits
  BY DEF IInv
<1> QED
  BY <1>1, Invariant, PTL

\* What a patient user entered, and nothing else, is what is saved, whenever the
\* answers that fill the dialog come (main.js:1077-1081).
THEOREM SavingIsEntering == Spec => SavedAsEntered
<1>1. IInv /\ [Next]_vars =>
        [patient =>
           /\ \A f \in {"url", "device"} :
                settings'[f] # settings[f] => settings'[f] = draft[f]
           /\ \A f \in {"url", "device"} :
                (Save \/ Restart) /\ draft[f] # Untouched => settings'[f] = draft[f]
           /\ settings'.transport # settings.transport =>
                \E transport \in Transports : PickTransport(transport)]_vars
  BY StepSavesAsEntered DEF IInv
<1> QED
  BY <1>1, Invariant, PTL DEF Spec, SavedAsEntered
=============================================================================
