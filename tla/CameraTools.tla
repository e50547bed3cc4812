---------------------------- MODULE CameraTools ----------------------------
(***************************************************************************)
(* The tool switches of the demo page (demo/main.js) and the webcam behind *)
(* the camera_snapshot tool: the switches of the Tools panel, what they    *)
(* save, the getUserMedia calls they and the page load make, the browser's *)
(* permission and the handler that watches it, and the tool definitions a  *)
(* session was given.                                                      *)
(*                                                                         *)
(* The page is single threaded, so an action is what runs between two      *)
(* awaits.  enableCamera awaits twice (getUserMedia, then play), and every *)
(* other handler of the page may run in between.                           *)
(***************************************************************************)
EXTENDS Naturals, FiniteSets

CONSTANTS
  Requests,  \* getUserMedia calls, each standing for the stream it yields
  NoStream   \* cameraStream = null

ASSUME CameraAssumption ==
  /\ IsFiniteSet(Requests)
  /\ NoStream \notin Requests

VARIABLES
  watched,   \* the browser's Permissions API supports "camera"
  on,        \* toolsEnabled, which every change also saves
  switches,  \* the boxes that are checked
  key,       \* who holds a search key
  perm,      \* the browser's camera permission
  unseen,    \* it changed, and the change listener has not run yet
  stage,     \* getUserMedia call -> how far its enableCamera has come
  flipped,   \* the calls made by the switch; the others auto-start
  stream,    \* cameraStream
  running,   \* the streams whose tracks capture
  preview,   \* the camera preview is on the page
  call,      \* the conversation
  offered,   \* the tools its session was given
  overlapped,  \* calls under way at the same time as another (history)
  crossed,   \* since the page was loaded or last switched the camera off at rest,
             \* a call was switched off under way, or one of two failed (history)
  missed     \* the tools changed while the session connected (history)

history == <<overlapped, crossed, missed>>
vars == <<watched, on, switches, key, perm, unseen, stage, flipped, stream,
          running, preview, call, offered, history>>

Tools == {"camera", "web"}
Permission == {"prompt", "granted", "denied"}

\* The web switch is checked only where it can be flipped back.
TypeOK ==
  /\ watched \in BOOLEAN
  /\ on \subseteq Tools
  /\ switches \subseteq Tools
  /\ "web" \in switches => "web" \in on /\ key # "none"
  /\ key \in {"none", "user", "server"}
  /\ perm \in Permission
  /\ unseen \in BOOLEAN
  /\ stage \in [Requests -> {"unused", "waiting", "playing", "over"}]
  /\ flipped \subseteq Requests
  /\ stream \in Requests \cup {NoStream}
  /\ running \subseteq Requests
  /\ preview \in BOOLEAN
  /\ call \in {"none", "connecting", "live"}
  /\ offered \subseteq Tools
  /\ overlapped \subseteq Requests
  /\ crossed \in BOOLEAN /\ missed \in BOOLEAN

Waiting == {r \in Requests : stage[r] = "waiting"}
Playing == {r \in Requests : stage[r] = "playing"}
Pending == Waiting \cup Playing
Fresh == {r \in Requests : stage[r] = "unused"}

Active(tools, k) == IF k = "none" THEN tools \ {"web"} ELSE tools

----------------------------------------------------------------------------
\* What the handlers share

\* pushToolsToSession: a session that is not live yet is not told.
Push(tools, k) ==
  /\ offered' = IF call = "live" THEN Active(tools, k) ELSE offered
  /\ missed' = IF call = "live" THEN FALSE ELSE missed \/ call = "connecting"

SyncToolsUi(tools, k) == switches' = Active(tools, k)

\* enableCamera up to its first await, by a caller that found no stream
AskCamera(r) ==
  /\ r \in Fresh
  /\ stage' = [stage EXCEPT ![r] = "waiting"]
  /\ overlapped' = IF Waiting = {} THEN overlapped ELSE overlapped \cup Waiting \cup {r}

\* autoStartCamera, up to its first await
AutoStart(tools, held) ==
  IF "camera" \in tools /\ held = NoStream
    THEN \E r \in Requests : AskCamera(r)
    ELSE UNCHANGED <<stage, overlapped>>

DisableCamera ==
  /\ stream' = NoStream
  /\ running' = running \ {stream}
  /\ preview' = FALSE
  /\ crossed' = (Pending # {})

----------------------------------------------------------------------------
\* The page

Init ==
  /\ watched \in BOOLEAN
  /\ on \in SUBSET Tools
  /\ key \in {"none", "user"}
  /\ switches = Active(on, key)
  /\ perm \in Permission
  /\ unseen = FALSE
  /\ \E r \in Requests :
       stage = [q \in Requests |->
                  IF q = r /\ "camera" \in on THEN "waiting" ELSE "unused"]
  /\ flipped = {}
  /\ stream = NoStream
  /\ running = {}
  /\ preview = FALSE
  /\ call = "none"
  /\ offered = {}
  /\ overlapped = {} /\ crossed = FALSE /\ missed = FALSE

\* A reload: only what was saved survives, and every camera stops.
Load ==
  /\ \E auto \in Fresh :
       stage' = [r \in Requests |->
                   IF r = auto /\ "camera" \in on THEN "waiting"
                   ELSE IF r \in Pending THEN "over" ELSE stage[r]]
  /\ key' \in IF key = "server" THEN {"none", "user"} ELSE {key}
  /\ SyncToolsUi(on, key')
  /\ unseen' = FALSE
  /\ stream' = NoStream
  /\ running' = {}
  /\ preview' = FALSE
  /\ call' = "none"
  /\ offered' = {}
  /\ crossed' = FALSE /\ missed' = FALSE
  /\ UNCHANGED <<watched, on, perm, flipped, overlapped>>

\* fetchConfig reports that the server holds the search key.
ServerKey ==
  /\ key # "server"
  /\ key' = "server"
  /\ SyncToolsUi(on, key')
  /\ UNCHANGED <<watched, on, perm, unseen, stage, flipped, stream, running,
                 preview, call, offered, history>>

OpenTools ==
  /\ SyncToolsUi(on, key)
  /\ UNCHANGED <<watched, on, key, perm, unseen, stage, flipped, stream,
                 running, preview, call, offered, history>>

\* Mutants: a key that is taken away is noticed only by the page; or by the
\* session, and the switch stays checked.
TypeKeyUnpushed ==
  \/ /\ key = "none"
     /\ key' = "user"
     /\ UNCHANGED <<on, switches, offered, missed>>
  \/ /\ key = "user"
     /\ key' = "none"
     /\ on' = on \ {"web"}
     /\ switches' = switches \ {"web"}
     /\ UNCHANGED <<offered, missed>>

TypeKeyChecked ==
  \/ /\ key = "none"
     /\ key' = "user"
     /\ UNCHANGED <<on, switches, offered, missed>>
  \/ /\ key = "user"
     /\ key' = "none"
     /\ on' = on \ {"web"}
     /\ UNCHANGED switches
     /\ IF "web" \in on THEN Push(on', key') ELSE UNCHANGED <<offered, missed>>

\* The search key's input: gaining a key only frees the switch, losing it
\* also turns the tool off.
TypeKey ==
  \/ /\ key = "none"
     /\ key' = "user"
     /\ UNCHANGED <<on, switches, offered, missed>>
  \/ /\ key = "user"
     /\ key' = "none"
     /\ on' = on \ {"web"}
     /\ IF "web" \in on
          THEN switches' = switches \ {"web"} /\ Push(on', key')
          ELSE UNCHANGED <<switches, offered, missed>>

KeyInput ==
  /\ TypeKey
  /\ UNCHANGED <<watched, perm, unseen, stage, flipped, stream, running,
                 preview, call, overlapped, crossed>>

\* The web switch is disabled without a key.
FlipWeb ==
  /\ key # "none"
  /\ IF "web" \in switches
       THEN switches' = switches \ {"web"} /\ on' = on \ {"web"}
       ELSE switches' = switches \cup {"web"} /\ on' = on \cup {"web"}
  /\ Push(on', key)
  /\ UNCHANGED <<watched, key, perm, unseen, stage, flipped, stream, running,
                 preview, call, overlapped, crossed>>

FlipCameraOn ==
  /\ "camera" \notin switches
  /\ switches' = switches \cup {"camera"}
  /\ IF stream # NoStream
       THEN /\ on' = on \cup {"camera"}
            /\ Push(on', key)
            /\ UNCHANGED <<stage, flipped, overlapped>>
       ELSE /\ \E r \in Requests : AskCamera(r) /\ flipped' = flipped \cup {r}
            /\ UNCHANGED <<on, offered, missed>>
  /\ UNCHANGED <<watched, key, perm, unseen, stream, running, preview, call, crossed>>

FlipCameraOff ==
  /\ "camera" \in switches
  /\ switches' = switches \ {"camera"}
  /\ on' = on \ {"camera"}
  /\ DisableCamera
  /\ Push(on', key)
  /\ UNCHANGED <<watched, key, perm, unseen, stage, flipped, call, overlapped>>

\* Mutant: a stream that arrives is not kept.
CameraStartsUnheld(r) ==
  /\ r \in Waiting
  /\ perm = "granted"
  /\ stream' = stream
  /\ running' = running \cup {r}
  /\ stage' = [stage EXCEPT ![r] = "playing"]
  /\ UNCHANGED <<watched, on, switches, key, perm, unseen, flipped, preview,
                 call, offered, history>>

\* getUserMedia resolves: the page holds this stream from now on.
CameraStarts(r) ==
  /\ r \in Waiting
  /\ perm = "granted"
  /\ stream' = r
  /\ running' = running \cup {r}
  /\ stage' = [stage EXCEPT ![r] = "playing"]
  /\ UNCHANGED <<watched, on, switches, key, perm, unseen, flipped, preview,
                 call, offered, history>>

\* play() settles, the preview appears, and the switch's caller goes on.
CameraShows(r) ==
  /\ r \in Playing
  /\ stage' = [stage EXCEPT ![r] = "over"]
  /\ preview' = TRUE
  /\ IF r \in flipped
       THEN on' = on \cup {"camera"} /\ Push(on', key)
       ELSE UNCHANGED <<on, offered, missed>>
  /\ UNCHANGED <<watched, switches, key, perm, unseen, flipped, stream,
                 running, call, overlapped, crossed>>

\* Mutant: the tool stays enabled after an auto-start failed.
CameraFailsStillOn(r) ==
  /\ r \in Waiting
  /\ stage' = [stage EXCEPT ![r] = "over"]
  /\ switches' = switches \ {"camera"}
  /\ crossed' = (crossed \/ r \in overlapped)
  /\ UNCHANGED <<watched, on, key, perm, unseen, flipped, stream, running,
                 preview, call, offered, overlapped, missed>>

\* getUserMedia rejects: refused, dismissed, or the device fails.
CameraFails(r) ==
  /\ r \in Waiting
  /\ stage' = [stage EXCEPT ![r] = "over"]
  /\ IF r \in flipped
       THEN switches' = switches \ {"camera"} /\ UNCHANGED on
       ELSE on' = on \ {"camera"} /\ SyncToolsUi(on', key)
  /\ crossed' = (crossed \/ r \in overlapped)
  /\ UNCHANGED <<watched, key, perm, unseen, flipped, stream, running,
                 preview, call, offered, overlapped, missed>>

----------------------------------------------------------------------------
\* The permission

AnswerPrompt ==
  /\ perm = "prompt"
  /\ Waiting # {}
  /\ perm' \in {"granted", "denied"}
  /\ unseen' = TRUE
  /\ UNCHANGED <<watched, on, switches, key, stage, flipped, stream, running,
                 preview, call, offered, history>>

\* In the browser's own settings; losing the permission ends the tracks.
ChangePermission ==
  /\ perm' \in Permission \ {perm}
  /\ running' = IF perm' = "granted" THEN running ELSE {}
  /\ unseen' = TRUE
  /\ UNCHANGED <<watched, on, switches, key, stage, flipped, stream, preview,
                 call, offered, history>>

PermissionGranted ==
  /\ perm = "granted"
  /\ on' = on \cup {"camera"}
  /\ AutoStart(on', stream)
  /\ UNCHANGED <<stream, running, preview, crossed>>

\* Mutant: a refusal turns the tool off and leaves the camera held.
PermissionDeniedHeld ==
  /\ perm = "denied"
  /\ on' = on \ {"camera"}
  /\ UNCHANGED <<stream, running, preview, stage, overlapped, crossed>>

PermissionDenied ==
  /\ perm = "denied"
  /\ on' = on \ {"camera"}
  /\ DisableCamera
  /\ UNCHANGED <<stage, overlapped>>

\* The permission's change listener.
PermissionChanged ==
  /\ watched
  /\ unseen
  /\ unseen' = FALSE
  /\ \/ PermissionGranted /\ SyncToolsUi(on', key)
     \/ PermissionDenied /\ SyncToolsUi(on', key)
     \/ perm = "prompt" /\ UNCHANGED <<on, switches, stage, stream, running,
                                       preview, overlapped, crossed>>
  /\ UNCHANGED <<watched, key, perm, flipped, call, offered, missed>>

----------------------------------------------------------------------------
\* The conversation, as far as the tools see it

StartCall ==
  /\ call = "none"
  /\ call' = "connecting"
  /\ offered' = Active(on, key)
  /\ missed' = FALSE
  /\ UNCHANGED <<watched, on, switches, key, perm, unseen, stage, flipped,
                 stream, running, preview, overlapped, crossed>>

GoLive ==
  /\ call = "connecting"
  /\ call' = "live"
  /\ UNCHANGED <<watched, on, switches, key, perm, unseen, stage, flipped,
                 stream, running, preview, offered, history>>

EndCall ==
  /\ call # "none"
  /\ call' = "none"
  /\ offered' = {}
  /\ UNCHANGED <<watched, on, switches, key, perm, unseen, stage, flipped,
                 stream, running, preview, history>>

Next ==
  \/ Load \/ ServerKey \/ OpenTools \/ KeyInput \/ FlipWeb
  \/ FlipCameraOn \/ FlipCameraOff
  \/ \E r \in Requests : CameraStarts(r) \/ CameraShows(r) \/ CameraFails(r)
  \/ AnswerPrompt \/ ChangePermission \/ PermissionChanged
  \/ StartCall \/ GoLive \/ EndCall

Spec == Init /\ [][Next]_vars

----------------------------------------------------------------------------
\* Properties

\* No camera captures that the page has lost hold of: disableCamera can stop
\* only the one stream in cameraStream (main.js:755-763).  Nothing but two calls
\* of getUserMedia under way at once can lose one: by the permission's listener, or
\* by the switch, flipped off and on during a prompt (main.js:692-715, 740-746, 790).
OneCamera == running \subseteq {stream} \cup overlapped

\* At rest the camera is held exactly when its tool is enabled and its preview is
\* on the page: what is saved for the next visit is what the user sees, and
\* nobody is filmed without seeing it (main.js:692-715, 740-779); however switch,
\* prompt, permission and reload follow on each other, unless a call was switched
\* off while it was under way, or one of two calls under way failed.  The next
\* time it is switched off at rest, they agree again.
CameraFollowsTool ==
  Pending = {} /\ ~crossed =>
    /\ stream # NoStream <=> "camera" \in on
    /\ stream # NoStream <=> preview

\* "A revoke turns it off" (main.js:782-783): once the listener has handled a
\* refusal, and until it is reversed, the page holds no camera, whatever requests and
\* reloads come in between; and once they have ended the tool is off, with the
\* same exception.
RevokeTurnsItOff ==
  watched /\ perm = "denied" /\ ~unseen =>
    stream = NoStream /\ (Pending = {} /\ ~crossed => "camera" \notin on)

\* The camera toggle stops the webcam (main.js:1750-1751): once it is flipped
\* off with no request under way, nothing captures.
ToggleStopsCamera ==
  [][FlipCameraOff /\ Pending = {} => running' = {}]_vars

\* "Toggles apply mid-call" (main.js:396): a live conversation offers the model a
\* web search only while the tool is on and the page has a key for it, whenever
\* switch and key were changed, but for a change while it connects, of which
\* the session is not told before the next one (main.js:397-398).
OffersUsableSearch ==
  call = "live" /\ ~missed /\ "web" \in offered => "web" \in Active(on, key)
=============================================================================
