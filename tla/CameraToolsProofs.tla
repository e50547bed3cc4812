------------------------- MODULE CameraToolsProofs -------------------------
(***************************************************************************)
(* What the tool switches and the webcam keep for every set of requests,   *)
(* whatever the user, the browser and the page do while one is under way.  *)
(***************************************************************************)
EXTENDS CameraTools, TLAPS

\* The requests the switch made have been used.
FlippedUsed == flipped \cap Fresh = {}

\* Of two requests under way each is known to overlap the other, and while one
\* is, the page does not hold a stream that it could make it lose.
Counted ==
  /\ OneCamera
  /\ \A r, s \in Waiting : r # s => r \in overlapped
  /\ Waiting # {} => running \subseteq overlapped

\* The tool, the stream and the preview agree, up to what the requests under way
\* will make of them.
Agree ==
  ~crossed =>
    /\ "camera" \in on => stream # NoStream \/ Waiting # {}
    /\ stream # NoStream => "camera" \in on \/ Playing \cap flipped # {}
    /\ stream # NoStream => preview \/ Playing # {}
    /\ preview \/ Playing # {} => stream # NoStream
    /\ \A r \in Pending : r \in flipped \/ "camera" \in on
    /\ \A r \in Waiting \ overlapped :
         Pending = {r} /\ stream = NoStream /\ (r \in flipped => "camera" \notin on)

\* No stream arrives without permission.
Refused == watched /\ perm = "denied" /\ ~unseen => stream = NoStream

\* What a session was offered it may use from the start.
Usable == call # "none" /\ ~missed /\ "web" \in offered => "web" \in on /\ key # "none"

----------------------------------------------------------------------------
\* Type correctness

LEMMA ActiveTools ==
  ASSUME NEW tools \in SUBSET Tools, NEW k
  PROVE  /\ Active(tools, k) \in SUBSET Tools
         /\ "web" \in Active(tools, k) => "web" \in tools /\ k # "none"
         /\ Active(tools, k) \subseteq tools
BY DEF Active

LEMMA PushTypeOK ==
  ASSUME TypeOK, NEW tools \in SUBSET Tools, NEW k, Push(tools, k)
  PROVE  offered' \subseteq Tools /\ missed' \in BOOLEAN
<1>1. CASE call = "live"
  BY <1>1, ActiveTools DEF Push
<1>2. CASE call # "live"
  BY <1>2 DEF Push, TypeOK
<1> QED
  BY <1>1, <1>2

LEMMA InitTypeOK == Init => TypeOK
<1> SUFFICES ASSUME Init PROVE TypeOK
  OBVIOUS
<1>1. PICK r \in Requests :
        stage = [q \in Requests |-> IF q = r /\ "camera" \in on THEN "waiting" ELSE "unused"]
  BY DEF Init
<1>2. switches \subseteq Tools /\ ("web" \in switches => "web" \in on /\ key # "none")
  BY ActiveTools DEF Init
<1> QED
  BY <1>1, <1>2 DEF Init, TypeOK

LEMMA NextTypeOK == TypeOK /\ [Next]_vars => TypeOK'
<1> SUFFICES ASSUME TypeOK, [Next]_vars PROVE TypeOK'
  OBVIOUS
<1> USE DEF TypeOK
<1>1. CASE Load
  <2>1. stage' \in [Requests -> {"unused", "waiting", "playing", "over"}]
    BY <1>1 DEF Load
  <2>2. switches' \subseteq Tools /\ ("web" \in switches' => "web" \in on' /\ key' # "none")
    BY <1>1, ActiveTools DEF Load, SyncToolsUi
  <2> QED
    BY <1>1, <2>1, <2>2 DEF Load
<1>2. CASE ServerKey \/ OpenTools
  BY <1>2, ActiveTools DEF ServerKey, OpenTools, SyncToolsUi, history
<1>3. CASE KeyInput
  <2>1. on' \subseteq Tools /\ switches' \subseteq Tools /\ key' \in {"none", "user", "server"}
        /\ ("web" \in switches' => "web" \in on' /\ key' # "none")
    BY <1>3 DEF KeyInput, TypeKey
  <2>2. offered' \subseteq Tools /\ missed' \in BOOLEAN
    BY <1>3, <2>1, PushTypeOK DEF KeyInput, TypeKey
  <2> QED
    BY <1>3, <2>1, <2>2 DEF KeyInput
<1>4. CASE FlipWeb
  <2>1. on' \subseteq Tools /\ switches' \subseteq Tools
        /\ ("web" \in switches' => "web" \in on' /\ key' # "none")
    BY <1>4 DEF FlipWeb, Tools
  <2>2. offered' \subseteq Tools /\ missed' \in BOOLEAN
    BY <1>4, <2>1, PushTypeOK DEF FlipWeb
  <2> QED
    BY <1>4, <2>1, <2>2 DEF FlipWeb
<1>5. CASE FlipCameraOn
  <2>1. on' \subseteq Tools /\ switches' \subseteq Tools
        /\ ("web" \in switches' => "web" \in on' /\ key' # "none")
    BY <1>5 DEF FlipCameraOn, Tools
  <2>2. offered' \subseteq Tools /\ missed' \in BOOLEAN
    BY <1>5, <2>1, PushTypeOK DEF FlipCameraOn
  <2>3. /\ stage' \in [Requests -> {"unused", "waiting", "playing", "over"}]
        /\ flipped' \subseteq Requests /\ overlapped' \subseteq Requests
    BY <1>5 DEF FlipCameraOn, AskCamera, Waiting
  <2> QED
    BY <1>5, <2>1, <2>2, <2>3 DEF FlipCameraOn
<1>6. CASE FlipCameraOff
  <2>1. on' \subseteq Tools /\ switches' \subseteq Tools
        /\ ("web" \in switches' => "web" \in on' /\ key' # "none")
    BY <1>6 DEF FlipCameraOff
  <2>2. offered' \subseteq Tools /\ missed' \in BOOLEAN
    BY <1>6, <2>1, PushTypeOK DEF FlipCameraOff
  <2> QED
    BY <1>6, <2>1, <2>2 DEF FlipCameraOff, DisableCamera
<1>7. ASSUME NEW r \in Requests, CameraStarts(r) PROVE TypeOK'
  BY <1>7 DEF CameraStarts, history
<1>8. ASSUME NEW r \in Requests, CameraShows(r) PROVE TypeOK'
  <2>1. on' \subseteq Tools /\ on \subseteq on'
    BY <1>8 DEF CameraShows, Tools
  <2>2. offered' \subseteq Tools /\ missed' \in BOOLEAN
    BY <1>8, <2>1, PushTypeOK DEF CameraShows
  <2> QED
    BY <1>8, <2>1, <2>2 DEF CameraShows
<1>9. ASSUME NEW r \in Requests, CameraFails(r) PROVE TypeOK'
  <2>1. /\ on' \subseteq Tools /\ switches' \subseteq Tools
        /\ ("web" \in switches' => "web" \in on' /\ key' # "none")
    <3>1. CASE r \in flipped
      BY <1>9, <3>1 DEF CameraFails
    <3>2. CASE r \notin flipped
      <4>1. /\ on' = on \ {"camera"} /\ on' \subseteq Tools /\ key' = key
            /\ switches' = Active(on', key)
        BY <1>9, <3>2 DEF CameraFails, SyncToolsUi
      <4> QED
        BY <4>1, ActiveTools
    <3> QED
      BY <3>1, <3>2
  <2>2. stage' \in [Requests -> {"unused", "waiting", "playing", "over"}]
    BY <1>9 DEF CameraFails
  <2>3. crossed' \in BOOLEAN
    BY <1>9, Zenon DEF CameraFails
  <2> QED
    BY <1>9, <2>1, <2>2, <2>3 DEF CameraFails
<1>10. CASE AnswerPrompt \/ ChangePermission
  BY <1>10 DEF AnswerPrompt, ChangePermission, Permission, history
<1>11. CASE PermissionChanged
  BY <1>11, ActiveTools DEF PermissionChanged, PermissionGranted, PermissionDenied,
     SyncToolsUi, AutoStart, AskCamera, DisableCamera, Fresh, Waiting, Tools
<1>12. CASE StartCall \/ GoLive \/ EndCall
  BY <1>12, ActiveTools DEF StartCall, GoLive, EndCall, history
<1>13. CASE UNCHANGED vars
  BY <1>13 DEF vars, history
<1> QED
  BY <1>1, <1>2, <1>3, <1>4, <1>5, <1>6, <1>7, <1>8, <1>9, <1>10, <1>11, <1>12, <1>13 DEF Next

\* Every reachable state is well typed, however awaits, permission and user interleave.
THEOREM TypeCorrect == Spec => []TypeOK
<1> QED
  BY InitTypeOK, NextTypeOK, PTL DEF Spec

----------------------------------------------------------------------------
\* The requests of the switch

LEMMA NextFlippedUsed == TypeOK /\ FlippedUsed /\ [Next]_vars => FlippedUsed'
<1> SUFFICES ASSUME TypeOK, FlippedUsed, [Next]_vars PROVE FlippedUsed'
  OBVIOUS
<1> USE DEF TypeOK, FlippedUsed, Fresh
<1>1. CASE Load
  BY <1>1 DEF Load
<1>2. CASE FlipCameraOn
  BY <1>2 DEF FlipCameraOn, AskCamera
<1>3. ASSUME NEW r \in Requests, CameraStarts(r) \/ CameraShows(r) \/ CameraFails(r)
      PROVE  FlippedUsed'
  BY <1>3 DEF CameraStarts, CameraShows, CameraFails
<1>4. CASE PermissionChanged
  BY <1>4 DEF PermissionChanged, PermissionGranted, PermissionDenied, AutoStart, AskCamera
<1>5. CASE UNCHANGED <<stage, flipped>>
  BY <1>5
<1> QED
  BY <1>1, <1>2, <1>3, <1>4, <1>5 DEF Next, ServerKey, OpenTools, KeyInput, FlipWeb,
     FlipCameraOff, AnswerPrompt, ChangePermission, StartCall, GoLive, EndCall, vars, history

LEMMA AlwaysFlippedUsed == Spec => [](TypeOK /\ FlippedUsed)
<1>1. Init => FlippedUsed
  BY DEF Init, FlippedUsed
<1> QED
  BY <1>1, InitTypeOK, NextTypeOK, NextFlippedUsed, PTL DEF Spec

----------------------------------------------------------------------------
\* Streams that are lost

LEMMA InitCounted == Init => Counted
BY DEF Init, Counted, OneCamera, Waiting

\* A request is made by a page without a stream.
LEMMA AskCounted ==
  ASSUME TypeOK, Counted, NEW r \in Requests, AskCamera(r), stream = NoStream,
         stream' = stream, running' = running
  PROVE  Counted'
<1>1. Waiting' = Waiting \cup {r} /\ r \notin Waiting
  BY DEF AskCamera, Waiting, Fresh, TypeOK
<1>2. running \subseteq overlapped
  BY CameraAssumption DEF Counted, OneCamera, TypeOK
<1> QED
  BY <1>1, <1>2 DEF AskCamera, Counted, OneCamera

LEMMA NextCounted == TypeOK /\ Counted /\ [Next]_vars => Counted'
<1> SUFFICES ASSUME TypeOK, Counted, [Next]_vars PROVE Counted'
  OBVIOUS
<1>1. CASE Load
  <2>1. \A r, s \in Waiting' : r = s
    BY <1>1 DEF Load, Waiting, Pending, Playing
  <2> QED
    BY <1>1, <2>1 DEF Load, Counted, OneCamera
<1>2. ASSUME UNCHANGED <<stage, stream, overlapped>>, running' \subseteq running
      PROVE  Counted'
  BY <1>2 DEF Counted, OneCamera, Waiting
<1>3. ASSUME DisableCamera, UNCHANGED <<stage, overlapped>>
      PROVE  Counted'
  BY <1>3 DEF DisableCamera, Counted, OneCamera, Waiting
<1>4. CASE FlipCameraOn
  BY <1>2, <1>4, AskCounted DEF FlipCameraOn
<1>5. CASE FlipCameraOff
  BY <1>3, <1>5 DEF FlipCameraOff
<1>6. ASSUME NEW r \in Requests, CameraStarts(r) PROVE Counted'
  <2>1. Waiting' = Waiting \ {r} /\ r \in Waiting
    BY <1>6 DEF CameraStarts, Waiting, TypeOK
  <2>2. running \subseteq overlapped
    BY <2>1 DEF Counted
  <2>3. Waiting' # {} => r \in overlapped
    BY <2>1 DEF Counted
  <2> QED
    BY <1>6, <2>1, <2>2, <2>3 DEF CameraStarts, Counted, OneCamera, history
<1>7. ASSUME NEW r \in Requests, CameraShows(r) \/ CameraFails(r) PROVE Counted'
  <2>1. Waiting' \subseteq Waiting
    BY <1>7 DEF CameraShows, CameraFails, Waiting, TypeOK
  <2>2. UNCHANGED <<stream, running, overlapped>>
    BY <1>7 DEF CameraShows, CameraFails
  <2> QED
    BY <2>1, <2>2 DEF Counted, OneCamera
<1>8. CASE PermissionChanged
  BY <1>2, <1>3, <1>8, AskCounted DEF PermissionChanged, PermissionGranted, PermissionDenied, AutoStart
<1> QED
  BY <1>1, <1>2, <1>4, <1>5, <1>6, <1>7, <1>8 DEF Next, ServerKey, OpenTools, KeyInput, FlipWeb,
     AnswerPrompt, ChangePermission, StartCall, GoLive, EndCall, vars, history

\* Nothing but two requests under way at once makes the page lose a stream
\* (main.js:740-763): all that captures is the stream in cameraStream, and those.
THEOREM OnlyOverlapsLeak == Spec => []OneCamera
<1>1. Counted => OneCamera
  BY DEF Counted
<1> QED
  BY <1>1, InitCounted, NextCounted, AlwaysFlippedUsed, PTL DEF Spec

\* "Only the camera toggle stops it" (main.js:1750-1751), and so it does but for
\* streams of requests that were under way at once.
THEOREM ToggleLeavesOnlyOverlaps == Spec => [][FlipCameraOff => running' \subseteq overlapped]_vars
<1>1. OneCamera /\ [Next]_vars => [FlipCameraOff => running' \subseteq overlapped]_vars
  BY DEF OneCamera, FlipCameraOff, DisableCamera
<1> QED
  BY <1>1, OnlyOverlapsLeak, PTL DEF Spec

----------------------------------------------------------------------------
\* The tool, the stream and the preview agree

LEMMA InitAgree == Init => Agree
<1> SUFFICES ASSUME Init PROVE Agree
  OBVIOUS
<1>1. PICK r \in Requests :
        stage = [q \in Requests |-> IF q = r /\ "camera" \in on THEN "waiting" ELSE "unused"]
  BY DEF Init
<1>2. Playing = {} /\ Waiting = IF "camera" \in on THEN {r} ELSE {}
  BY <1>1 DEF Waiting, Playing
<1> QED
  BY <1>2 DEF Init, Agree, Pending

\* A request is made: by the switch, of a tool that is off, or for a tool that is on.
LEMMA AskAgree ==
  ASSUME TypeOK, FlippedUsed, Agree, NEW r \in Requests, AskCamera(r), stream = NoStream,
         UNCHANGED <<stream, preview, crossed>>,
         \/ on' = on /\ flipped' = flipped \cup {r}
         \/ "camera" \in on' /\ flipped' = flipped
  PROVE  Agree'
<1>1. /\ Waiting' = Waiting \cup {r} /\ r \notin Pending /\ Playing' = Playing
      /\ Pending' = Pending \cup {r} /\ r \in Fresh
  BY DEF AskCamera, Waiting, Playing, Pending, Fresh, TypeOK
<1>2. CASE Waiting = {}
  BY <1>1, <1>2 DEF Agree, FlippedUsed, Pending
<1>3. CASE Waiting # {}
  BY <1>1, <1>3 DEF Agree, AskCamera
<1> QED
  BY <1>2, <1>3

LEMMA NextAgree == TypeOK /\ FlippedUsed /\ Agree /\ [Next]_vars => Agree'
<1> SUFFICES ASSUME TypeOK, FlippedUsed, Agree, [Next]_vars PROVE Agree'
  OBVIOUS
<1>1. CASE Load
  <2>1. PICK auto \in Fresh :
          stage' = [r \in Requests |->
                      IF r = auto /\ "camera" \in on THEN "waiting"
                      ELSE IF r \in Pending THEN "over" ELSE stage[r]]
    BY <1>1 DEF Load
  <2>2. auto \in Requests /\ auto \notin flipped
    BY DEF Fresh, FlippedUsed
  <2>3. Playing' = {} /\ Waiting' = IF "camera" \in on THEN {auto} ELSE {}
    BY <2>1, <2>2 DEF Waiting, Playing, Pending
  <2> QED
    BY <1>1, <2>2, <2>3 DEF Load, Agree, Pending
\* A camera that is switched off at rest is off.
<1>2. ASSUME DisableCamera, UNCHANGED stage, "camera" \notin on'
      PROVE  Agree'
  BY <1>2 DEF DisableCamera, Agree, Pending, Waiting, Playing
<1>3. ASSUME UNCHANGED <<stage, flipped, stream, preview, overlapped, crossed>>,
             "camera" \in on' <=> "camera" \in on
      PROVE  Agree'
  BY <1>3 DEF Agree, Pending, Waiting, Playing
\* A camera that is held, or already on its way, is what the tool is on for.
<1>4. ASSUME UNCHANGED <<stage, flipped, stream, preview, overlapped, crossed>>,
             stream # NoStream, on' = on \cup {"camera"}
      PROVE  Agree'
  BY <1>4 DEF Agree, Pending, Waiting, Playing
<1>5. CASE FlipCameraOn
  BY <1>4, <1>5, AskAgree DEF FlipCameraOn
<1>6. CASE FlipCameraOff
  BY <1>2, <1>6 DEF FlipCameraOff
<1>7. ASSUME NEW r \in Requests, CameraStarts(r) PROVE Agree'
  <2>1. /\ r \in Waiting /\ Waiting' = Waiting \ {r} /\ Playing' = Playing \cup {r}
        /\ Pending' = Pending /\ r \in Pending
    BY <1>7 DEF CameraStarts, Waiting, Playing, Pending, TypeOK
  <2>2. stream' = r /\ r # NoStream /\ UNCHANGED <<on, flipped, preview, overlapped, crossed>>
    BY <1>7, CameraAssumption DEF CameraStarts, history
  <2> QED
    BY <2>1, <2>2 DEF Agree
<1>8. ASSUME NEW r \in Requests, CameraShows(r) PROVE Agree'
  <2>1. /\ r \in Playing /\ Waiting' = Waiting /\ Playing' = Playing \ {r}
        /\ r \in Pending /\ r \notin Waiting /\ Pending' = Pending \ {r}
    BY <1>8 DEF CameraShows, Waiting, Playing, Pending, TypeOK
  <2>2. /\ preview' = TRUE /\ UNCHANGED <<stream, flipped, overlapped, crossed>>
        /\ on' = IF r \in flipped THEN on \cup {"camera"} ELSE on
    BY <1>8 DEF CameraShows
  <2> QED
    BY <2>1, <2>2 DEF Agree
<1>9. ASSUME NEW r \in Requests, CameraFails(r) PROVE Agree'
  <2>1. r \in Waiting /\ Waiting' = Waiting \ {r} /\ Playing' = Playing /\ Pending' = Pending \ {r}
    BY <1>9 DEF CameraFails, Waiting, Playing, Pending, TypeOK
  <2>2. /\ UNCHANGED <<stream, preview, flipped, overlapped>> /\ crossed' = (crossed \/ r \in overlapped)
        /\ on' = IF r \in flipped THEN on ELSE on \ {"camera"}
    BY <1>9 DEF CameraFails
  <2>3. Playing \subseteq Pending /\ Waiting \subseteq Pending
    BY DEF Pending
  <2> QED
    BY <2>1, <2>2, <2>3 DEF Agree
<1>10. CASE PermissionChanged
  BY <1>2, <1>3, <1>4, <1>10, AskAgree
     DEF PermissionChanged, PermissionGranted, PermissionDenied, AutoStart
<1>11. CASE KeyInput \/ FlipWeb
  BY <1>3, <1>11 DEF KeyInput, TypeKey, FlipWeb
<1> QED
  BY <1>1, <1>3, <1>5, <1>6, <1>7, <1>8, <1>9, <1>10, <1>11 DEF Next, ServerKey, OpenTools,
     AnswerPrompt, ChangePermission, StartCall, GoLive, EndCall, vars, history

LEMMA AlwaysAgree == Spec => []Agree
BY InitAgree, NextAgree, AlwaysFlippedUsed, PTL DEF Spec

\* At rest the camera is held exactly when its tool is on and its preview shows
\* (main.js:692-715, 740-779), whatever switch, prompt, permission and reload did;
\* but for what `crossed` records, until the camera is next switched off at rest.
THEOREM CameraFollowsItsTool == Spec => []CameraFollowsTool
<1>1. Agree => CameraFollowsTool
  BY DEF Agree, CameraFollowsTool, Pending
<1> QED
  BY <1>1, AlwaysAgree, PTL

----------------------------------------------------------------------------
\* A refused camera

LEMMA NextRefused == TypeOK /\ Refused /\ [Next]_vars => Refused'
<1> SUFFICES ASSUME TypeOK, Refused, [Next]_vars PROVE Refused'
  OBVIOUS
<1> USE DEF Refused
<1>1. CASE Load \/ FlipCameraOn \/ FlipCameraOff
  BY <1>1 DEF Load, FlipCameraOn, FlipCameraOff, DisableCamera
<1>2. ASSUME NEW r \in Requests, CameraStarts(r) \/ CameraShows(r) \/ CameraFails(r)
      PROVE  Refused'
  BY <1>2 DEF CameraStarts, CameraShows, CameraFails
<1>3. CASE AnswerPrompt \/ ChangePermission
  BY <1>3 DEF AnswerPrompt, ChangePermission
<1>4. CASE PermissionChanged
  BY <1>4 DEF PermissionChanged, PermissionGranted, PermissionDenied, DisableCamera
<1>5. CASE UNCHANGED <<watched, perm, unseen, stream>>
  BY <1>5
<1> QED
  BY <1>1, <1>2, <1>3, <1>4, <1>5 DEF Next, ServerKey, OpenTools, KeyInput, FlipWeb, StartCall,
     GoLive, EndCall, vars

\* "A revoke turns it off" (main.js:782-783): once a refusal is handled no camera is
\* held, for any number of requests, and at rest the tool is off.
THEOREM RevokeAlwaysTurnsItOff == Spec => []RevokeTurnsItOff
<1>1. Init => Refused
  BY DEF Init, Refused
<1>2. Refused /\ CameraFollowsTool => RevokeTurnsItOff
  BY DEF Refused, CameraFollowsTool, RevokeTurnsItOff
<1> QED
  BY <1>1, <1>2, TypeCorrect, CameraFollowsItsTool, NextRefused, PTL DEF Spec

----------------------------------------------------------------------------
\* The search a session may use

LEMMA NextUsable == TypeOK /\ Usable /\ [Next]_vars => Usable'
<1> SUFFICES ASSUME TypeOK, Usable, [Next]_vars PROVE Usable'
  OBVIOUS
<1> USE DEF Usable, Active
<1>1. CASE KeyInput \/ FlipWeb
  BY <1>1 DEF KeyInput, TypeKey, FlipWeb, Push, TypeOK
<1>2. CASE FlipCameraOn \/ FlipCameraOff
  BY <1>2 DEF FlipCameraOn, FlipCameraOff, Push
<1>3. ASSUME NEW r \in Requests, CameraStarts(r) \/ CameraShows(r) \/ CameraFails(r)
      PROVE  Usable'
  BY <1>3 DEF CameraStarts, CameraShows, CameraFails, Push, history
<1>4. CASE PermissionChanged
  BY <1>4 DEF PermissionChanged, PermissionGranted, PermissionDenied
<1>5. CASE StartCall \/ GoLive \/ EndCall \/ Load
  BY <1>5 DEF StartCall, GoLive, EndCall, Load, history
<1>6. CASE ServerKey
  BY <1>6 DEF ServerKey, history
<1>7. CASE OpenTools \/ AnswerPrompt \/ ChangePermission \/ UNCHANGED vars
  BY <1>7 DEF OpenTools, AnswerPrompt, ChangePermission, vars, history
<1> QED
  BY <1>1, <1>2, <1>3, <1>4, <1>5, <1>6, <1>7 DEF Next

\* "Toggles apply mid-call" (main.js:396): no live conversation offers a search it
\* cannot make, but for one whose tools changed while it connected, until they
\* change again.
THEOREM SearchStaysUsable == Spec => []OffersUsableSearch
<1>1. Init => Usable
  BY DEF Init, Usable
<1>2. Usable => OffersUsableSearch
  BY DEF Usable, OffersUsableSearch, Active
<1> QED
  BY <1>1, <1>2, TypeCorrect, NextUsable, PTL DEF Spec
=============================================================================
