------------------------- MODULE VoiceClientProofs -------------------------
(***************************************************************************)
(* Theorems about VoiceClient as it is, for any number of calls and of     *)
(* suspended teardowns and whatever its awaits and requests interleave     *)
(* with.                                                                   *)
(***************************************************************************)
EXTENDS VoiceClient, TLAPS

----------------------------------------------------------------------------
\* Type correctness.

Starteds == [Calls -> StartPhases]
Conns    == [Calls -> ConnPhases]

\* What a step with a teardown leaves to the types of its other half.
Untouched ==
  /\ reaped' = reaped /\ spent' = spent /\ booked' \subseteq booked /\ inLine' \subseteq inLine
  /\ overlapped' = overlapped /\ pressed' \in BOOLEAN /\ cutStale' \in BOOLEAN
  /\ cut' \in Calls \union {NoCall}
  /\ beat' \in [Calls -> BeatPhases] /\ wire' \in [Calls -> WirePhases]

\* Both halves of a teardown write values of the variables' types.
LEMMA TeardownTypeOK ==
  ASSUME TypeOK, NEW kind \in Kinds, NEW next \in Calls \union {NoCall},
         NEW shown \in UiStates, NEW started \in Starteds, NEW conns \in Conns,
         Teardown(kind, next, shown, started, conns),
         Untouched
  PROVE  TypeOK'
<1> USE DEF Starteds, Conns, Teardown, Farewell, Untouched
<1>1. CASE client = NoCall
  <2>1. ui' \in UiStates /\ modal' \in Modals /\ start' \in Starteds
    BY <1>1 DEF TypeOK, Complete, AfterUi, AfterModal, UiStates, Modals, Kinds, StartPhases
  <2> QED
    BY <1>1, <2>1 DEF TypeOK, Complete
<1>2. CASE client # NoCall
  <2>1. client \in Calls
    BY <1>2 DEF TypeOK
  <2>2. td' \in [Teardowns -> [kind : Kinds, of : Calls, next : Calls \union {NoCall}]
                               \union {NoTeardown}]
    BY <1>2, <2>1 DEF TypeOK
  <2>3. conn' \in Conns /\ start' \in Starteds /\ micPending' \in SUBSET Calls
    BY <1>2, <2>1 DEF TypeOK, ConnPhases, StartPhases
  <2> QED
    BY <1>2, <2>2, <2>3 DEF TypeOK
<1> QED
  BY <1>1, <1>2

\* A connect() that fails is torn down, after a refusal or with its request left out.
LEMMA FailsByRejection ==
  ASSUME NEW c \in Calls, ConnectFails(c)
  PROVE  /\ Loaded /\ conn[c] \in InProgress \ {"open"}
         /\ \E kind \in {"limit", "login", "busy", "fatal"} : Reject(c, kind) /\ (kind = "limit" => spent)
         /\ \/ UNCHANGED <<wire, inLine>>
            \/ /\ wire[c] \in {"posted", "polled"}
               /\ wire' = [wire EXCEPT ![c] = "none"]
               /\ \/ UNCHANGED inLine
                  \/ wire[c] = "polled" /\ inLine' = inLine \ {c}
BY DEF ConnectFails, Refused, InProgress

LEMMA StepTypeOK == TypeOK /\ [Next]_vars => TypeOK'
<1> SUFFICES ASSUME TypeOK, [Next]_vars PROVE TypeOK'
  OBVIOUS
<1>0. /\ start \in Starteds /\ conn \in Conns /\ ui \in UiStates
      /\ "error" \in UiStates
      /\ {"stop", "limit", "fatal", "restart", "login", "busy"} \subseteq Kinds
  BY DEF TypeOK, Starteds, Conns, UiStates, Kinds
<1>u. /\ UNCHANGED <<beat, wire, server, history>> => Untouched
      /\ UNCHANGED <<beat, wire, server>> /\ Press => Untouched
  BY DEF Untouched, TypeOK, server, history, Press
<1> DEFINE Returned(c) == [start EXCEPT ![c] = "returned"]
           Failed(c)   == [conn EXCEPT ![c] = "failed"]
<1>r. \A c \in Calls : Returned(c) \in Starteds /\ Failed(c) \in Conns
  BY <1>0 DEF Starteds, Conns, StartPhases, ConnPhases
<1>1. ASSUME NEW k \in Teardowns, FinishTeardown(k) PROVE TypeOK'
  <2>1. td[k] \in [kind : Kinds, of : Calls, next : Calls \union {NoCall}]
    BY <1>1 DEF TypeOK, FinishTeardown
  <2>2. ui' \in UiStates /\ modal' \in Modals /\ start' \in Starteds
    BY <1>0, <1>1, <2>1 DEF FinishTeardown, Complete, AfterUi, AfterModal, UiStates,
       Modals, Kinds, Starteds, StartPhases, TypeOK
  <2>3. conn' \in Conns
    BY <1>0, <1>1, <2>1 DEF FinishTeardown, Conns, ConnPhases
  <2> QED
    BY <1>1, <2>2, <2>3 DEF TypeOK, FinishTeardown, Complete, Starteds, Conns,
       meter, net, farewells, server, history
<1>2. ASSUME NEW c \in Calls, TapCircle(c) PROVE TypeOK'
  BY <1>2 DEF TapCircle, DoStart, Unused, Press, TypeOK, UiStates, StartPhases, Modals, media, meter,
     net, farewells, server
<1>3. ASSUME NEW c \in Calls, Restart(c) PROVE TypeOK'
  <2>1. CASE client = NoCall
    BY <1>3, <2>1 DEF Restart, DoStart, Unused, Press, TypeOK, UiStates, StartPhases, Modals, media,
       meter, net, farewells, server
  <2>2. CASE client # NoCall
    <3>1. [start EXCEPT ![c] = "restarting"] \in Starteds
      BY DEF TypeOK, Starteds, StartPhases
    <3> QED
      BY <1>0, <1>3, <1>u, <2>2, <3>1, TeardownTypeOK DEF Restart
  <2> QED
    BY <2>1, <2>2
<1>4. ASSUME NEW c \in Calls, PrimeGranted(c) PROVE TypeOK'
  BY <1>4 DEF PrimeGranted, TypeOK, UiStates, StartPhases, ConnPhases, WirePhases, media, meter,
     farewells, server
<1>5. ASSUME NEW c \in Calls, PrimeDenied(c) PROVE TypeOK'
  BY <1>0, <1>5, <1>r, <1>u, TeardownTypeOK DEF PrimeDenied
<1>6. ASSUME NEW c \in Calls, Granted(c) \/ Queued(c) \/ ReadyToJoin(c) PROVE TypeOK'
  BY <1>6 DEF Granted, SessionEvent, Queued, ReadyToJoin, TypeOK, UiStates, ConnPhases, WirePhases,
     media, farewells, server, history
<1>7. ASSUME NEW c \in Calls, Grant(c) \/ Enqueue(c) \/ Claim(c) PROVE TypeOK'
  BY <1>7 DEF Grant, Enqueue, Claim, Book, TypeOK, WirePhases, page, media, meter, farewells, history
<1>8. ASSUME NEW c \in Calls, ServeEnd(c) \/ ServeLeave(c) PROVE TypeOK'
  BY <1>8 DEF ServeEnd, ServeLeave, TypeOK, page, media, meter, history
<1>9. ASSUME Join PROVE TypeOK'
  BY <1>9 DEF Join, SessionEvent, TypeOK, UiStates, ConnPhases, media, net, farewells, server, history
<1>10. ASSUME NEW c \in Calls, AcquireMic(c) \/ AcquireMicLate(c) PROVE TypeOK'
  BY <1>10 DEF AcquireMic, AcquireMicLate, TypeOK, ConnPhases, meter, net, farewells, server, history
<1>11. ASSUME NEW c \in Calls, Connected(c) \/ Speaking(c) PROVE TypeOK'
  BY <1>11 DEF Connected, Speaking, TypeOK, UiStates, ConnPhases, StartPhases, media, meter, net,
     farewells, server, history
<1>12. ASSUME NEW c \in Calls, ConnectFails(c) PROVE TypeOK'
  <2>1. PICK kind \in {"limit", "login", "busy", "fatal"} : Reject(c, kind)
    BY <1>12, FailsByRejection
  <2>2. inLine' \subseteq inLine /\ wire' \in [Calls -> WirePhases]
    BY <1>12, FailsByRejection DEF TypeOK, WirePhases
  <2>3. Untouched
    BY <2>1, <2>2 DEF Reject, Untouched, TypeOK, history
  <2> QED
    BY <1>0, <1>r, <2>1, <2>3, TeardownTypeOK DEF Reject
<1>13. ASSUME NEW c \in Calls, ClientError(c) PROVE TypeOK'
  BY <1>0, <1>13, <1>r, <1>u, TeardownTypeOK DEF ClientError
<1>14. ASSUME NEW c \in Calls, HeartbeatServed(c) \/ HeartbeatLost(c) PROVE TypeOK'
  BY <1>14 DEF HeartbeatServed, HeartbeatLost, TypeOK, BeatPhases, media, meter, net, farewells,
     server, history
<1>15. ASSUME NEW c \in Calls, HeartbeatExpired(c) PROVE TypeOK'
  <2>1. Untouched
    BY <1>15 DEF HeartbeatExpired, Untouched, TypeOK, BeatPhases, server
  <2> QED
    BY <1>0, <1>15, <2>1, TeardownTypeOK DEF HeartbeatExpired
<1>16. ASSUME Stop \/ LeaveQueue PROVE TypeOK'
  BY <1>0, <1>16, <1>u, TeardownTypeOK DEF Stop, LeaveQueue
<1>17. ASSUME PageHide PROVE TypeOK'
  BY <1>17 DEF PageHide, Farewell, TypeOK, UiStates, Modals, StartPhases, ConnPhases, BeatPhases,
     server, history
<1>18. ASSUME HeartbeatTick PROVE TypeOK'
  BY <1>18 DEF HeartbeatTick, TypeOK, BeatPhases, media, meter, net, farewells, server, history
<1>19. ASSUME SpendBudget \/ UNCHANGED vars PROVE TypeOK'
  BY <1>19 DEF SpendBudget, TypeOK, vars, page, media, meter, net, farewells, server, history
<1>20. ASSUME NEW c \in Calls, Lapse(c) PROVE TypeOK'
  BY <1>20 DEF Lapse, TypeOK, page, media, meter, net, farewells, history
<1> QED
  BY <1>1, <1>2, <1>3, <1>4, <1>5, <1>6, <1>7, <1>8, <1>9, <1>10, <1>11, <1>12,
     <1>13, <1>14, <1>15, <1>16, <1>17, <1>18, <1>19, <1>20 DEF Next, CallStep, ServerStep

LEMMA InitTypeOK == Init => TypeOK
BY DEF Init, TypeOK, UiStates, Modals, StartPhases, ConnPhases, BeatPhases, WirePhases

\* The page's variables keep their types whatever its awaits and requests interleave
\* with.
THEOREM TypeCorrect == Spec => []TypeOK
BY InitTypeOK, StepTypeOK, PTL DEF Spec

----------------------------------------------------------------------------
\* What the page and the server know of each call.

Unborn == {"unused", "restarting", "priming"}

\* Phases of a connection before it is told of a slot, and while it has one.
Early  == {"none", "asking", "queued"}
Seated == {"held", "dialing", "dialed", "open"}

\* The request of a call, and where its place can be.
Requests ==
  \A c \in Calls :
    /\ start[c] \in Unborn => conn[c] = "none"
    /\ conn[c] = "none" => wire[c] = "none" /\ c \notin booked \union inLine
    /\ conn[c] \in Seated => wire[c] = "none"
    /\ wire[c] = "posted" => c \notin booked \union inLine
    /\ wire[c] \in {"ticket", "polled"} => c \notin booked
    /\ wire[c] \in {"session", "offer"} =>
         c \notin inLine /\ (Metered => c \in booked \union reaped)
    /\ c \in booked => Metered /\ c \notin inLine

\* The page has done with the session of c: nothing can make it track it again.
Done(c) ==
  /\ tracked # c
  /\ conn[c] \notin Early
  /\ ~(client = c /\ conn[c] = "held")

\* The page's references are to connections that can use them; what it has done
\* with or tracks was booked; a beat, and an expired one, is about such a session.
References ==
  /\ timer => Metered
  /\ \A c \in Calls :
       /\ client = c => conn[c] # "none"
       /\ tracked = c => conn[c] \in Seated
       /\ ticket = c => conn[c] = "queued"
       /\ c \in ending => Done(c) /\ wire[c] = "none"
       /\ Metered => conn[c] \in Early \/ Done(c) \/ c \in booked \union reaped
       /\ beat[c] # "none" => Metered /\ conn[c] \notin Early
       /\ beat[c] = "expired" => spent \/ Done(c) \/ c \in reaped

\* A suspended restart will start a call of its own.
Restarts ==
  \A k \in Teardowns : td[k].kind = "restart" =>
    /\ td[k].next \in Calls /\ start[td[k].next] = "restarting"
    /\ \A l \in Teardowns : td[l].kind = "restart" /\ td[l].next = td[k].next => l = k

Overlaps ==
  \A c, d \in Calls : conn[c] \in InProgress /\ conn[d] \in InProgress /\ c # d => c \in overlapped

Ledger ==
  /\ TypeOK /\ Requests /\ References /\ Restarts /\ Overlaps
  /\ NoForgottenSession /\ NoPhantomPlace

\* What a step with a teardown leaves of the other variables.
Beside ==
  /\ UNCHANGED <<booked, reaped, spent, overlapped>> /\ inLine' \subseteq inLine
  /\ \A d \in Calls : wire'[d] = wire[d] \/ (wire[d] \in {"posted", "polled"} /\ wire'[d] = "none")
  /\ \A d \in Calls : beat'[d] \in {beat[d], "none"}

\* The first half of a teardown.
LEMMA TeardownLedger ==
  ASSUME Ledger, NEW kind, NEW next, NEW shown, NEW started \in Starteds, NEW conns \in Conns,
         kind = "restart" => /\ client # NoCall /\ next \in Calls
                             /\ start[next] = "unused" /\ started[next] = "restarting",
         \A d \in Calls : \/ started[d] = start[d]
                          \/ start[d] = "unused" /\ started[d] = "restarting"
                          \/ start[d] # "restarting" /\ started[d] = "returned",
         \A d \in Calls : conns[d] = conn[d] \/ (conn[d] \in InProgress /\ conns[d] = "failed"),
         Teardown(kind, next, shown, started, conns), Beside
  PROVE  (Requests /\ References /\ Restarts /\ Overlaps /\ NoForgottenSession /\ NoPhantomPlace)'
<1> USE DEF Ledger
<1>1. /\ tracked' = NoCall /\ ticket' = NoCall /\ timer' = FALSE
      /\ ending' = ending \union ({tracked} \ {NoCall})
      /\ leaving' = leaving \union ({ticket} \ {NoCall})
  BY DEF Teardown, Farewell
<1>2. \A d \in Calls : \/ conn'[d] = conn[d]
                       \/ conn[d] \in InProgress /\ conn'[d] \in {"failed", "closing"}
  BY DEF Teardown, Conns, InProgress
<1>3. client' \in {client, NoCall} /\ \A d \in Calls : client' = d => conn'[d] \notin InProgress
  BY ClientAssumption DEF Teardown, Complete, Conns, InProgress
<1>4. \A d \in Calls : /\ start'[d] \in Unborn => start[d] \in Unborn
                       /\ start[d] = "restarting" => start'[d] = "restarting"
  <2>1. CASE client = NoCall
    <3>1. start' = started
      BY <2>1 DEF Teardown, Complete
    <3> QED
      BY <3>1 DEF Unborn
  <2>2. CASE client # NoCall
    <3>1. start' = [started EXCEPT ![client] = "returned"] /\ client \in Calls
      BY <2>2 DEF Teardown, TypeOK
    <3>2. start[client] \notin Unborn
      BY <3>1 DEF References, Requests
    <3> QED
      BY <3>1, <3>2 DEF Starteds, Unborn
  <2> QED
    BY <2>1, <2>2
<1>5. ASSUME NEW d \in Calls
      PROVE  conn'[d] \notin Early /\ (Done(d) \/ tracked = d \/ conn'[d] # conn[d]) => Done(d)'
  <2>1. tracked' # d
    BY <1>1, ClientAssumption
  <2>2. client' = d => conn'[d] # "held"
    BY <1>3 DEF InProgress
  <2> QED
    BY <2>1, <2>2 DEF Done
<1>6. Requests'
  BY <1>2, <1>4 DEF Requests, Beside, InProgress, Seated, Unborn
<1>7. References'
  <2>1. ASSUME NEW d \in Calls, d \in ending'
        PROVE  Done(d)' /\ wire'[d] = "none"
    <3>1. \/ Done(d) /\ wire[d] = "none"
          \/ tracked = d /\ conn[d] \in Seated /\ wire[d] = "none"
      BY <1>1, <2>1 DEF References, Requests
    <3>2. conn'[d] \notin Early
      BY <1>2, <3>1 DEF Done, Seated, Early
    <3> QED
      BY <1>5, <3>1, <3>2 DEF Beside
  <2>2. ASSUME NEW d \in Calls, Metered
        PROVE  (conn[d] \in Early \/ Done(d) \/ d \in booked \union reaped)'
    <3>1. conn[d] \in Early \/ Done(d) \/ d \in booked \union reaped
      BY <2>2 DEF References
    <3> QED
      BY <1>2, <1>5, <3>1 DEF Beside
  <2>3. ASSUME NEW d \in Calls, beat'[d] # "none"
        PROVE  Metered /\ conn'[d] \notin Early
    BY <1>2, <2>3 DEF References, Beside, Early
  <2>4. ASSUME NEW d \in Calls, beat'[d] = "expired"
        PROVE  spent' \/ Done(d)' \/ d \in reaped'
    <3>1. beat[d] = "expired"
      BY <2>4 DEF Beside
    <3> QED
      BY <1>5, <2>4, <2>3, <3>1 DEF References, Beside
  <2>5. ASSUME NEW d \in Calls, client' = d
        PROVE  conn'[d] # "none"
    BY <1>2, <1>3, <2>5, ClientAssumption DEF References
  <2> QED
    BY <1>1, <2>1, <2>2, <2>3, <2>4, <2>5, ClientAssumption DEF References
<1>8. Restarts'
  <2>1. CASE client = NoCall
    <3>1. td' = td
      BY <2>1 DEF Teardown
    <3> QED
      BY <1>4, <3>1 DEF Restarts
  <2>2. CASE client # NoCall
    <3>1. PICK k \in Teardowns :
            /\ td[k] = NoTeardown
            /\ td' = [td EXCEPT ![k] = [kind |-> kind, of |-> client, next |-> next]]
      BY <2>2 DEF Teardown
    <3>2. td'[k] = [kind |-> kind, of |-> client, next |-> next]
          /\ \A l \in Teardowns : l # k => td'[l] = td[l]
      BY <3>1 DEF TypeOK
    <3>3. kind = "restart" => start'[next] = "restarting" /\ start[next] = "unused"
      <4>1. kind = "restart" => next # client
        BY DEF References, Requests, Unborn
      <4> QED
        BY <2>2, <4>1 DEF Teardown, Starteds
    <3>4. ASSUME NEW l \in Teardowns, l # k, td[l].kind = "restart"
          PROVE  td[l].next \in Calls /\ start'[td[l].next] = "restarting" /\ start[td[l].next] = "restarting"
      BY <1>4, <3>4 DEF Restarts
    <3> QED
      BY <3>2, <3>3, <3>4 DEF Restarts
  <2> QED
    BY <2>1, <2>2
<1>9. Overlaps'
  BY <1>2 DEF Overlaps, Beside, InProgress
<1>10. NoForgottenSession' /\ NoPhantomPlace'
  BY <1>1 DEF NoForgottenSession, NoPhantomPlace, Unheard, Beside, TypeOK
<1> QED
  BY <1>6, <1>7, <1>8, <1>9, <1>10

\* The page is told of a slot, for a connection that is not done with its own.
LEMMA ToldLedger ==
  ASSUME Ledger, NEW c \in Calls, ~Done(c), NEW seat \in {"held", "dialing"},
         \/ conn[c] = "asking" /\ wire[c] = "session"
         \/ conn[c] = "queued" /\ wire[c] = "offer"
         \/ conn[c] = "held",
         conn' = [conn EXCEPT ![c] = seat],
         wire' = wire \/ wire' = [wire EXCEPT ![c] = "none"], wire'[c] = "none",
         ticket' = NoCall,
         tracked' = c \/ (~Metered /\ tracked' = tracked),
         timer' = timer \/ (Metered /\ timer' = TRUE),
         UNCHANGED <<client, start, td, beat, ending, leaving, booked, inLine, reaped, spent, overlapped>>
  PROVE  (Requests /\ References /\ Restarts /\ Overlaps /\ NoForgottenSession /\ NoPhantomPlace)'
<1>0. /\ TypeOK /\ Requests /\ References /\ Restarts /\ Overlaps
      /\ NoForgottenSession /\ NoPhantomPlace
      /\ conn \in Conns
  BY DEF Ledger, TypeOK, Conns
<1>1. \A d \in Calls : d # c => conn'[d] = conn[d] /\ wire'[d] = wire[d]
  BY <1>0 DEF Conns, TypeOK
<1>2. conn'[c] = seat /\ conn[c] \in {"asking", "queued", "held"}
  BY <1>0 DEF Conns
<1>3. /\ Metered => c \in booked \union reaped
      /\ c \notin inLine \/ conn[c] = "held"
      /\ start[c] \notin Unborn
  BY <1>0 DEF Requests, References, Early
<1>4. ASSUME NEW d \in Calls, Done(d) PROVE d # c /\ Done(d)'
  BY <1>0, <1>1, <1>4, ClientAssumption DEF Done
<1>5. Requests'
  BY <1>0, <1>1, <1>2, <1>3 DEF Requests, Unborn, Seated
<1>6. beat[c] # "none" => conn[c] = "held"
  BY <1>0, <1>2 DEF References, Early
<1>7. References'
  <2>1. ASSUME NEW d \in Calls PROVE
          /\ client' = d => conn'[d] # "none"
          /\ tracked' = d => conn'[d] \in Seated
          /\ ticket' # d
          /\ d \in ending' => Done(d)' /\ wire'[d] = "none"
    BY <1>0, <1>1, <1>2, <1>4, ClientAssumption DEF References, Seated
  <2>2. ASSUME NEW d \in Calls PROVE
          /\ Metered => (conn[d] \in Early \/ Done(d) \/ d \in booked \union reaped)'
          /\ beat'[d] # "none" => Metered /\ conn'[d] \notin Early
          /\ beat'[d] = "expired" => (spent \/ Done(d) \/ d \in reaped)'
    BY <1>0, <1>1, <1>2, <1>3, <1>4, <1>6 DEF References, Early
  <2>3. timer' => Metered
    BY <1>0 DEF References
  <2> QED
    BY <2>1, <2>2, <2>3 DEF References
<1>8. Restarts' /\ Overlaps'
  BY <1>0, <1>1, <1>2 DEF Restarts, Overlaps, InProgress
<1>9. ASSUME NEW d \in Calls, d # c, tracked = d \/ ticket = d
      PROVE  d \in overlapped
  BY <1>0, <1>2, <1>9 DEF References, Overlaps, Seated, InProgress
<1>10. NoForgottenSession'
  <2>1. ~Metered => booked = {}
    BY <1>0 DEF Requests, TypeOK
  <2> QED
    BY <1>0, <1>1, <1>9, <2>1 DEF NoForgottenSession, Unheard, TypeOK
<1>11. NoPhantomPlace'
  <2>1. ASSUME c \in inLine PROVE c \in leaving \union overlapped
    BY <1>0, <1>3, <2>1 DEF NoPhantomPlace, Unheard, References, Requests, Seated
  <2> QED
    BY <1>0, <1>1, <1>9, <2>1 DEF NoPhantomPlace, Unheard, TypeOK
<1> QED
  BY <1>5, <1>7, <1>8, <1>10, <1>11

LEMMA InitLedger == Init => Ledger
BY InitTypeOK, ClientAssumption
   DEF Init, Ledger, Requests, References, Restarts, Overlaps, NoForgottenSession, NoPhantomPlace,
       Unheard, Unborn, Seated, Early, Done, InProgress, NoTeardown

\* What the pieces of Ledger look at, where a step leaves it alone.
Frame == <<client, start, conn, td, beat, tracked, ticket, timer, wire, ending, leaving,
           booked, inLine, reaped, spent, overlapped>>

LEMMA StepLedger == Ledger /\ [Next]_vars => Ledger'
<1> DEFINE Goal == (Requests /\ References /\ Restarts /\ Overlaps /\ NoForgottenSession
                      /\ NoPhantomPlace)'
<1> SUFFICES ASSUME Ledger, [Next]_vars PROVE Goal
  BY StepTypeOK DEF Ledger
<1>0. /\ TypeOK /\ Requests /\ References /\ Restarts /\ Overlaps
      /\ NoForgottenSession /\ NoPhantomPlace
      /\ start \in Starteds /\ conn \in Conns
  BY DEF Ledger, TypeOK, Starteds, Conns
<1>f. ASSUME UNCHANGED Frame PROVE Goal
  BY <1>0, <1>f DEF Frame, Requests, References, Restarts, Overlaps, NoForgottenSession,
     NoPhantomPlace, Unheard, Done
<1>b. UNCHANGED <<beat, wire, server>> /\ overlapped' = overlapped => Beside
  BY DEF Beside, server
<1> DEFINE Returned(c) == [start EXCEPT ![c] = "returned"]
           Failed(c)   == [conn EXCEPT ![c] = "failed"]
<1>1. ASSUME NEW k \in Teardowns, FinishTeardown(k) PROVE Goal
  <2>1. /\ client' = NoCall /\ td' = [td EXCEPT ![k] = NoTeardown]
        /\ UNCHANGED <<beat, tracked, ticket, timer, wire, ending, leaving, booked, inLine, reaped,
                       spent, overlapped>>
    BY <1>1 DEF FinishTeardown, Complete, meter, net, farewells, server, history
  <2>2. \A d \in Calls : conn'[d] = conn[d] \/ (conn[d] = "closing" /\ conn'[d] = "closed")
    BY <1>0, <1>1 DEF FinishTeardown, Conns
  <2>3. ASSUME td[k].kind = "restart"
        PROVE  /\ td[k].next \in Calls /\ start[td[k].next] = "restarting"
               /\ start' = [start EXCEPT ![td[k].next] = "priming"]
    BY <1>0, <1>1, <2>3 DEF FinishTeardown, Complete, Restarts
  <2>4. td[k].kind # "restart" => start' = start
    BY <1>1 DEF FinishTeardown, Complete
  <2>5. \A d \in Calls : start'[d] \in Unborn => start[d] \in Unborn
    BY <1>0, <2>3, <2>4 DEF Unborn, Starteds
  <2>6. Requests'
    BY <1>0, <2>1, <2>2, <2>5 DEF Requests, Seated
  <2>7. \A d \in Calls : Done(d) => Done(d)'
    BY <2>1, <2>2, ClientAssumption DEF Done, Early
  <2>8. References'
    BY <1>0, <2>1, <2>2, <2>7, ClientAssumption DEF References, Early, Seated
  <2>9. Restarts'
    <3>1. ASSUME NEW l \in Teardowns, td'[l].kind = "restart"
          PROVE  l # k /\ td'[l] = td[l]
      BY <1>0, <2>1, <3>1 DEF TypeOK, NoTeardown
    <3>2. ASSUME NEW l \in Teardowns, td'[l].kind = "restart"
          PROVE  start'[td[l].next] = "restarting"
      <4>1. l # k /\ td[l].kind = "restart"
        BY <3>1, <3>2
      <4>2. td[l].next \in Calls /\ start[td[l].next] = "restarting"
        BY <1>0, <4>1 DEF Restarts
      <4>3. td[k].kind = "restart" => td[k].next # td[l].next
        BY <1>0, <4>1 DEF Restarts
      <4> QED
        BY <1>0, <2>3, <2>4, <4>2, <4>3 DEF Starteds
    <3> QED
      BY <1>0, <3>1, <3>2 DEF Restarts
  <2>10. Overlaps'
    BY <1>0, <2>1, <2>2 DEF Overlaps, InProgress
  <2>11. NoForgottenSession' /\ NoPhantomPlace'
    BY <1>0, <2>1 DEF NoForgottenSession, NoPhantomPlace, Unheard
  <2> QED
    BY <2>6, <2>8, <2>9, <2>10, <2>11
<1>2. ASSUME NEW c \in Calls, TapCircle(c) \/ (Restart(c) /\ client = NoCall) PROVE Goal
  <2>1. /\ start[c] = "unused" /\ start' = [start EXCEPT ![c] = "priming"]
        /\ UNCHANGED <<client, conn, td, beat, tracked, ticket, timer, wire, ending, leaving, booked,
                       inLine, reaped, spent, overlapped>>
    BY <1>2 DEF TapCircle, Restart, DoStart, Unused, Press, meter, net, farewells, server
  <2>2. \A d \in Calls : start'[d] \in Unborn => start[d] \in Unborn
    BY <1>0, <2>1 DEF Unborn, Starteds
  <2>3. \A d \in Calls : start[d] = "restarting" => start'[d] = "restarting"
    BY <1>0, <2>1 DEF Starteds
  <2> QED
    BY <1>0, <2>1, <2>2, <2>3 DEF Requests, References, Restarts, Overlaps, NoForgottenSession,
       NoPhantomPlace, Unheard, Done
<1>3. ASSUME NEW c \in Calls, Restart(c), client # NoCall PROVE Goal
  <2> DEFINE started == [start EXCEPT ![c] = "restarting"]
  <2>1. /\ start[c] = "unused" /\ Beside /\ Teardown("restart", c, ui, started, conn)
    BY <1>3, <1>b DEF Restart, Unused, Press
  <2>2. started \in Starteds /\ started[c] = "restarting"
        /\ \A d \in Calls : started[d] = start[d] \/ (start[d] = "unused" /\ started[d] = "restarting")
    BY <1>0, <2>1 DEF Starteds, StartPhases
  <2> HIDE DEF started
  <2> QED
    BY <1>0, <1>3, <2>1, <2>2, TeardownLedger
<1>4. ASSUME NEW c \in Calls, PrimeGranted(c) PROVE Goal
  <2>1. /\ start[c] = "priming" /\ start' = [start EXCEPT ![c] = "connecting"]
        /\ conn' = [conn EXCEPT ![c] = "asking"] /\ wire' = [wire EXCEPT ![c] = "posted"]
        /\ client' = c
        /\ UNCHANGED <<td, beat, tracked, ticket, timer, ending, leaving, booked, inLine, reaped, spent>>
    BY <1>4 DEF PrimeGranted, meter, farewells, server
  <2>2. conn[c] = "none" /\ wire[c] = "none" /\ c \notin booked \union inLine
    BY <1>0, <2>1 DEF Requests, Unborn
  <2>3. \A d \in Calls : d # c => start'[d] = start[d] /\ conn'[d] = conn[d] /\ wire'[d] = wire[d]
    BY <2>1, <1>0 DEF Starteds, Conns, TypeOK
  <2>4. start'[c] = "connecting" /\ conn'[c] = "asking" /\ wire'[c] = "posted"
    BY <2>1, <1>0 DEF Starteds, Conns, TypeOK
  <2>5. Requests'
    BY <1>0, <2>1, <2>2, <2>3, <2>4 DEF Requests, Unborn, Seated
  <2>6. \A d \in Calls : Done(d) => d # c /\ Done(d)'
    BY <2>1, <2>2, <2>3 DEF Done, Early
  <2>7. c \notin ending /\ beat[c] = "none" /\ tracked # c /\ ticket # c
    BY <1>0, <2>2 DEF References, Done, Early, Seated, TypeOK, BeatPhases
  <2>8. References'
    BY <1>0, <2>1, <2>2, <2>3, <2>4, <2>6, <2>7 DEF References, Early
  <2>9. Restarts'
    BY <1>0, <2>1, <2>3 DEF Restarts
  <2>10. Overlaps'
    BY <1>0, <1>4, <2>2, <2>3 DEF Overlaps, PrimeGranted
  <2>11. NoForgottenSession' /\ NoPhantomPlace'
    <3>1. overlapped \subseteq overlapped'
      BY <1>4 DEF PrimeGranted
    <3>2. \A answers \in {{"session", "offer"}, {"ticket"}} : Unheard(answers) \subseteq Unheard(answers)'
      BY <2>2, <2>3 DEF Unheard
    <3> QED
      BY <1>0, <2>1, <3>1, <3>2 DEF NoForgottenSession, NoPhantomPlace
  <2> QED
    BY <2>5, <2>8, <2>9, <2>10, <2>11
<1>5. ASSUME NEW c \in Calls, PrimeDenied(c) PROVE Goal
  <2>1. start[c] = "priming" /\ Beside /\ Teardown("fatal", NoCall, ui, Returned(c), conn)
    BY <1>5, <1>b DEF PrimeDenied, history
  <2>2. Returned(c) \in Starteds
        /\ \A d \in Calls : Returned(c)[d] = start[d]
                              \/ (start[d] # "restarting" /\ Returned(c)[d] = "returned")
    BY <1>0, <2>1 DEF Starteds, StartPhases
  <2> HIDE DEF Returned
  <2> QED
    BY <1>0, <2>1, <2>2, TeardownLedger
<1>12. ASSUME NEW c \in Calls, ConnectFails(c) PROVE Goal
  <2>1. PICK kind \in {"limit", "login", "busy", "fatal"} : Reject(c, kind)
    BY <1>12, FailsByRejection
  <2>2. Teardown(kind, NoCall, ui, Returned(c), Failed(c))
    BY <2>1 DEF Reject
  <2>3. Beside
    <3>1. inLine' \subseteq inLine
          /\ \A d \in Calls : wire'[d] = wire[d] \/ (wire[d] \in {"posted", "polled"} /\ wire'[d] = "none")
      BY <1>0, <1>12, FailsByRejection DEF TypeOK
    <3> QED
      BY <2>1, <3>1 DEF Reject, Beside, history
  <2>4. conn[c] \in InProgress
    BY <1>12, FailsByRejection
  <2>5. start[c] \notin Unborn
    BY <1>0, <2>4 DEF Requests, InProgress
  <2>6. Returned(c) \in Starteds
        /\ \A d \in Calls : Returned(c)[d] = start[d]
                              \/ (start[d] # "restarting" /\ Returned(c)[d] = "returned")
    BY <1>0, <2>5 DEF Starteds, StartPhases, Unborn
  <2>7. Failed(c) \in Conns
        /\ \A d \in Calls : Failed(c)[d] = conn[d] \/ (conn[d] \in InProgress /\ Failed(c)[d] = "failed")
    BY <1>0, <2>4 DEF Conns, ConnPhases
  <2>8. kind # "restart"
    BY <2>1
  <2> HIDE DEF Returned, Failed
  <2> QED
    BY <1>0, <2>2, <2>3, <2>6, <2>7, <2>8, TeardownLedger
<1>13. ASSUME NEW c \in Calls, ClientError(c) PROVE Goal
  <2>1. conn[c] \in InProgress /\ Beside /\ Teardown("fatal", NoCall, "error", start, Failed(c))
    BY <1>13, <1>b DEF ClientError, InProgress, history
  <2>2. Failed(c) \in Conns
        /\ \A d \in Calls : Failed(c)[d] = conn[d] \/ (conn[d] \in InProgress /\ Failed(c)[d] = "failed")
    BY <1>0, <2>1 DEF Conns, ConnPhases
  <2> HIDE DEF Failed
  <2> QED
    BY <1>0, <2>1, <2>2, TeardownLedger
<1>15. ASSUME NEW c \in Calls, HeartbeatExpired(c) PROVE Goal
  <2>1. Beside
    BY <1>0, <1>15 DEF HeartbeatExpired, Beside, server, TypeOK
  <2>2. Teardown("limit", NoCall, ui, start, conn)
    BY <1>15 DEF HeartbeatExpired
  <2> QED
    BY <1>0, <2>1, <2>2, TeardownLedger
<1>16. ASSUME Stop \/ LeaveQueue PROVE Goal
  <2>1. Beside /\ Teardown("stop", NoCall, ui, start, conn)
    BY <1>16, <1>b DEF Stop, LeaveQueue, Press
  <2> QED
    BY <1>0, <2>1, TeardownLedger
<1>6. ASSUME NEW c \in Calls, Granted(c) PROVE Goal
  <2>1. /\ conn[c] = "asking" /\ wire[c] = "session" /\ ticket' = NoCall
        /\ conn' = [conn EXCEPT ![c] = "dialing"] /\ wire' = [wire EXCEPT ![c] = "none"]
        /\ IF Metered THEN tracked' = c /\ timer' = TRUE ELSE UNCHANGED <<tracked, timer>>
        /\ UNCHANGED <<client, start, td, beat, ending, leaving, booked, inLine, reaped, spent, overlapped>>
    BY <1>6 DEF Granted, SessionEvent, farewells, server, history
  <2>2. wire'[c] = "none"
    BY <1>0, <2>1 DEF TypeOK
  <2> QED
    BY <2>1, <2>2, ToldLedger DEF Done, Early
<1>7. ASSUME NEW c \in Calls, Queued(c) PROVE Goal
  <2>1. /\ conn[c] = "asking" /\ wire[c] = "ticket" /\ ticket' = c
        /\ conn' = [conn EXCEPT ![c] = "queued"] /\ wire' = [wire EXCEPT ![c] = "polled"]
        /\ UNCHANGED <<client, start, td, beat, tracked, timer, ending, leaving, booked, inLine, reaped,
                       spent, overlapped>>
    BY <1>7 DEF Queued, farewells, server, history
  <2>2. \A d \in Calls : d # c => conn'[d] = conn[d] /\ wire'[d] = wire[d]
    BY <1>0, <2>1 DEF Conns, TypeOK
  <2>3. conn'[c] = "queued" /\ wire'[c] = "polled"
    BY <1>0, <2>1 DEF Conns, TypeOK
  <2>4. \A d \in Calls : Done(d) => d # c /\ Done(d)'
    BY <2>1, <2>2 DEF Done, Early
  <2>5. Requests'
    BY <1>0, <2>1, <2>2, <2>3 DEF Requests, Unborn, Seated
  <2>6. References'
    BY <1>0, <2>1, <2>2, <2>3, <2>4 DEF References, Early, Seated
  <2>7. Restarts' /\ Overlaps'
    BY <1>0, <2>1, <2>2 DEF Restarts, Overlaps, InProgress
  <2>8. NoForgottenSession' /\ NoPhantomPlace'
    <3>1. ASSUME NEW d \in Calls, d \in inLine, d \notin leaving, d \notin overlapped
          PROVE  d = c \/ wire[d] = "ticket"
      <4>1. d \in {ticket} \union Unheard({"ticket"})
        BY <1>0, <3>1 DEF NoPhantomPlace
      <4>2. ticket = d => conn[d] = "queued"
        BY <1>0 DEF References
      <4> QED
        BY <1>0, <2>1, <3>1, <4>1, <4>2 DEF Overlaps, InProgress, Unheard
    <3> QED
      BY <1>0, <2>1, <2>2, <3>1 DEF NoForgottenSession, NoPhantomPlace, Unheard, TypeOK
  <2> QED
    BY <2>5, <2>6, <2>7, <2>8
<1>8. ASSUME NEW c \in Calls, ReadyToJoin(c) PROVE Goal
  <2>1. /\ conn[c] = "queued" /\ wire[c] = "offer" /\ ticket' = NoCall /\ tracked' = c
        /\ conn' = [conn EXCEPT ![c] = "held"] /\ wire' = [wire EXCEPT ![c] = "none"]
        /\ UNCHANGED <<client, start, td, beat, timer, ending, leaving, booked, inLine, reaped, spent,
                       overlapped>>
    BY <1>8 DEF ReadyToJoin, farewells, server, history
  <2>2. wire'[c] = "none"
    BY <1>0, <2>1 DEF TypeOK
  <2> QED
    BY <2>1, <2>2, ToldLedger DEF Done, Early
<1>9. ASSUME Join PROVE Goal
  <2>1. PICK c \in Calls : client = c
    BY <1>0, <1>9 DEF Join, TypeOK
  <2>2. /\ conn[c] = "held" /\ ticket' = NoCall /\ conn' = [conn EXCEPT ![c] = "dialing"]
        /\ IF Metered THEN tracked' = c /\ timer' = TRUE ELSE UNCHANGED <<tracked, timer>>
        /\ UNCHANGED <<client, start, td, beat, wire, ending, leaving, booked, inLine, reaped, spent,
                       overlapped>>
    BY <1>9, <2>1 DEF Join, SessionEvent, net, farewells, server, history
  <2>3. wire'[c] = "none" /\ ~Done(c)
    BY <1>0, <2>1, <2>2 DEF Requests, Seated, Done
  <2> QED
    BY <2>2, <2>3, ToldLedger
\* The connection of a call moves on, keeping what it has.
<1>10. ASSUME NEW c \in Calls, AcquireMic(c) \/ Connected(c) PROVE Goal
  <2>1. /\ conn[c] \in {"dialing", "dialed"}
        /\ \A d \in Calls : /\ d # c => conn'[d] = conn[d] /\ start'[d] = start[d]
                            /\ start'[d] = start[d] \/ (d = c /\ start'[d] = "returned")
        /\ conn'[c] \in {"dialed", "open"}
        /\ UNCHANGED <<client, td, beat, tracked, ticket, timer, wire, ending, leaving, booked, inLine,
                       reaped, spent, overlapped>>
    BY <1>0, <1>10 DEF AcquireMic, Connected, Starteds, Conns, meter, net, farewells, server, history
  <2>2. start[c] \notin Unborn
    BY <1>0, <2>1 DEF Requests
  <2>3. \A d \in Calls : Done(d) <=> Done(d)'
    BY <2>1 DEF Done, Early
  <2>4. Requests'
    BY <1>0, <2>1, <2>2 DEF Requests, Unborn, Seated
  <2>5. References'
    BY <1>0, <2>1, <2>3 DEF References, Early, Seated
  <2>6. Restarts' /\ Overlaps'
    BY <1>0, <2>1, <2>2 DEF Restarts, Overlaps, InProgress, Unborn
  <2>7. NoForgottenSession' /\ NoPhantomPlace'
    BY <1>0, <2>1 DEF NoForgottenSession, NoPhantomPlace, Unheard
  <2> QED
    BY <2>4, <2>5, <2>6, <2>7
\* The server serves a request.
<1>11. ASSUME NEW c \in Calls, Grant(c) \/ Enqueue(c) \/ Claim(c) PROVE Goal
  <2>1. /\ UNCHANGED <<client, start, conn, td, beat, tracked, ticket, timer, ending, leaving, reaped,
                       spent, overlapped>>
        /\ wire[c] \in {"posted", "polled"} /\ wire'[c] \in {"session", "ticket", "offer"}
        /\ \A d \in Calls : d # c => wire'[d] = wire[d] /\ (d \in booked' <=> d \in booked)
                                       /\ (d \in inLine' <=> d \in inLine)
        /\ booked \subseteq booked' /\ booked' \subseteq booked \union {c}
        /\ inLine' \subseteq inLine \union {c}
        /\ wire'[c] = "ticket" => c \in inLine' /\ c \notin booked'
        /\ wire'[c] \in {"session", "offer"} => c \notin inLine' /\ (c \in booked' <=> Metered)
    BY <1>0, <1>11 DEF Grant, Enqueue, Claim, Book, page, media, meter, farewells, history, TypeOK,
       Requests
  <2>2. c \notin ending /\ conn[c] \notin Seated /\ conn[c] # "none"
    BY <1>0, <2>1 DEF Requests, References
  <2>3. \A d \in Calls : Done(d) <=> Done(d)'
    BY <2>1 DEF Done
  <2>4. Requests'
    BY <1>0, <2>1, <2>2 DEF Requests
  <2>5. References'
    BY <1>0, <2>1, <2>2, <2>3 DEF References
  <2>6. Restarts' /\ Overlaps'
    BY <1>0, <2>1 DEF Restarts, Overlaps
  <2>7. NoForgottenSession' /\ NoPhantomPlace'
    BY <1>0, <2>1 DEF NoForgottenSession, NoPhantomPlace, Unheard, TypeOK
  <2> QED
    BY <2>4, <2>5, <2>6, <2>7
\* The server gives up a place, on its own or because it was told to.
<1>17. ASSUME NEW c \in Calls, ServeEnd(c) \/ ServeLeave(c) \/ Lapse(c) PROVE Goal
  <2>1. /\ UNCHANGED <<client, start, conn, td, beat, tracked, ticket, timer, wire, spent, overlapped>>
        /\ booked' \subseteq booked /\ inLine' \subseteq inLine
        /\ ending' \subseteq ending /\ reaped \subseteq reaped'
        /\ \A d \in Calls : d \in booked => d \in booked' \union reaped' \/ (d = c /\ d \in ending)
        /\ ending \intersect booked' \subseteq ending'
        /\ leaving \intersect inLine' \subseteq leaving'
    BY <1>17 DEF ServeEnd, ServeLeave, Lapse, page, media, meter, net, farewells, history
  <2>2. \A d \in Calls : Done(d) <=> Done(d)'
    BY <2>1 DEF Done
  <2>3. c \in ending => Done(c) /\ wire[c] = "none"
    BY <1>0 DEF References
  <2>4. Requests'
    BY <1>0, <2>1, <2>3 DEF Requests
  <2>5. References'
    BY <1>0, <2>1, <2>2, <2>3 DEF References
  <2>6. Restarts' /\ Overlaps'
    BY <1>0, <2>1 DEF Restarts, Overlaps
  <2>7. NoForgottenSession' /\ NoPhantomPlace'
    BY <1>0, <2>1 DEF NoForgottenSession, NoPhantomPlace, Unheard
  <2> QED
    BY <2>4, <2>5, <2>6, <2>7
<1>18. ASSUME PageHide PROVE Goal
  <2>1. /\ client' = NoCall /\ tracked' = NoCall /\ ticket' = NoCall /\ timer' = FALSE
        /\ ending' = ending \union ({tracked} \ {NoCall})
        /\ leaving' = leaving \union ({ticket} \ {NoCall})
        /\ \A d \in Calls : /\ start'[d] \in Unborn => start'[d] = start[d]
                            /\ conn'[d] = conn[d] \/ (conn[d] \in InProgress /\ conn'[d] = "closed")
                            /\ conn'[d] \notin InProgress
                            /\ beat'[d] = "none"
        /\ \A k \in Teardowns : td'[k] = NoTeardown
        /\ UNCHANGED <<wire, booked, inLine, reaped, spent, overlapped>>
    BY <1>18 DEF PageHide, Farewell, server, history, InProgress, Unborn
  <2>2. \A d \in Calls : conn'[d] # "none" => Done(d)'
    BY <2>1, ClientAssumption DEF Done, Early, Seated, InProgress
  <2>3. Requests'
    BY <1>0, <2>1 DEF Requests, InProgress, Unborn, Seated
  <2>4. References'
    <3>1. \A d \in Calls : d \in ending' => Done(d)' /\ wire'[d] = "none"
      BY <1>0, <2>1, <2>2 DEF References, Requests, Done, Early, Seated
    <3>2. \A d \in Calls : Metered => (conn[d] \in Early \/ Done(d) \/ d \in booked \union reaped)'
      BY <2>2 DEF Early
    <3> QED
      BY <2>1, <3>1, <3>2, ClientAssumption DEF References
  <2>5. Restarts' /\ Overlaps'
    BY <2>1 DEF Restarts, Overlaps, NoTeardown
  <2>6. NoForgottenSession' /\ NoPhantomPlace'
    BY <1>0, <2>1 DEF NoForgottenSession, NoPhantomPlace, Unheard, TypeOK
  <2> QED
    BY <2>3, <2>4, <2>5, <2>6
<1>19. ASSUME HeartbeatTick PROVE Goal
  <2>1. /\ tracked # NoCall /\ timer /\ beat' = [beat EXCEPT ![tracked] = "sent"]
        /\ UNCHANGED <<client, start, conn, td, tracked, ticket, timer, wire, ending, leaving, booked,
                       inLine, reaped, spent, overlapped>>
    BY <1>19 DEF HeartbeatTick, meter, net, farewells, server, history
  <2>2. \A d \in Calls : Done(d) <=> Done(d)'
    BY <2>1 DEF Done
  <2>3. \A d \in Calls : beat'[d] = beat[d] \/ (d = tracked /\ beat'[d] = "sent")
    BY <1>0, <2>1 DEF TypeOK
  <2>4. Metered /\ tracked \in Calls /\ conn[tracked] \in Seated
    BY <1>0, <2>1 DEF References, TypeOK
  <2>5. References'
    BY <1>0, <2>1, <2>2, <2>3, <2>4 DEF References, Early, Seated
  <2> QED
    BY <1>0, <2>1, <2>5 DEF Requests, Restarts, Overlaps, NoForgottenSession, NoPhantomPlace, Unheard
<1>20. ASSUME NEW c \in Calls, HeartbeatServed(c) \/ HeartbeatLost(c) PROVE Goal
  <2>1. /\ UNCHANGED <<client, start, conn, td, tracked, ticket, timer, wire, ending, leaving, booked,
                       inLine, reaped, spent, overlapped>>
        /\ beat[c] # "none" /\ \A d \in Calls : d # c => beat'[d] = beat[d]
        /\ beat'[c] = "expired" => spent \/ c \notin booked
    BY <1>0, <1>20 DEF HeartbeatServed, HeartbeatLost, TypeOK, media, meter, net, farewells, server,
       history
  <2>2. \A d \in Calls : Done(d) <=> Done(d)'
    BY <2>1 DEF Done
  <2>3. References'
    BY <1>0, <2>1, <2>2 DEF References
  <2> QED
    BY <1>0, <2>1, <2>3 DEF Requests, Restarts, Overlaps, NoForgottenSession, NoPhantomPlace, Unheard
<1>21. ASSUME SpendBudget PROVE Goal
  <2>1. /\ UNCHANGED <<client, start, conn, td, beat, tracked, ticket, timer, wire, ending, leaving,
                       booked, inLine, reaped, overlapped>>
        /\ spent' = TRUE
    BY <1>21 DEF SpendBudget, page, media, meter, net, farewells, history
  <2>2. \A d \in Calls : Done(d) <=> Done(d)'
    BY <2>1 DEF Done
  <2> QED
    BY <1>0, <2>1, <2>2 DEF Requests, References, Restarts, Overlaps, NoForgottenSession,
       NoPhantomPlace, Unheard
<1>22. ASSUME NEW c \in Calls, AcquireMicLate(c) \/ Speaking(c) PROVE Goal
  BY <1>22, <1>f DEF AcquireMicLate, Speaking, Frame, media, meter, net, farewells, server, history
<1>23. ASSUME UNCHANGED vars PROVE Goal
  BY <1>23, <1>f DEF vars, Frame, media, meter, net, farewells, server, history
<1> QED
  BY <1>1, <1>2, <1>3, <1>4, <1>5, <1>6, <1>7, <1>8, <1>9, <1>10, <1>11, <1>12, <1>13, <1>15,
     <1>16, <1>17, <1>18, <1>19, <1>20, <1>21, <1>22, <1>23 DEF Next, CallStep, ServerStep

----------------------------------------------------------------------------
\* What follows from the ledger.

LEMMA LedgerHolds == Spec => []Ledger
BY InitLedger, StepLedger, PTL DEF Spec

\* A session the server meters for this page is tracked, or its end or its grant is
\* under way, or it is one of two overlapping calls.
THEOREM SessionsAccounted == Spec => []NoForgottenSession
BY LedgerHolds, PTL DEF Ledger

\* A ticket the load balancer keeps for this page is remembered, or its end or its
\* grant is under way, or it is one of two overlapping calls.
THEOREM PlacesAccounted == Spec => []NoPhantomPlace
BY LedgerHolds, PTL DEF Ledger

\* Only the timer sends heartbeats, for the session that is tracked then.
LEMMA OnlyTicksSend ==
  ASSUME Ledger, [Next]_vars, NEW c \in Calls, beat[c] = "none", beat'[c] = "sent"
  PROVE  HeartbeatTick /\ tracked = c
<1>1. /\ ~UNCHANGED beat /\ ~PageHide
      /\ ~\E d \in Calls : HeartbeatServed(d) \/ HeartbeatLost(d) \/ HeartbeatExpired(d)
  BY DEF PageHide, HeartbeatServed, HeartbeatLost, HeartbeatExpired, Ledger, TypeOK
<1>2. HeartbeatTick
  BY <1>1, FailsByRejection DEF Next, CallStep, ServerStep, vars, page, FinishTeardown, TapCircle,
     Restart, PrimeGranted, PrimeDenied, Granted, Queued, ReadyToJoin, AcquireMic, AcquireMicLate,
     Connected, Reject, Grant, Enqueue, Claim, ServeEnd, ServeLeave, Lapse, Speaking, ClientError,
     Join, Stop, LeaveQueue, SpendBudget
<1> QED
  BY <1>2 DEF HeartbeatTick, Ledger, TypeOK

\* No heartbeat is sent for a session that the page has ended.
THEOREM HeartbeatsOnlyForBooked == Spec => HeartbeatsAreBooked
<1>1. Ledger /\ [Next]_vars =>
        [\A c \in Calls : beat[c] = "none" /\ beat'[c] = "sent" => c \in booked \union reaped]_vars
  <2> SUFFICES ASSUME Ledger, [Next]_vars, NEW c \in Calls, beat[c] = "none", beat'[c] = "sent"
               PROVE  c \in booked \union reaped
    OBVIOUS
  <2>1. HeartbeatTick /\ tracked = c
    BY OnlyTicksSend
  <2>2. conn[c] \in Seated /\ ~Done(c)
    BY <2>1 DEF Ledger, References, Done
  <2>3. Metered
    BY <2>1 DEF HeartbeatTick, Ledger, References
  <2> QED
    BY <2>2, <2>3 DEF Ledger, References, Early, Seated
<1> QED
  BY <1>1, LedgerHolds, PTL DEF Spec, HeartbeatsAreBooked

----------------------------------------------------------------------------
\* The limit dialog.

\* What a suspended teardown will say of the limit is true, unless a reply about
\* another session has cut the page.
LimitsTrue ==
  \A k \in Teardowns : td[k].kind = "limit" /\ ~cutStale => spent \/ cut \in reaped

\* What the dialog says, and what suspended teardowns will say.
LimitGoal == LimitsTrue' /\ (Heeded' => LimitTellsTruth)

\* A teardown says of the limit only what its caller knows.
LEMMA TeardownLimits ==
  ASSUME TypeOK, LimitsTrue, NEW kind \in Kinds, NEW next, NEW shown, NEW started, NEW conns,
         Teardown(kind, next, shown, started, conns),
         spent' = spent, reaped' = reaped,
         ~cutStale' => ~cutStale /\ (kind = "limit" => spent \/ cut' \in reaped),
         cut' = cut \/ cutStale' \/ spent \/ cut' \in reaped
  PROVE  LimitGoal
<1>1. CASE client = NoCall
  BY <1>1 DEF Teardown, Complete, AfterModal, LimitGoal, LimitsTrue, LimitTellsTruth, Heeded, Kinds
<1>2. CASE client # NoCall
  <2>1. modal' = modal
    BY <1>2 DEF Teardown
  <2>2. \A k \in Teardowns : td'[k] = td[k] \/ td'[k].kind = kind
    BY <1>2 DEF Teardown, TypeOK
  <2> QED
    BY <2>1, <2>2 DEF LimitGoal, LimitsTrue, LimitTellsTruth
<1> QED
  BY <1>1, <1>2

LEMMA StepLimits ==
  ASSUME Ledger, LimitsTrue, [Next]_vars
  PROVE  LimitGoal
<1>0. TypeOK
  BY DEF Ledger
<1>q. ASSUME UNCHANGED <<td, cut, cutStale>>, spent => spent', reaped \subseteq reaped',
             modal' \in {modal, "none"}
      PROVE  LimitGoal
  BY <1>q DEF LimitGoal, LimitsTrue, LimitTellsTruth
<1>t. ASSUME NEW kind \in Kinds \ {"limit"}, NEW next, NEW shown, NEW started, NEW conns,
             Teardown(kind, next, shown, started, conns),
             UNCHANGED <<server, cut, cutStale>> \/ UNCHANGED <<reaped, spent, cut, cutStale>>
      PROVE  LimitGoal
  BY <1>0, <1>t, TeardownLimits DEF server
<1>k. {"stop", "fatal", "restart", "login", "busy"} \subseteq Kinds \ {"limit"} /\ "limit" \in Kinds
  BY DEF Kinds
<1>1. ASSUME NEW k \in Teardowns, FinishTeardown(k) PROVE LimitGoal
  <2>1. /\ UNCHANGED <<cut, cutStale, spent, reaped>> /\ td' = [td EXCEPT ![k] = NoTeardown]
        /\ modal' = AfterModal(td[k].kind) /\ td[k].kind \in Kinds
    BY <1>0, <1>1 DEF FinishTeardown, Complete, server, history, TypeOK
  <2> QED
    BY <1>0, <2>1 DEF LimitGoal, LimitsTrue, LimitTellsTruth, AfterModal, Heeded, TypeOK,
       NoTeardown, Kinds
<1>2. ASSUME NEW c \in Calls, TapCircle(c) PROVE LimitGoal
  BY <1>2, <1>q DEF TapCircle, DoStart, Press, server
<1>3. ASSUME NEW c \in Calls, Restart(c) PROVE LimitGoal
  BY <1>3, <1>q, <1>t, <1>k DEF Restart, DoStart, Press, server
<1>4. ASSUME NEW c \in Calls, PrimeGranted(c) \/ AcquireMic(c) \/ AcquireMicLate(c) \/ Connected(c)
                              \/ Speaking(c) \/ Granted(c) \/ Queued(c) \/ ReadyToJoin(c)
                              \/ HeartbeatServed(c) \/ HeartbeatLost(c)
      PROVE  LimitGoal
  BY <1>4, <1>q DEF PrimeGranted, AcquireMic, AcquireMicLate, Connected, Speaking, Granted, Queued,
     ReadyToJoin, HeartbeatServed, HeartbeatLost, SessionEvent, server, history
<1>5. ASSUME NEW c \in Calls, ServerStep(c) PROVE LimitGoal
  BY <1>5, <1>q DEF ServerStep, Grant, Enqueue, Claim, ServeEnd, ServeLeave, Lapse, page, history
<1>6. ASSUME Join \/ HeartbeatTick \/ SpendBudget PROVE LimitGoal
  BY <1>6, <1>q DEF Join, HeartbeatTick, SpendBudget, page, server, history
<1>7. ASSUME NEW c \in Calls, PrimeDenied(c) \/ ClientError(c) PROVE LimitGoal
  BY <1>7, <1>t, <1>k DEF PrimeDenied, ClientError, history
<1>8. ASSUME Stop \/ LeaveQueue PROVE LimitGoal
  BY <1>8, <1>t, <1>k DEF Stop, LeaveQueue, Press
<1>9. ASSUME NEW c \in Calls, ConnectFails(c) PROVE LimitGoal
  <2>1. PICK kind \in {"limit", "login", "busy", "fatal"} : Reject(c, kind) /\ (kind = "limit" => spent)
    BY <1>9, FailsByRejection
  <2> QED
    BY <1>0, <1>k, <2>1, TeardownLimits DEF Reject, history
<1>10. ASSUME NEW c \in Calls, HeartbeatExpired(c) PROVE LimitGoal
  <2>1. cutStale' \/ (~cutStale /\ c = tracked)
    BY <1>10 DEF HeartbeatExpired
  <2>2. c = tracked => spent \/ c \in reaped
    BY <1>10 DEF HeartbeatExpired, Ledger, References, Done
  <2> QED
    BY <1>0, <1>k, <1>10, <2>1, <2>2, TeardownLimits DEF HeartbeatExpired, server
<1>11. ASSUME PageHide PROVE LimitGoal
  BY <1>11 DEF PageHide, LimitGoal, LimitsTrue, LimitTellsTruth, NoTeardown
<1>12. ASSUME UNCHANGED vars PROVE LimitGoal
  BY <1>12, <1>q DEF vars, server, history
<1> QED
  BY <1>1, <1>2, <1>3, <1>4, <1>5, <1>6, <1>7, <1>8, <1>9, <1>10, <1>11, <1>12
     DEF Next, CallStep

\* The limit dialog tells the truth unless a reply about another session has cut
\* the page, or a button was pressed during close().
THEOREM LimitTellsTruthIfHeeded == Spec => LimitMeansSpentIfHeeded
<1>1. Init => LimitsTrue
  BY DEF Init, LimitsTrue, NoTeardown
<1>2. Ledger /\ LimitsTrue /\ [Next]_vars => LimitsTrue' /\ [Heeded' => LimitTellsTruth]_vars
  BY StepLimits DEF LimitGoal
<1> QED
  BY <1>1, <1>2, LedgerHolds, PTL DEF Spec, LimitMeansSpentIfHeeded

============================================================================
