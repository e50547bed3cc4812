------------------------- MODULE VoicePromiseProofs -------------------------
(***************************************************************************)
(* The page and the server keep the promise of Conversation, for any       *)
(* number of calls and of suspended teardowns, whatever is pressed and     *)
(* whatever requests and replies interleave.                               *)
(***************************************************************************)
EXTENDS VoiceClientProofs

Stages == [c \in Calls |-> StageOf(c)]
Places == [c \in Calls |-> PlaceOf(c)]
Told   == {tracked, ticket} \ {NoCall}

\* The stages of calls.
LEMMA StagesOf ==
  ASSUME Ledger, NEW c \in Calls
  PROVE  /\ StageOf(c) \in {"new", "prompting", "asking", "waiting", "offered", "joining", "talking",
                            "over"}
         /\ start[c] \in {"unused", "restarting"} <=> StageOf(c) = "new"
         /\ start[c] = "priming" <=> StageOf(c) = "prompting"
         /\ conn[c] = "asking" <=> StageOf(c) = "asking"
         /\ conn[c] = "queued" <=> StageOf(c) = "waiting"
         /\ conn[c] = "held" <=> StageOf(c) = "offered"
         /\ conn[c] \in {"dialing", "dialed"} <=> StageOf(c) = "joining"
         /\ conn[c] = "open" <=> StageOf(c) = "talking"
         /\ start[c] \notin Unborn /\ conn[c] \notin InProgress <=> StageOf(c) = "over"
BY DEF StageOf, InProgress, Unborn, Ledger, TypeOK, Requests, StartPhases

\* The places of calls.
LEMMA PlacesOf ==
  ASSUME Ledger, NEW c \in Calls
  PROVE  /\ conn[c] = "none" <=> PlaceOf(c) = "none"
         /\ wire[c] = "posted" <=> PlaceOf(c) = "asked"
         /\ c \in booked <=> PlaceOf(c) = "slot"
         /\ c \in inLine <=> PlaceOf(c) = "line"
         /\ PlaceOf(c) \in {"none", "asked", "line", "slot", "past"}
BY DEF PlaceOf, Ledger, TypeOK, Requests

\* A function of calls that changes at one call only.
LEMMA OneStageMoves ==
  ASSUME NEW c \in Calls, \A d \in Calls : d # c => StageOf(d)' = StageOf(d)
  PROVE  Stages' = [Stages EXCEPT ![c] = StageOf(c)']
BY DEF Stages

LEMMA OnePlaceMoves ==
  ASSUME NEW c \in Calls, \A d \in Calls : d # c => PlaceOf(d)' = PlaceOf(d)
  PROVE  Places' = [Places EXCEPT ![c] = PlaceOf(c)']
BY DEF Places

LEMMA NoPlaceMoves ==
  ASSUME \A d \in Calls : PlaceOf(d)' = PlaceOf(d)
  PROVE  Places' = Places
BY DEF Places

LEMMA NoStageMoves ==
  ASSUME \A d \in Calls : StageOf(d)' = StageOf(d)
  PROVE  Stages' = Stages
BY DEF Stages

\* A step that ends calls, and one that has a place ended with its request.
LEMMA CallsEnd ==
  ASSUME Ledger, Ledger',
         \A d \in Calls : \/ StageOf(d)' = StageOf(d)
                          \/ StageOf(d) # "new" /\ StageOf(d)' = "over",
         \/ \A d \in Calls : PlaceOf(d)' = PlaceOf(d)
         \/ \E c \in Calls : /\ StageOf(c) \notin {"new", "over"} /\ StageOf(c)' = "over"
                             /\ PlaceOf(c) \in {"asked", "line"} /\ PlaceOf(c)' = "past"
                             /\ \A d \in Calls : d # c => PlaceOf(d)' = PlaceOf(d),
         tracked' = NoCall, ticket' = NoCall
  PROVE  \E over \in SUBSET Calls : Promise!End(over)
<1> DEFINE over == {c \in Calls : StageOf(c) # "over" /\ StageOf(c)' = "over"}
<1>1. /\ \A c \in over : Stages[c] \notin {"new", "over"}
      /\ Stages' = [c \in Calls |-> IF c \in over THEN "over" ELSE Stages[c]]
  <2>1. \A c \in over : StageOf(c) # "new"
    OBVIOUS
  <2> QED
    BY <2>1 DEF Stages
<1>2. \/ UNCHANGED Places
      \/ \E c \in over : Places[c] \in {"asked", "line"} /\ Places' = [Places EXCEPT ![c] = "past"]
  <2>1. CASE \A d \in Calls : PlaceOf(d)' = PlaceOf(d)
    BY <2>1, NoPlaceMoves
  <2>2. ASSUME NEW c \in Calls, StageOf(c) \notin {"new", "over"}, StageOf(c)' = "over",
               PlaceOf(c) \in {"asked", "line"}, PlaceOf(c)' = "past",
               \A d \in Calls : d # c => PlaceOf(d)' = PlaceOf(d)
        PROVE  c \in over /\ Places[c] \in {"asked", "line"} /\ Places' = [Places EXCEPT ![c] = "past"]
    BY <2>2, OnePlaceMoves DEF Places
  <2> QED
    BY <2>1, <2>2
<1>3. Told' = {}
  BY DEF Told
<1>4. Promise!End(over)
  BY <1>1, <1>2, <1>3 DEF Promise!End, Stages, Places, Told
<1>5. over \in SUBSET Calls
  OBVIOUS
<1> QED
  BY <1>4, <1>5

LEMMA InitKeepsPromise == Init => Promise!Init
BY ClientAssumption DEF Init, Promise!Init, StageOf, PlaceOf

\* The first half of a teardown ends the client's call, and the one that asked for it.
LEMMA TeardownEnds ==
  ASSUME Ledger, Ledger', NEW kind, NEW next, NEW shown, NEW started \in Starteds, NEW conns \in Conns,
         kind = "restart" => client # NoCall,
         \A d \in Calls : \/ started[d] = start[d]
                          \/ start[d] = "unused" /\ started[d] = "restarting"
                          \/ start[d] \notin {"unused", "restarting"} /\ started[d] = "returned",
         \A d \in Calls : conns[d] = conn[d] \/ (conn[d] \in InProgress /\ conns[d] = "failed"),
         Teardown(kind, next, shown, started, conns),
         \/ \A d \in Calls : PlaceOf(d)' = PlaceOf(d)
         \/ \E c \in Calls : /\ StageOf(c) \notin {"new", "over"} /\ conns[c] = "failed"
                             /\ PlaceOf(c) \in {"asked", "line"} /\ PlaceOf(c)' = "past"
                             /\ \A d \in Calls : d # c => PlaceOf(d)' = PlaceOf(d)
  PROVE  \E over \in SUBSET Calls : Promise!End(over)
<1>1. tracked' = NoCall /\ ticket' = NoCall
  BY DEF Teardown, Farewell
<1>2. \A d \in Calls : /\ conn'[d] = conns[d] \/ (conns[d] \in InProgress /\ conn'[d] = "closing")
                       /\ start'[d] = started[d] \/ (client = d /\ start'[d] = "returned")
  <2>1. CASE client = NoCall
    BY <2>1 DEF Teardown, Complete
  <2>2. CASE client # NoCall
    BY <2>2 DEF Teardown, Starteds, Conns
  <2> QED
    BY <2>1, <2>2
<1>3. \A d \in Calls : client = d => start[d] \notin Unborn
  BY DEF Ledger, References, Requests
<1>4. ASSUME NEW d \in Calls
      PROVE  /\ conn'[d] = conn[d] \/ (conn[d] \in InProgress /\ conn'[d] \in {"failed", "closing"})
             /\ \/ start'[d] = start[d]
                \/ start[d] = "unused" /\ start'[d] = "restarting"
                \/ start[d] \notin {"unused", "restarting"} /\ start'[d] = "returned"
             /\ conns[d] = "failed" => conn'[d] = "failed"
  BY <1>2, <1>3 DEF Unborn, InProgress
<1>5. ASSUME NEW d \in Calls
      PROVE  \/ StageOf(d)' = StageOf(d)
             \/ StageOf(d) # "new" /\ StageOf(d)' = "over"
  <2>1. (start[d] \in Unborn => conn[d] = "none") /\ start[d] \in StartPhases
        /\ (start'[d] \in Unborn => conn'[d] = "none")
    BY DEF Ledger, Requests, TypeOK
  <2>2. CASE conn'[d] = conn[d]
    <3>1. CASE start'[d] = start[d]
      BY <2>2, <3>1 DEF StageOf
    <3>2. CASE start[d] = "unused" /\ start'[d] = "restarting"
      BY <3>2 DEF StageOf
    <3>3. CASE start[d] \notin {"unused", "restarting"} /\ start'[d] = "returned"
      <4>1. CASE start[d] = "priming"
        BY <2>1, <2>2, <3>3, <4>1 DEF StageOf, Unborn
      <4>2. CASE start[d] \in {"connecting", "returned"}
        BY <2>2, <3>3, <4>2 DEF StageOf
      <4> QED
        BY <2>1, <3>3, <4>1, <4>2 DEF StartPhases
    <3> QED
      BY <1>4, <3>1, <3>2, <3>3
  <2>3. CASE conn[d] \in InProgress /\ conn'[d] \in {"failed", "closing"}
    <3>1. start[d] \in {"connecting", "returned"} /\ start'[d] \in {"connecting", "returned"}
      BY <1>4, <2>1, <2>3 DEF Unborn, InProgress, StartPhases
    <3>2. StageOf(d)' = "over"
      BY <2>3, <3>1 DEF StageOf
    <3>3. StageOf(d) # "new"
      BY <3>1, StagesOf
    <3> QED
      BY <3>2, <3>3
  <2> QED
    BY <1>4, <2>2, <2>3
<1>6. ASSUME NEW c \in Calls, StageOf(c) \notin {"new", "over"}, conns[c] = "failed"
      PROVE  StageOf(c)' = "over"
  <2>1. conn'[c] = "failed" /\ (StageOf(c)' = StageOf(c) \/ StageOf(c)' = "over")
    BY <1>4, <1>5, <1>6
  <2>2. start'[c] \notin {"unused", "restarting", "priming"}
    BY <2>1 DEF Ledger, Requests, Unborn
  <2> QED
    BY <2>1, <2>2 DEF StageOf, Ledger, TypeOK, StartPhases
<1> QED
  BY <1>1, <1>5, <1>6, CallsEnd

\* What PlaceOf and StageOf look at, where a step leaves it alone.
LEMMA PlaceStays ==
  ASSUME NEW d \in Calls, (conn'[d] = "none") <=> (conn[d] = "none"),
         (wire'[d] = "posted") <=> (wire[d] = "posted"),
         (d \in booked') <=> (d \in booked), (d \in inLine') <=> (d \in inLine)
  PROVE  PlaceOf(d)' = PlaceOf(d)
BY DEF PlaceOf

LEMMA StepKeepsPromise == Ledger /\ Ledger' /\ [Next]_vars => [Promise!Next]_(Promise!vars)
<1> DEFINE Goal == [Promise!Next]_(Promise!vars)
<1> SUFFICES ASSUME Ledger, Ledger', [Next]_vars PROVE Goal
  OBVIOUS
<1>0. /\ TypeOK /\ TypeOK' /\ Requests /\ References
      /\ start \in Starteds /\ conn \in Conns
  BY DEF Ledger, TypeOK, Starteds, Conns
<1>d. \A d \in Calls :
        /\ wire[d] = "posted" => conn[d] # "none" /\ d \notin booked \union inLine
        /\ d \in booked \union inLine => conn[d] # "none"
        /\ d \in booked => d \notin inLine
  BY <1>0 DEF Requests
<1>n. \A d \in Calls :
        /\ wire'[d] = "posted" => conn'[d] # "none" /\ d \notin booked' \union inLine'
        /\ d \in booked' \union inLine' => conn'[d] # "none"
        /\ d \in booked' => d \notin inLine'
  BY DEF Ledger, Requests
<1>e. (\E over \in SUBSET Calls : Promise!End(over)) => Goal
  BY DEF Promise!Next
\* Steps the promise does not see.
<1>q. ASSUME \A d \in Calls : StageOf(d)' = StageOf(d) /\ PlaceOf(d)' = PlaceOf(d), Told' = Told
      PROVE  Goal
  <2>1. Stages' = Stages /\ Places' = Places
    BY <1>q, NoStageMoves, NoPlaceMoves
  <2> QED
    BY <1>q, <2>1 DEF Promise!vars, Stages, Places, Told
<1>f. ASSUME UNCHANGED <<start, conn, tracked, ticket, wire, booked, inLine>> PROVE Goal
  <2>1. \A d \in Calls : StageOf(d)' = StageOf(d) /\ PlaceOf(d)' = PlaceOf(d)
    BY <1>f DEF StageOf, PlaceOf
  <2>2. Told' = Told
    BY <1>f DEF Told
  <2> QED
    BY <1>q, <2>1, <2>2
\* Steps that move the stage of one call, or the place of one call, forward.
<1>m. ASSUME NEW c \in Calls, NEW from, NEW to, StageOf(c) = from, StageOf(c)' = to,
             \A d \in Calls : d # c => StageOf(d)' = StageOf(d)
      PROVE  Promise!Move(c, from, to)
  BY <1>m, OneStageMoves DEF Promise!Move, Stages
<1>p. ASSUME NEW c \in Calls, PlaceOf(c)' \in Promise!After[PlaceOf(c)],
             \A d \in Calls : d # c => PlaceOf(d)' = PlaceOf(d),
             UNCHANGED <<start, conn, tracked, ticket>>
      PROVE  Goal
  <2>1. Places' = [Places EXCEPT ![c] = PlaceOf(c)'] /\ Places[c] = PlaceOf(c)
    BY <1>p, OnePlaceMoves DEF Places
  <2>2. Stages' = Stages /\ Told' = Told
    BY <1>p DEF Stages, Told, StageOf
  <2>3. Promise!Serve(c)
    BY <1>p, <2>1, <2>2 DEF Promise!Serve, Stages, Places, Told
  <2> QED
    BY <2>3 DEF Promise!Next
<1> DEFINE Returned(c) == [start EXCEPT ![c] = "returned"]
           Failed(c)   == [conn EXCEPT ![c] = "failed"]
<1>s. \A d \in Calls : start[d] \in Unborn => conn[d] = "none"
  BY <1>0 DEF Requests
\* A call leaves "new" and is prompted for.
<1>b. ASSUME NEW c \in Calls, start[c] \in {"unused", "restarting"},
             start' = [start EXCEPT ![c] = "priming"],
             \A d \in Calls : conn'[d] = conn[d] \/ (conn[d] = "closing" /\ conn'[d] = "closed"),
             UNCHANGED <<tracked, ticket, wire, booked, inLine>>
      PROVE  Goal
  <2>1. \A d \in Calls : d # c => start'[d] = start[d]
    BY <1>0, <1>b DEF Starteds
  <2>2. start'[c] = "priming"
    BY <1>0, <1>b DEF Starteds
  <2>3. StageOf(c) = "new" /\ StageOf(c)' = "prompting"
    BY <1>b, <2>2 DEF StageOf
  <2>4. \A d \in Calls : d # c => StageOf(d)' = StageOf(d)
    BY <1>b, <2>1 DEF StageOf
  <2>5. \A d \in Calls : PlaceOf(d)' = PlaceOf(d)
    BY <1>b, PlaceStays
  <2>6. Promise!Move(c, "new", "prompting") /\ Places' = Places /\ Told' = Told
    BY <1>m, <1>b, <2>3, <2>4, <2>5, NoPlaceMoves DEF Told
  <2>7. Promise!Prompt(c)
    BY <2>6 DEF Promise!Prompt, Places, Told
  <2> QED
    BY <2>7 DEF Promise!Next
\* The first half of a teardown.
<1>t. ASSUME NEW kind, kind # "restart" \/ client # NoCall, NEW next, NEW shown,
             NEW started \in Starteds, NEW conns \in Conns,
             \A d \in Calls : \/ started[d] = start[d]
                              \/ start[d] = "unused" /\ started[d] = "restarting"
                              \/ start[d] \notin {"unused", "restarting"} /\ started[d] = "returned",
             \A d \in Calls : conns[d] = conn[d] \/ (conn[d] \in InProgress /\ conns[d] = "failed"),
             Teardown(kind, next, shown, started, conns),
             UNCHANGED <<wire, booked, inLine>>
      PROVE  Goal
  <2>1. \A d \in Calls : (conn'[d] = "none") <=> (conn[d] = "none")
    BY <1>t DEF Teardown, Complete, Conns, InProgress
  <2>2. \A d \in Calls : PlaceOf(d)' = PlaceOf(d)
    BY <1>t, <2>1, PlaceStays
  <2> QED
    BY <1>e, <1>t, <2>2, TeardownEnds
<1>1. ASSUME NEW k \in Teardowns, FinishTeardown(k) PROVE Goal
  <2>1. /\ UNCHANGED <<tracked, ticket, wire, booked, inLine>>
        /\ \A d \in Calls : conn'[d] = conn[d] \/ (conn[d] = "closing" /\ conn'[d] = "closed")
    BY <1>0, <1>1 DEF FinishTeardown, meter, net, server, Conns
  <2>2. CASE td[k].kind = "restart"
    <3>1. PICK c \in Calls : td[k].next = c
      BY <2>2 DEF Ledger, Restarts
    <3>2. start[c] = "restarting" /\ start' = [start EXCEPT ![c] = "priming"]
      BY <1>1, <2>2, <3>1 DEF Ledger, Restarts, FinishTeardown, Complete
    <3> QED
      BY <1>b, <2>1, <3>2
  <2>3. CASE td[k].kind # "restart"
    <3>1. start' = start
      BY <1>1, <2>3 DEF FinishTeardown, Complete
    <3>2. \A d \in Calls : StageOf(d)' = StageOf(d)
      BY <2>1, <3>1 DEF StageOf
    <3>3. \A d \in Calls : PlaceOf(d)' = PlaceOf(d)
      BY <2>1, PlaceStays
    <3> QED
      BY <1>q, <2>1, <3>2, <3>3 DEF Told
  <2> QED
    BY <2>2, <2>3
<1>2. ASSUME NEW c \in Calls, TapCircle(c) \/ (Restart(c) /\ client = NoCall) PROVE Goal
  <2>1. /\ start[c] = "unused" /\ start' = [start EXCEPT ![c] = "priming"]
        /\ UNCHANGED <<conn, tracked, ticket, wire, booked, inLine>>
    BY <1>2 DEF TapCircle, Restart, DoStart, Unused, meter, net, server
  <2> QED
    BY <1>b, <2>1
<1>3. ASSUME NEW c \in Calls, Restart(c), client # NoCall PROVE Goal
  <2> DEFINE started == [start EXCEPT ![c] = "restarting"]
  <2>1. /\ Teardown("restart", c, ui, started, conn) /\ start[c] = "unused"
        /\ UNCHANGED <<wire, booked, inLine>>
    BY <1>3 DEF Restart, Unused, server
  <2>2. started \in Starteds
        /\ \A d \in Calls : started[d] = start[d] \/ (start[d] = "unused" /\ started[d] = "restarting")
    BY <1>0, <2>1 DEF Starteds, StartPhases
  <2> HIDE DEF started
  <2> QED
    BY <1>0, <1>3, <1>t, <2>1, <2>2
<1>4. ASSUME NEW c \in Calls, PrimeGranted(c) PROVE Goal
  <2>1. /\ start[c] = "priming" /\ start'[c] = "connecting" /\ conn'[c] = "asking" /\ wire'[c] = "posted"
        /\ \A d \in Calls : d # c => start'[d] = start[d] /\ conn'[d] = conn[d] /\ wire'[d] = wire[d]
        /\ UNCHANGED <<tracked, ticket, booked, inLine>>
    BY <1>0, <1>4 DEF PrimeGranted, meter, server, Starteds, Conns, TypeOK
  <2>2. StageOf(c) = "prompting" /\ StageOf(c)' = "asking" /\ PlaceOf(c)' = "asked"
    <3>1. StageOf(c) = "prompting"
      BY <2>1 DEF StageOf
    <3>2. StageOf(c)' = "asking"
      BY <2>1 DEF StageOf
    <3>3. PlaceOf(c)' = "asked"
      BY <1>n, <2>1 DEF PlaceOf
    <3> QED
      BY <3>1, <3>2, <3>3
  <2>3. \A d \in Calls : d # c => StageOf(d)' = StageOf(d) /\ PlaceOf(d)' = PlaceOf(d)
    BY <2>1 DEF StageOf, PlaceOf
  <2>4. Promise!Move(c, "prompting", "asking")
    BY <1>m, <2>2, <2>3
  <2>5. Places' = [Places EXCEPT ![c] = "asked"] /\ Told' = Told
    BY <2>1, <2>2, <2>3, OnePlaceMoves DEF Told
  <2>6. Promise!Ask(c)
    BY <2>4, <2>5 DEF Promise!Ask, Places, Told
  <2> QED
    BY <2>6 DEF Promise!Next
<1>5. ASSUME NEW c \in Calls, PrimeDenied(c) PROVE Goal
  <2>1. /\ start[c] = "priming" /\ Teardown("fatal", NoCall, ui, Returned(c), conn)
        /\ UNCHANGED <<wire, booked, inLine>>
    BY <1>5 DEF PrimeDenied, server
  <2>2. Returned(c) \in Starteds
        /\ \A d \in Calls : Returned(c)[d] = start[d]
             \/ (start[d] \notin {"unused", "restarting"} /\ Returned(c)[d] = "returned")
    BY <1>0, <2>1 DEF Starteds, StartPhases
  <2> HIDE DEF Returned
  <2> QED
    BY <1>0, <1>t, <2>1, <2>2
\* The page reads the answer of the server.
<1>6. ASSUME NEW c \in Calls, Granted(c) \/ Queued(c) \/ ReadyToJoin(c) PROVE Goal
  <2>1. /\ start' = start /\ booked' = booked /\ inLine' = inLine
        /\ \A d \in Calls : d # c => conn'[d] = conn[d] /\ wire'[d] = wire[d]
        /\ conn[c] # "none" /\ conn'[c] # "none" /\ wire[c] # "posted" /\ wire'[c] # "posted"
    BY <1>0, <1>6 DEF Granted, Queued, ReadyToJoin, SessionEvent, server, Conns, TypeOK
  <2>2. \A d \in Calls : /\ PlaceOf(d)' = PlaceOf(d)
                         /\ d # c => StageOf(d)' = StageOf(d)
    BY <2>1 DEF StageOf, PlaceOf
  <2>3. start[c] \notin Unborn /\ start[c] \in {"connecting", "returned"}
    BY <1>0, <2>1 DEF Requests, TypeOK, StartPhases, Unborn
  <2>4. /\ wire[c] \in {"session", "offer"} => PlaceOf(c) \in {"slot", "past"}
        /\ wire[c] = "ticket" => PlaceOf(c) \in {"line", "past"}
    BY <1>0, <2>1 DEF PlaceOf, Requests
  <2>5. Places' = Places /\ Places[c] = PlaceOf(c)
    BY <2>2, NoPlaceMoves DEF Places
  <2>6. CASE Granted(c)
    <3>1. /\ conn[c] = "asking" /\ conn'[c] = "dialing" /\ wire[c] = "session" /\ ticket' = NoCall
          /\ IF Metered THEN tracked' = c ELSE tracked' = tracked
      BY <1>0, <2>6 DEF Granted, SessionEvent, Conns
    <3>2. StageOf(c) = "asking" /\ StageOf(c)' = "joining"
      BY <2>1, <2>3, <3>1 DEF StageOf
    <3>3. Promise!Move(c, "asking", "joining")
      BY <1>m, <2>2, <3>2
    <3>4. Told' \subseteq Told \union {c} /\ (Metered => c \in Told')
      BY <3>1, ClientAssumption DEF Told
    <3>5. Promise!Admit(c)
      BY <2>4, <2>5, <3>1, <3>3, <3>4 DEF Promise!Admit, Promise!KeepIfMetered, Places, Told
    <3> QED
      BY <3>5 DEF Promise!Next
  <2>7. CASE Queued(c)
    <3>1. /\ conn[c] = "asking" /\ conn'[c] = "queued" /\ wire[c] = "ticket" /\ ticket' = c
          /\ tracked' = tracked
      BY <1>0, <2>7 DEF Queued, Conns
    <3>2. StageOf(c) = "asking" /\ StageOf(c)' = "waiting"
      BY <2>1, <2>3, <3>1 DEF StageOf
    <3>3. Promise!Move(c, "asking", "waiting")
      BY <1>m, <2>2, <3>2
    <3>4. Told' \subseteq Told \union {c} /\ c \in Told'
      BY <3>1, ClientAssumption DEF Told
    <3>5. Promise!Wait(c)
      BY <2>4, <2>5, <3>1, <3>3, <3>4 DEF Promise!Wait, Promise!Keep, Places, Told
    <3> QED
      BY <3>5 DEF Promise!Next
  <2>8. CASE ReadyToJoin(c)
    <3>1. /\ conn[c] = "queued" /\ conn'[c] = "held" /\ wire[c] = "offer" /\ ticket' = NoCall
          /\ tracked' = c
      BY <1>0, <2>8 DEF ReadyToJoin, Conns
    <3>2. StageOf(c) = "waiting" /\ StageOf(c)' = "offered"
      BY <2>1, <2>3, <3>1 DEF StageOf
    <3>3. Promise!Move(c, "waiting", "offered")
      BY <1>m, <2>2, <3>2
    <3>4. Told' \subseteq Told \union {c} /\ c \in Told'
      BY <3>1, ClientAssumption DEF Told
    <3>5. Promise!Offer(c)
      BY <2>4, <2>5, <3>1, <3>3, <3>4 DEF Promise!Offer, Promise!Keep, Places, Told
    <3> QED
      BY <3>5 DEF Promise!Next
  <2> QED
    BY <1>6, <2>6, <2>7, <2>8
<1>7. ASSUME Join PROVE Goal
  <2>1. PICK c \in Calls : client = c
    BY <1>0, <1>7 DEF Join, TypeOK
  <2>2. /\ conn[c] = "held" /\ conn'[c] = "dialing" /\ ticket' = NoCall
        /\ IF Metered THEN tracked' = c ELSE tracked' = tracked
        /\ \A d \in Calls : d # c => conn'[d] = conn[d]
        /\ start' = start /\ booked' = booked /\ inLine' = inLine /\ wire' = wire
    BY <1>0, <1>7, <2>1 DEF Join, SessionEvent, Conns, net, server
  <2>3. start[c] \in {"connecting", "returned"}
    BY <1>0, <2>2 DEF Requests, TypeOK, StartPhases, Unborn
  <2>4. StageOf(c) = "offered" /\ StageOf(c)' = "joining"
    BY <2>2, <2>3 DEF StageOf
  <2>5. \A d \in Calls : /\ PlaceOf(d)' = PlaceOf(d)
                         /\ d # c => StageOf(d)' = StageOf(d)
    BY <2>2 DEF StageOf, PlaceOf
  <2>6. Promise!Move(c, "offered", "joining") /\ Places' = Places
    BY <1>m, <2>4, <2>5, NoPlaceMoves
  <2>7. Told' \subseteq Told \union {c} /\ (Metered => c \in Told')
    BY <2>2, ClientAssumption DEF Told
  <2>8. Promise!Join(c)
    BY <2>6, <2>7 DEF Promise!Join, Promise!KeepIfMetered, Places, Told
  <2> QED
    BY <2>8 DEF Promise!Next
<1>8. ASSUME NEW c \in Calls, AcquireMic(c) PROVE Goal
  <2>1. /\ conn[c] = "dialing" /\ conn'[c] = "dialed"
        /\ \A d \in Calls : d # c => conn'[d] = conn[d]
        /\ UNCHANGED <<start, tracked, ticket, wire, booked, inLine>>
    BY <1>0, <1>8 DEF AcquireMic, Conns, meter, net, server
  <2>2. \A d \in Calls : StageOf(d)' = StageOf(d) /\ PlaceOf(d)' = PlaceOf(d)
    BY <2>1 DEF StageOf, PlaceOf
  <2> QED
    BY <1>q, <2>1, <2>2 DEF Told
<1>9. ASSUME NEW c \in Calls, Connected(c) PROVE Goal
  <2>1. /\ conn[c] = "dialed" /\ conn'[c] = "open" /\ start'[c] = "returned"
        /\ \A d \in Calls : d # c => conn'[d] = conn[d] /\ start'[d] = start[d]
        /\ UNCHANGED <<tracked, ticket, wire, booked, inLine>>
    BY <1>0, <1>9 DEF Connected, Starteds, Conns, meter, net, server
  <2>2. start[c] \in {"connecting", "returned"}
    BY <1>0, <2>1 DEF Requests, TypeOK, StartPhases, Unborn
  <2>3. StageOf(c) = "joining" /\ StageOf(c)' = "talking"
    BY <2>1, <2>2 DEF StageOf
  <2>4. \A d \in Calls : /\ PlaceOf(d)' = PlaceOf(d)
                         /\ d # c => StageOf(d)' = StageOf(d)
    BY <2>1 DEF StageOf, PlaceOf
  <2>5. Promise!Move(c, "joining", "talking") /\ Places' = Places /\ Told' = Told
    BY <1>m, <2>1, <2>3, <2>4, NoPlaceMoves DEF Told
  <2>6. Promise!Talk(c)
    BY <2>5 DEF Promise!Talk, Places, Told
  <2> QED
    BY <2>6 DEF Promise!Next
<1>10. ASSUME NEW c \in Calls, ConnectFails(c) PROVE Goal
  <2>1. PICK kind \in {"limit", "login", "busy", "fatal"} : Reject(c, kind)
    BY <1>10, FailsByRejection
  <2>2. Teardown(kind, NoCall, ui, Returned(c), Failed(c)) /\ booked' = booked
    BY <2>1 DEF Reject
  <2>3. conn[c] \in InProgress /\ start[c] \notin Unborn
    BY <1>0, <1>10, FailsByRejection DEF Requests, InProgress
  <2>4. /\ Returned(c) \in Starteds /\ Failed(c) \in Conns /\ Failed(c)[c] = "failed"
        /\ \A d \in Calls :
             \/ Returned(c)[d] = start[d]
             \/ start[d] \notin {"unused", "restarting"} /\ Returned(c)[d] = "returned"
        /\ \A d \in Calls :
             Failed(c)[d] = conn[d] \/ (conn[d] \in InProgress /\ Failed(c)[d] = "failed")
    BY <1>0, <2>3 DEF Starteds, StartPhases, Conns, ConnPhases, Unborn
  <2>5. \A d \in Calls : (conn'[d] = "none") <=> (conn[d] = "none")
    <3> HIDE DEF Failed, Returned
    <3> QED
      BY <2>2, <2>4 DEF Teardown, Complete, Conns, InProgress
  <2>6. StageOf(c) \notin {"new", "over"}
    BY <2>3, StagesOf DEF Unborn
  <2>7. CASE UNCHANGED <<wire, inLine>>
    <3> HIDE DEF Failed, Returned
    <3> QED
      BY <1>t, <2>1, <2>2, <2>4, <2>7
  <2>8. CASE /\ wire[c] \in {"posted", "polled"}
             /\ wire' = [wire EXCEPT ![c] = "none"]
             /\ \/ UNCHANGED inLine
                \/ wire[c] = "polled" /\ inLine' = inLine \ {c}
    <3>1. \A d \in Calls : d # c => wire'[d] = wire[d] /\ (d \in inLine' <=> d \in inLine)
      BY <1>0, <2>8 DEF TypeOK
    <3>2. \A d \in Calls : d # c => PlaceOf(d)' = PlaceOf(d)
      BY <2>2, <2>5, <3>1, PlaceStays
    <3>3. wire'[c] = "none" /\ conn[c] # "none" /\ c \notin booked
      BY <1>0, <2>3, <2>8 DEF TypeOK, InProgress, Requests
    <3>4. PlaceOf(c)' = PlaceOf(c) \/ (PlaceOf(c) \in {"asked", "line"} /\ PlaceOf(c)' = "past")
      BY <1>0, <2>2, <2>5, <2>8, <3>3 DEF PlaceOf, Requests
    <3>5. \/ \A d \in Calls : PlaceOf(d)' = PlaceOf(d)
          \/ PlaceOf(c) \in {"asked", "line"} /\ PlaceOf(c)' = "past"
      BY <3>2, <3>4
    <3> HIDE DEF Failed, Returned
    <3> QED
      BY <1>e, <2>1, <2>2, <2>4, <2>6, <3>2, <3>5, TeardownEnds
  <2> QED
    BY <1>10, <2>7, <2>8, FailsByRejection
<1>11. ASSUME NEW c \in Calls, ClientError(c) PROVE Goal
  <2>1. /\ conn[c] = "open" /\ Teardown("fatal", NoCall, "error", start, Failed(c))
        /\ UNCHANGED <<wire, booked, inLine>>
    BY <1>11 DEF ClientError, server
  <2>2. Failed(c) \in Conns
        /\ \A d \in Calls : Failed(c)[d] = conn[d] \/ (conn[d] \in InProgress /\ Failed(c)[d] = "failed")
    BY <1>0, <2>1 DEF Conns, ConnPhases, InProgress
  <2> HIDE DEF Failed
  <2> QED
    BY <1>0, <1>t, <2>1, <2>2
<1>12. ASSUME NEW c \in Calls, HeartbeatExpired(c) PROVE Goal
  BY <1>0, <1>12, <1>t DEF HeartbeatExpired, server
<1>13. ASSUME Stop \/ LeaveQueue PROVE Goal
  BY <1>0, <1>13, <1>t DEF Stop, LeaveQueue, server
\* The server serves a request, or gives up a place.
<1>14. ASSUME NEW c \in Calls, ServerStep(c) PROVE Goal
  <2>1. /\ UNCHANGED <<start, conn, tracked, ticket>>
        /\ \A d \in Calls : d # c => /\ wire'[d] = wire[d] /\ (d \in booked' <=> d \in booked)
                                     /\ (d \in inLine' <=> d \in inLine)
        /\ wire'[c] = "posted" => wire[c] = "posted"
    BY <1>0, <1>14 DEF ServerStep, Grant, Enqueue, Claim, ServeEnd, ServeLeave, Lapse, Book, page,
       meter, net, TypeOK
  <2>2. \A d \in Calls : d # c => PlaceOf(d)' = PlaceOf(d)
    BY <2>1, PlaceStays
  <2>3. /\ conn[c] = "none" => c \notin booked' \union inLine'
        /\ PlaceOf(c) = "slot" => c \notin inLine'
        /\ PlaceOf(c) = "past" => c \notin booked' \union inLine'
        /\ wire'[c] = "posted" => c \notin booked' \union inLine'
    <3>1. /\ conn[c] = "none" => wire[c] = "none" /\ c \notin booked \union inLine
          /\ c \in booked => wire[c] \notin {"posted", "ticket", "polled"}
      BY <1>0 DEF Requests
    <3>2. \/ booked' \subseteq booked /\ inLine' \subseteq inLine /\ wire'[c] = wire[c]
          \/ wire[c] = "posted" /\ wire'[c] # "posted"
          \/ wire[c] = "polled" /\ c \in inLine /\ c \notin inLine' /\ wire'[c] # "posted"
      BY <1>0, <1>14 DEF ServerStep, Grant, Enqueue, Claim, ServeEnd, ServeLeave, Lapse, page, net,
         TypeOK
    <3>3. wire[c] = "posted" => c \notin booked \union inLine
      BY <1>0 DEF Requests
    <3> QED
      BY <3>1, <3>2, <3>3 DEF PlaceOf
  <2>4. \/ PlaceOf(c)' = PlaceOf(c)
        \/ PlaceOf(c)' \in Promise!After[PlaceOf(c)]
    <3>1. /\ PlaceOf(c) = "asked" => PlaceOf(c)' \in {"asked", "line", "slot", "past"}
          /\ PlaceOf(c) = "line" => PlaceOf(c)' \in {"line", "slot", "past"}
          /\ PlaceOf(c) = "slot" => PlaceOf(c)' \in {"slot", "past"}
          /\ PlaceOf(c) = "past" => PlaceOf(c)' = "past"
          /\ PlaceOf(c) = "none" => PlaceOf(c)' = "none"
      <4>1. PlaceOf(c) \in {"asked", "line"} => conn[c] # "none"
            /\ (PlaceOf(c) # "asked" => wire[c] # "posted")
        BY <1>d DEF PlaceOf
      <4>2. (PlaceOf(c) = "asked" => PlaceOf(c)' \in {"asked", "line", "slot", "past"})
        BY <1>d, <1>n, <2>1, <4>1 DEF PlaceOf
      <4>3. PlaceOf(c) = "line" => PlaceOf(c)' \in {"line", "slot", "past"}
        BY <1>d, <1>n, <2>1, <4>1 DEF PlaceOf
      <4>4. PlaceOf(c) = "slot" => PlaceOf(c)' \in {"slot", "past"}
        BY <1>d, <1>n, <2>1, <2>3 DEF PlaceOf
      <4>5. PlaceOf(c) = "past" => PlaceOf(c)' = "past"
        BY <1>d, <1>n, <2>1, <2>3 DEF PlaceOf
      <4>6. PlaceOf(c) = "none" => PlaceOf(c)' = "none"
        BY <1>n, <2>1, PlacesOf DEF PlaceOf
      <4> QED
        BY <4>2, <4>3, <4>4, <4>5, <4>6
    <3> QED
      BY <3>1, PlacesOf DEF Promise!After
  <2>5. CASE PlaceOf(c)' = PlaceOf(c)
    <3>1. \A d \in Calls : StageOf(d)' = StageOf(d) /\ PlaceOf(d)' = PlaceOf(d)
      BY <2>1, <2>2, <2>5 DEF StageOf
    <3> QED
      BY <1>q, <2>1, <3>1 DEF Told
  <2>6. CASE PlaceOf(c)' \in Promise!After[PlaceOf(c)]
    BY <1>p, <2>1, <2>2, <2>6
  <2> QED
    BY <2>4, <2>5, <2>6
<1>15. ASSUME PageHide PROVE Goal
  <2>1. /\ tracked' = NoCall /\ ticket' = NoCall /\ UNCHANGED <<wire, booked, inLine>>
        /\ \A d \in Calls : /\ start'[d] = IF start[d] \in Underway THEN "returned" ELSE start[d]
                            /\ conn'[d] = IF conn[d] \in InProgress THEN "closed" ELSE conn[d]
    BY <1>15 DEF PageHide, Farewell, server
  <2>2. \A d \in Calls : PlaceOf(d)' = PlaceOf(d)
    BY <2>1, PlaceStays DEF InProgress
  <2>3. \A d \in Calls : \/ StageOf(d)' = StageOf(d)
                         \/ StageOf(d) # "new" /\ StageOf(d)' = "over"
    <3> SUFFICES ASSUME NEW d \in Calls
                 PROVE  \/ StageOf(d)' = StageOf(d)
                        \/ StageOf(d) # "new" /\ StageOf(d)' = "over"
      OBVIOUS
    <3>1. start[d] \in StartPhases
      BY <1>0 DEF TypeOK
    <3>2. CASE start[d] \in {"unused", "restarting"}
      BY <2>1, <3>2 DEF StageOf, Underway
    <3>3. CASE start[d] = "priming"
      <4>1. start'[d] = "returned" /\ conn'[d] = "none"
        BY <1>s, <2>1, <3>3 DEF Unborn, Underway, InProgress
      <4> QED
        BY <3>3, <4>1 DEF StageOf
    <3>4. CASE start[d] \in {"connecting", "returned"}
      <4>1. start'[d] = "returned" /\ conn'[d] \notin InProgress
        BY <2>1, <3>4 DEF Underway, InProgress
      <4>2. StageOf(d)' = "over"
        BY <4>1 DEF StageOf, InProgress
      <4> QED
        BY <3>4, <4>2, StagesOf
    <3> QED
      BY <3>1, <3>2, <3>3, <3>4 DEF StartPhases
  <2> QED
    BY <1>e, <2>1, <2>2, <2>3, CallsEnd
<1>16. ASSUME NEW c \in Calls, AcquireMicLate(c) \/ Speaking(c) \/ HeartbeatServed(c) \/ HeartbeatLost(c)
       PROVE  Goal
  BY <1>16, <1>f DEF AcquireMicLate, Speaking, HeartbeatServed, HeartbeatLost, meter, net, server
<1>17. ASSUME HeartbeatTick \/ SpendBudget \/ UNCHANGED vars PROVE Goal
  BY <1>17, <1>f DEF HeartbeatTick, SpendBudget, vars, page, meter, net, server
<1> QED
  BY <1>1, <1>2, <1>3, <1>4, <1>5, <1>6, <1>7, <1>8, <1>9, <1>10, <1>11, <1>12, <1>13, <1>14, <1>15,
     <1>16, <1>17 DEF Next, CallStep

\* The page and the server keep the promise of Conversation: every call goes from its
\* prompt to its end in order, its place comes from its own request, once, and the
\* page keeps no place of a call it has ended.
THEOREM KeepsPromise == Spec => ConversationSpec
<1>1. Ledger /\ Ledger' /\ [Next]_vars => [Promise!Next]_(Promise!vars)
  BY StepKeepsPromise
<1> QED
  BY <1>1, InitKeepsPromise, LedgerHolds, PTL DEF Spec, ConversationSpec, Promise!Spec

=============================================================================
