---------------------------- MODULE VoiceClient ----------------------------
(***************************************************************************)
(* The life cycle of a conversation in the browser page (demo/main.js).    *)
(*                                                                         *)
(* The page is single-threaded but its async functions interleave at every *)
(* await: doStart waits for the microphone prompt and for connect(),       *)
(* teardown waits for client.close(), the heartbeat waits for its reply,   *)
(* and acquireMicStream for getUserMedia.  Every one of them reads and     *)
(* writes the same module variables (client, micStream, trackedSessionId,  *)
(* queuedTicketId, currentState) after its await.  One activation of       *)
(* doStart is a member of Calls, and so is the client it creates; one      *)
(* activation of teardown that is waiting for close() is a member of       *)
(* Teardowns.                                                              *)
(*                                                                         *)
(* The realtime client (s2s-realtime-client.js) is not in the repository:  *)
(* conn is its life cycle as main.js drives and observes it.  The server   *)
(* is reduced to what the page can tell: the sessions it meters, the       *)
(* tickets in line, which of both it may give up on its own, and whether   *)
(* the day's budget is spent.  It serves a request at one step, and the    *)
(* page reads the answer at another, or never: a client that was closed    *)
(* leaves it unread.  A farewell is served at a later step, or lost.       *)
(***************************************************************************)
EXTENDS FiniteSets

CONSTANTS
  Calls,      \* activations of doStart, hence clients, sessions and tickets
  NoCall,     \* null, "", no client
  Teardowns,  \* activations of teardown that may be suspended at once
  Metered     \* TRUE where the server meters (a metered tier of the limiter)

ASSUME ClientAssumption ==
  /\ NoCall \notin Calls
  /\ Metered \in BOOLEAN

VARIABLES
  ui,          \* currentState; the four live states are one, "live"
  modal,       \* the account dialog on screen
  client,      \* main.js's client: the call whose client it is, or NoCall
  start,       \* [Calls -> StartPhases]: the activation of doStart
  conn,        \* [Calls -> ConnPhases]: the realtime client of the call
  td,          \* [Teardowns -> teardown activations suspended in close()]
  micStream,   \* main.js's micStream: the call it was acquired for, or NoCall
  micPending,  \* closed calls whose getUserMedia has not come back
  capturing,   \* calls whose capture stream is on: the recording indicator
  tracked,     \* trackedSessionId
  ticket,      \* queuedTicketId
  timer,       \* TRUE while heartbeatTimer is running
  beat,        \* [Calls -> the heartbeat in flight for that session]
  wire,        \* [Calls -> the client's request for a slot, or its answer unread]
  ending,      \* calls whose api/session/end is sent and not served
  leaving,     \* calls whose api/queue/end is sent and not served
  booked,      \* at the server: sessions with a live reservation
  inLine,      \* at the load balancer: tickets waiting in the queue
  reaped,      \* at the server: sessions the sweeper has ended (history)
  spent,       \* at the server: the day's budget is used up
  overlapped,  \* calls in progress at the same time as another (history)
  pressed,     \* a button was pressed while a teardown awaited close() (history)
  cut,         \* the session whose expired reply last cut the page, or NoCall (history)
  cutStale     \* a reply has cut a page that tracked another session (history)

server    == <<booked, inLine, reaped, spent>>
farewells == <<ending, leaving>>
net       == <<wire, farewells>>
media     == <<micStream, micPending, capturing>>
meter     == <<tracked, ticket, timer>>
history   == <<overlapped, pressed, cut, cutStale>>
vars      == <<ui, modal, client, start, conn, td, beat, media, meter, net, server, history>>

\* "gone": the tab is closed.
UiStates    == {"idle", "connecting", "queued", "your-turn", "live", "error", "gone"}
\* "other": the line is full, or a login is required.
Modals      == {"none", "limit", "other"}
StartPhases == {"unused", "restarting", "priming", "connecting", "returned"}
ConnPhases  == {"none", "asking", "queued", "held", "dialing", "dialed", "open",
                "closing", "closed", "failed"}
BeatPhases  == {"none", "sent", "expired"}

\* "posted" and "polled" are requests; "session", "ticket" and "offer" their
\* answers.  A client in line is always polling.
WirePhases  == {"none", "posted", "session", "ticket", "polled", "offer"}

\* What the caller of teardown does after its await; "fatal" is every failure that
\* leaves the retry state with a caption.
Kinds == {"stop", "limit", "busy", "login", "fatal", "restart"}

NoTeardown == [kind |-> "none", of |-> NoCall, next |-> NoCall]

\* A connection the realtime client is making or keeps.
InProgress == {"asking", "queued", "held", "dialing", "dialed", "open"}

Underway == {"priming", "connecting"}

TypeOK ==
  /\ ui \in UiStates
  /\ modal \in Modals
  /\ client \in Calls \union {NoCall}
  /\ start \in [Calls -> StartPhases]
  /\ conn \in [Calls -> ConnPhases]
  /\ td \in [Teardowns -> [kind : Kinds, of : Calls, next : Calls \union {NoCall}]
                            \union {NoTeardown}]
  /\ micStream \in Calls \union {NoCall}
  /\ micPending \in SUBSET Calls
  /\ capturing \in SUBSET Calls
  /\ tracked \in Calls \union {NoCall}
  /\ ticket \in Calls \union {NoCall}
  /\ timer \in BOOLEAN
  /\ beat \in [Calls -> BeatPhases]
  /\ wire \in [Calls -> WirePhases]
  /\ ending \in SUBSET Calls /\ leaving \in SUBSET Calls
  /\ booked \in SUBSET Calls /\ inLine \in SUBSET Calls /\ reaped \in SUBSET Calls
  /\ spent \in BOOLEAN
  /\ overlapped \in SUBSET Calls
  /\ pressed \in BOOLEAN /\ cutStale \in BOOLEAN
  /\ cut \in Calls \union {NoCall}

Init ==
  /\ ui = "idle"
  /\ modal = "none"
  /\ client = NoCall
  /\ start = [c \in Calls |-> "unused"]
  /\ conn = [c \in Calls |-> "none"]
  /\ td = [k \in Teardowns |-> NoTeardown]
  /\ micStream = NoCall
  /\ micPending = {}
  /\ capturing = {}
  /\ tracked = NoCall
  /\ ticket = NoCall
  /\ timer = FALSE
  /\ beat = [c \in Calls |-> "none"]
  /\ wire = [c \in Calls |-> "none"]
  /\ ending = {} /\ leaving = {}
  /\ booked = {} /\ inLine = {} /\ reaped = {}
  /\ spent = FALSE
  /\ overlapped = {} /\ pressed = FALSE /\ cut = NoCall /\ cutStale = FALSE

Loaded == ui # "gone"

NoTeardownPending == \A k \in Teardowns : td[k] = NoTeardown

----------------------------------------------------------------------------
\* teardown(), which every way out of a conversation runs.

\* Mutants: teardown leaves the status the client last reported, "closed", on
\* the page; or it leaves the page as it was.
AfterUiClosed(kind) ==
  CASE kind = "restart"             -> "connecting"
    [] kind \in {"login", "fatal"} -> "error"
    [] OTHER                        -> "closed"

AfterUiStale(kind) == IF kind = "restart" THEN "connecting" ELSE ui

AfterUi(kind) ==
  CASE kind = "restart"             -> "connecting"
    [] kind \in {"login", "fatal"} -> "error"
    [] OTHER                        -> "idle"

\* Mutant: every refusal is explained as the daily limit.
AfterModalLimit(kind) == IF kind \in {"limit", "busy", "login"} THEN "limit" ELSE modal

AfterModal(kind) ==
  CASE kind = "limit"              -> "limit"
    [] kind \in {"busy", "login"} -> "other"
    [] OTHER                       -> modal

\* Mutant: the capture stream is dropped without being stopped.
CompleteMicOn(kind, next, started) ==
  /\ client' = NoCall
  /\ micStream' = NoCall
  /\ capturing' = capturing
  /\ ui' = AfterUi(kind)
  /\ modal' = AfterModal(kind)
  /\ start' = IF kind = "restart" THEN [started EXCEPT ![next] = "priming"]
              ELSE started

\* The half after `await client.close()`, and what the caller does next: it
\* nulls whatever client is current, stops whatever stream micStream holds.
Complete(kind, next, started) ==
  /\ client' = NoCall
  /\ micStream' = NoCall
  /\ capturing' = capturing \ {micStream}
  /\ ui' = AfterUi(kind)
  /\ modal' = AfterModal(kind)
  /\ start' = IF kind = "restart" THEN [started EXCEPT ![next] = "priming"]
              ELSE started

\* Mutant: the page forgets what it has at the server without a farewell.
FarewellUnsent ==
  /\ tracked' = NoCall
  /\ ticket' = NoCall
  /\ UNCHANGED farewells

\* endTrackedSession() and endQueueTicket(): two beacons, best effort.
Farewell ==
  /\ tracked' = NoCall
  /\ ending' = ending \union ({tracked} \ {NoCall})
  /\ ticket' = NoCall
  /\ leaving' = leaving \union ({ticket} \ {NoCall})

\* The half before it: stop the timer, tell the server, close the client.
\* close() aborts a connect() underway, whose doStart then just returns.
\* Without a client there is nothing to wait for.
Teardown(kind, next, shown, started, conns) ==
  /\ timer' = FALSE
  /\ Farewell
  /\ IF client = NoCall
     THEN /\ Complete(kind, next, started)
          /\ conn' = conns
          /\ UNCHANGED <<td, micPending>>
     ELSE /\ \E k \in Teardowns :
               /\ td[k] = NoTeardown /\ k = CHOOSE l \in Teardowns : td[l] = NoTeardown
               /\ td' = [td EXCEPT ![k] = [kind |-> kind, of |-> client, next |-> next]]
          /\ conn' = [conns EXCEPT ![client] =
                        IF @ \in InProgress THEN "closing" ELSE @]
          /\ micPending' = IF conns[client] = "dialing" THEN micPending \union {client}
                           ELSE micPending
          /\ start' = [started EXCEPT ![client] = "returned"]
          /\ ui' = shown
          /\ UNCHANGED <<modal, client, micStream, capturing>>

\* close() has come back.
FinishTeardown(k) ==
  /\ Loaded
  /\ td[k] # NoTeardown
  /\ Complete(td[k].kind, td[k].next, start)
  /\ td' = [td EXCEPT ![k] = NoTeardown]
  /\ conn' = [conn EXCEPT ![td[k].of] = IF @ = "closing" THEN "closed" ELSE @]
  /\ UNCHANGED <<micPending, meter, beat, net, server, history>>

\* connect() of call c rejects: doStart rethrows, handleStartError tears down
\* and shows what the error calls for.
Reject(c, kind) ==
  /\ Teardown(kind, NoCall, ui, [start EXCEPT ![c] = "returned"],
              [conn EXCEPT ![c] = "failed"])
  /\ UNCHANGED <<beat, booked, reaped, spent, history>>

----------------------------------------------------------------------------
\* doStart(), up to connect().

\* A button that stays enabled while a teardown awaits close().
Press ==
  /\ pressed' = (pressed \/ ~NoTeardownPending)
  /\ UNCHANGED <<overlapped, cut, cutStale>>

\* Calls and suspended teardowns are interchangeable: a new one is the chosen one of
\* those that are free.
Unused(c) == start[c] = "unused" /\ c = CHOOSE d \in Calls : start[d] = "unused"

\* The synchronous part: the state, then the microphone prompt is up.
DoStart(c) ==
  /\ Unused(c)
  /\ start' = [start EXCEPT ![c] = "priming"]
  /\ ui' = "connecting"
  /\ modal' = "none"

TapCircle(c) ==
  /\ Loaded
  /\ ui \in {"idle", "error"}
  /\ DoStart(c)
  /\ Press
  /\ UNCHANGED <<client, conn, td, beat, media, meter, net, server>>

\* The prompt is answered: a client is made, stored, and told to connect.
PrimeGranted(c) ==
  /\ Loaded
  /\ start[c] = "priming"
  /\ start' = [start EXCEPT ![c] = "connecting"]
  /\ conn' = [conn EXCEPT ![c] = "asking"]
  /\ wire' = [wire EXCEPT ![c] = "posted"]
  /\ client' = c
  /\ ui' = "connecting"
  /\ LET others == {d \in Calls : conn[d] \in InProgress}
     IN overlapped' = overlapped \union others \union (IF others = {} THEN {} ELSE {c})
  /\ UNCHANGED <<modal, td, beat, media, meter, farewells, server, pressed, cut, cutStale>>

PrimeDenied(c) ==
  /\ Loaded
  /\ start[c] = "priming"
  /\ Teardown("fatal", NoCall, ui, [start EXCEPT ![c] = "returned"], conn)
  /\ UNCHANGED <<beat, wire, server, history>>

----------------------------------------------------------------------------
\* The server's side of connect(): it serves a request whatever became of the
\* page.  `Metered` sessions are booked at the grant, or at the claim.  That it checks
\* the budget some awaits before it books is SessionServer's matter.

Book(c) == booked' = IF Metered THEN booked \union {c} ELSE booked

page == <<ui, modal, client, start, conn, td, beat, media, meter, history>>

Grant(c) ==
  /\ wire[c] = "posted"
  /\ ~spent
  /\ wire' = [wire EXCEPT ![c] = "session"]
  /\ Book(c)
  /\ UNCHANGED <<page, farewells, inLine, reaped, spent>>

Enqueue(c) ==
  /\ wire[c] = "posted"
  /\ ~spent
  /\ wire' = [wire EXCEPT ![c] = "ticket"]
  /\ inLine' = inLine \union {c}
  /\ UNCHANGED <<page, farewells, booked, reaped, spent>>

\* The poll of the ticket at the head of the line, which claims a freed slot.
Claim(c) ==
  /\ wire[c] = "polled"
  /\ c \in inLine
  /\ ~spent
  /\ wire' = [wire EXCEPT ![c] = "offer"]
  /\ inLine' = inLine \ {c}
  /\ Book(c)
  /\ UNCHANGED <<page, farewells, reaped, spent>>

ServeEnd(c) ==
  /\ c \in ending
  /\ ending' = ending \ {c}
  /\ booked' = booked \ {c}
  /\ UNCHANGED <<page, wire, leaving, inLine, reaped, spent>>

ServeLeave(c) ==
  /\ c \in leaving
  /\ leaving' = leaving \ {c}
  /\ inLine' = inLine \ {c}
  /\ UNCHANGED <<page, wire, ending, booked, reaped, spent>>

----------------------------------------------------------------------------
\* connect() and the events of the realtime client.

\* Mutant: the session is tracked but its heartbeat is not started.
SessionEventNoTimer(c) ==
  /\ ticket' = NoCall
  /\ IF Metered THEN tracked' = c /\ UNCHANGED timer ELSE UNCHANGED <<tracked, timer>>
  /\ conn' = [conn EXCEPT ![c] = "dialing"]
  /\ ui' = "connecting"

\* The "session" event: a slot was granted.  The caller says from which phase.
SessionEvent(c) ==
  /\ ticket' = NoCall
  /\ IF Metered THEN tracked' = c /\ timer' = TRUE ELSE UNCHANGED <<tracked, timer>>
  /\ conn' = [conn EXCEPT ![c] = "dialing"]
  /\ ui' = "connecting"

Granted(c) ==
  /\ Loaded
  /\ conn[c] = "asking" /\ wire[c] = "session"
  /\ wire' = [wire EXCEPT ![c] = "none"]
  /\ SessionEvent(c)
  /\ UNCHANGED <<modal, client, start, td, beat, media, farewells, server, history>>

\* Mutant: the ticket is not remembered.
QueuedUnkept(c) ==
  /\ Loaded
  /\ conn[c] = "asking" /\ wire[c] = "ticket"
  /\ conn' = [conn EXCEPT ![c] = "queued"]
  /\ wire' = [wire EXCEPT ![c] = "polled"]
  /\ ui' = "queued"
  /\ UNCHANGED <<modal, client, start, td, beat, media, meter, farewells, server, history>>

\* The first "queue" event; the client polls from here on.
Queued(c) ==
  /\ Loaded
  /\ conn[c] = "asking" /\ wire[c] = "ticket"
  /\ conn' = [conn EXCEPT ![c] = "queued"]
  /\ wire' = [wire EXCEPT ![c] = "polled"]
  /\ ticket' = c
  /\ ui' = "queued"
  /\ UNCHANGED <<modal, client, start, td, beat, media, tracked, timer, farewells, server, history>>

\* Mutant: the session is tracked only once it is joined.
ReadyToJoinUntracked(c) ==
  /\ Loaded
  /\ conn[c] = "queued" /\ wire[c] = "offer"
  /\ conn' = [conn EXCEPT ![c] = "held"]
  /\ wire' = [wire EXCEPT ![c] = "none"]
  /\ ticket' = NoCall
  /\ ui' = "your-turn"
  /\ UNCHANGED <<modal, client, start, td, beat, media, tracked, timer, farewells, server, history>>

\* "ready-to-join": the server reserved at the claim, so the id is kept already.
ReadyToJoin(c) ==
  /\ Loaded
  /\ conn[c] = "queued" /\ wire[c] = "offer"
  /\ conn' = [conn EXCEPT ![c] = "held"]
  /\ wire' = [wire EXCEPT ![c] = "none"]
  /\ ticket' = NoCall
  /\ tracked' = c
  /\ ui' = "your-turn"
  /\ UNCHANGED <<modal, client, start, td, beat, media, timer, farewells, server, history>>

Join ==
  /\ Loaded
  /\ ui = "your-turn"
  /\ client # NoCall
  /\ conn[client] = "held"
  /\ SessionEvent(client)
  /\ UNCHANGED <<modal, client, start, td, beat, media, net, server, history>>

AcquireMic(c) ==
  /\ Loaded
  /\ conn[c] = "dialing"
  /\ conn' = [conn EXCEPT ![c] = "dialed"]
  /\ micStream' = c
  /\ capturing' = capturing \union {c}
  /\ UNCHANGED <<ui, modal, client, start, td, beat, micPending, meter, net, server, history>>

\* getUserMedia comes back for a client that was closed meanwhile: the module
\* variable is assigned all the same; the client may stop the stream or not.
AcquireMicLate(c) ==
  /\ Loaded
  /\ c \in micPending
  /\ micPending' = micPending \ {c}
  /\ micStream' = c
  /\ capturing' \in {capturing, capturing \union {c}}
  /\ UNCHANGED <<ui, modal, client, start, conn, td, beat, meter, net, server, history>>

Connected(c) ==
  /\ Loaded
  /\ conn[c] = "dialed"
  /\ conn' = [conn EXCEPT ![c] = "open"]
  /\ start' = [start EXCEPT ![c] = "returned"]
  /\ ui' = "live"
  /\ UNCHANGED <<modal, client, td, beat, media, meter, net, server, history>>

\* user-speaking, processing, ai-speaking: the states of an open conversation.
Speaking(c) ==
  /\ Loaded
  /\ conn[c] = "open"
  /\ ui # "live"
  /\ ui' = "live"
  /\ UNCHANGED <<modal, client, start, conn, td, beat, media, meter, net, server, history>>

\* The server answers the client's request with a refusal, having booked nothing;
\* a claim refused for the budget has cost the ticket.
Refused(c, kind) == Reject(c, kind) /\ wire' = [wire EXCEPT ![c] = "none"]

\* connect() rejects: refused by the server, the place lapsed, the request failed
\* (the server may serve it all the same), the dial failed.
ConnectFails(c) ==
  /\ Loaded
  /\ \/ /\ conn[c] = "asking" /\ wire[c] = "posted"
        /\ \/ \E kind \in {"login", "busy"} : Refused(c, kind)
           \/ Metered /\ spent /\ Refused(c, "limit")
        /\ UNCHANGED inLine
     \/ /\ conn[c] = "queued" /\ wire[c] = "polled"
        /\ \/ Refused(c, "login") /\ UNCHANGED inLine
           \/ c \notin inLine /\ Refused(c, "fatal") /\ UNCHANGED inLine
           \/ Metered /\ spent /\ c \in inLine /\ Refused(c, "limit") /\ inLine' = inLine \ {c}
     \/ /\ conn[c] \in {"asking", "queued", "held", "dialing", "dialed"}
        /\ Reject(c, "fatal")
        /\ UNCHANGED <<wire, inLine>>

\* An open connection breaks: status "error" at once, then onFatalError.
ClientError(c) ==
  /\ Loaded
  /\ conn[c] = "open"
  /\ Teardown("fatal", NoCall, "error", start, [conn EXCEPT ![c] = "failed"])
  /\ UNCHANGED <<beat, wire, server, history>>

----------------------------------------------------------------------------
\* Gestures that end a conversation.

Stop ==
  /\ Loaded
  /\ ui = "live"
  /\ Teardown("stop", NoCall, ui, start, conn)
  /\ Press
  /\ UNCHANGED <<beat, wire, server>>

LeaveQueue ==
  /\ Loaded
  /\ ui \in {"queued", "your-turn"}
  /\ Teardown("stop", NoCall, ui, start, conn)
  /\ Press
  /\ UNCHANGED <<beat, wire, server>>

Restart(c) ==
  /\ Loaded
  /\ ui \notin {"connecting", "queued", "your-turn"}
  /\ Press
  /\ IF client = NoCall
     THEN /\ DoStart(c)
          /\ UNCHANGED <<client, conn, td, beat, media, meter, net, server>>
     ELSE /\ Unused(c)
          /\ Teardown("restart", c, ui, [start EXCEPT ![c] = "restarting"], conn)
          /\ UNCHANGED <<beat, wire, server>>

----------------------------------------------------------------------------
\* The heartbeat, and the budget.

\* Mutant: the timer keeps pinging the session it was started for.
HeartbeatTickKept ==
  /\ Loaded
  /\ timer
  /\ \E c \in Calls :
       /\ conn[c] \in {"dialing", "dialed", "open", "closing", "closed"}
       /\ beat[c] = "none"
       /\ beat' = [beat EXCEPT ![c] = "sent"]
  /\ UNCHANGED <<ui, modal, client, start, conn, td, media, meter, net, server, history>>

HeartbeatTick ==
  /\ Loaded
  /\ timer
  /\ tracked # NoCall
  /\ beat[tracked] = "none"     \* bound: one heartbeat in flight per session
  /\ beat' = [beat EXCEPT ![tracked] = "sent"]
  /\ UNCHANGED <<ui, modal, client, start, conn, td, media, meter, net, server, history>>

\* The server answers: alive, which leaves nothing to do, while the session is
\* booked and budget is left; expired otherwise.
HeartbeatServed(c) ==
  /\ Loaded
  /\ beat[c] = "sent"
  /\ beat' = [beat EXCEPT ![c] =
                IF c \in booked /\ ~spent THEN "none" ELSE "expired"]
  /\ UNCHANGED <<ui, modal, client, start, conn, td, media, meter, net, server, history>>

\* The fetch fails, before or after it is served: the next tick retries.
HeartbeatLost(c) ==
  /\ Loaded
  /\ beat[c] # "none"
  /\ beat' = [beat EXCEPT ![c] = "none"]
  /\ UNCHANGED <<ui, modal, client, start, conn, td, media, meter, net, server, history>>

\* json.expired: onLimitReached tears down the current conversation.
HeartbeatExpired(c) ==
  /\ Loaded
  /\ beat[c] = "expired"
  /\ beat' = [beat EXCEPT ![c] = "none"]
  /\ Teardown("limit", NoCall, ui, start, conn)
  /\ cut' = c
  /\ cutStale' = (cutStale \/ c # tracked)
  /\ UNCHANGED <<wire, server, overlapped, pressed>>

SpendBudget ==
  /\ Loaded
  /\ Metered
  /\ ~spent
  /\ spent' = TRUE
  /\ UNCHANGED <<page, net, booked, inLine, reaped>>

\* The server gives up a reservation it has not heard of for too long (the page
\* was suspended or offline), and the load balancer a ticket that is not polled.
Lapse(c) ==
  /\ c \in booked \union inLine
  /\ booked' = booked \ {c}
  /\ inLine' = inLine \ {c}
  /\ reaped' = reaped \union (booked \intersect {c})
  /\ UNCHANGED <<page, net, spent>>

\* The tab is closed: pagehide tells the server, then the browser drops the rest.
PageHide ==
  /\ Loaded
  /\ ui' = "gone"
  /\ modal' = "none"
  /\ client' = NoCall
  /\ Farewell
  /\ timer' = FALSE
  /\ start' = [c \in Calls |-> IF start[c] \in Underway THEN "returned" ELSE start[c]]
  /\ conn' = [c \in Calls |-> IF conn[c] \in InProgress THEN "closed" ELSE conn[c]]
  /\ td' = [k \in Teardowns |-> NoTeardown]
  /\ beat' = [c \in Calls |-> "none"]
  /\ micStream' = NoCall
  /\ micPending' = {}
  /\ capturing' = {}
  /\ UNCHANGED <<wire, server, history>>

----------------------------------------------------------------------------
CallStep(c) ==
  \/ PrimeGranted(c) \/ PrimeDenied(c)
  \/ Granted(c) \/ Queued(c) \/ ReadyToJoin(c)
  \/ AcquireMic(c) \/ AcquireMicLate(c) \/ Connected(c)
  \/ ConnectFails(c)

ServerStep(c) ==
  \/ Grant(c) \/ Enqueue(c) \/ Claim(c)
  \/ ServeEnd(c) \/ ServeLeave(c) \/ Lapse(c)

Next ==
  \/ \E k \in Teardowns : FinishTeardown(k)
  \/ \E c \in Calls :
       \/ TapCircle(c)
       \/ Restart(c)
       \/ CallStep(c)
       \/ ServerStep(c)
       \/ Speaking(c)
       \/ ClientError(c)
       \/ HeartbeatServed(c)
       \/ HeartbeatLost(c)
       \/ HeartbeatExpired(c)
  \/ Join
  \/ Stop
  \/ LeaveQueue
  \/ PageHide
  \/ HeartbeatTick
  \/ SpendBudget

Spec == Init /\ [][Next]_vars

\* The browser and the network answer what the page waits for, be it with a
\* failure, and the interval timer fires; nobody has to press a button or close the
\* tab, and neither farewells nor the sweeper need reach the server.  A heartbeat's
\* fetch comes to an end; it may fail, but not every time (strong fairness).
Fairness ==
  /\ \A k \in Teardowns : WF_vars(FinishTeardown(k))
  /\ \A c \in Calls : WF_vars(CallStep(c))
  /\ WF_vars(HeartbeatTick)
  /\ \A c \in Calls : /\ WF_vars(HeartbeatLost(c))
                       /\ SF_vars(HeartbeatServed(c)) /\ SF_vars(HeartbeatExpired(c))

FairSpec == Spec /\ Fairness

----------------------------------------------------------------------------
\* Properties.

\* Nothing has happened that the page relies on not to, without looking: no press
\* during close(), whose buttons stay enabled (main.js:1738-1745), and no reply
\* about another session (main.js:1638).
Heeded == ~pressed /\ ~cutStale

\* "a connect is already underway" (main.js:1209): while one activation of
\* doStart waits for its prompt or its connect(), no other one does.
OneConnect == \A c, d \in Calls : start[c] \in Underway /\ start[d] \in Underway => c = d

\* What the page shows is what it does: an idle or failed page has no client
\* and no doStart underway, a live one an open connection, and so on.
PageTellsTruth ==
  Heeded /\ NoTeardownPending =>
    /\ ui \in {"idle", "error"} =>
         client = NoCall /\ \A c \in Calls : start[c] \notin Underway
    /\ ui = "connecting" => \E c \in Calls : start[c] \in Underway
    /\ ui = "queued"     => client # NoCall /\ conn[client] = "queued"
    /\ ui = "your-turn"  => client # NoCall /\ conn[client] = "held"
    /\ ui = "live"       => client # NoCall /\ conn[client] = "open"

\* What the page knows nothing of because its answer is still unread, or never
\* will be.
Unheard(answers) == {c \in Calls : wire[c] \in answers}

\* No reservation is forgotten: a session the server meters for this page is the one
\* the page tracks, hence heartbeats and will end; or its end is on the way, or its
\* grant still is (and, if the page left, only the sweeper ends it); or two calls were
\* in progress at once, which share one trackedSessionId (main.js:1548, 1602, 1663).
NoForgottenSession ==
  booked \subseteq {tracked} \union ending \union Unheard({"session", "offer"}) \union overlapped

\* No phantom place in line (main.js:422-423): a ticket the load balancer holds for
\* this page is the one it remembers, with the same three exceptions.
NoPhantomPlace ==
  inLine \subseteq {ticket} \union leaving \union Unheard({"ticket"}) \union overlapped

\* The recording indicator never lights on an idle page or in the queue
\* (main.js:1490-1493), at least until an expired heartbeat cuts a call: that may
\* happen while its microphone is still being acquired.
MicOnlyInCall ==
  Heeded /\ NoTeardownPending /\ ~spent /\ reaped = {} =>
    (ui \in {"idle", "error", "queued", "your-turn", "gone"} => capturing = {})

\* The limit dialog means what it says (main.js:1623-1625, server.py:643-644): the
\* day's budget is spent, or else the server had given up the reservation of the
\* session whose expired reply cut the call.
LimitTellsTruth == modal # "limit" /\ modal' = "limit" => spent \/ cut' \in reaped

LimitMeansSpent == [][LimitTellsTruth]_vars

\* It does as long as nothing happens that the page relies on not to.
LimitMeansSpentIfHeeded == [][Heeded' => LimitTellsTruth]_vars

\* A heartbeat is never sent for a session this page has ended, whatever else is in
\* flight: only for one the server meters, or has given up on its own.
HeartbeatsAreBooked ==
  [][\A c \in Calls : beat[c] = "none" /\ beat'[c] = "sent" => c \in booked \union reaped]_vars

\* A conversation whose start was asked for is settled one way or another: live,
\* in line, or back to a page that can be tapped.
ConnectSettles == ui = "connecting" ~> ui # "connecting"

\* Once the day's budget is spent, or its reservation given up, a metered conversation
\* is cut, even if some heartbeats are lost (main.js:1623-1644), unless something happens
\* that the page relies on not to.
ExpiredCallIsCut ==
  (spent \/ client \in reaped) /\ ui = "live" ~> ui # "live" \/ ~Heeded

----------------------------------------------------------------------------
\* The promise of Conversation, to which clients, teardowns and dialogs are
\* invisible.
StageOf(c) ==
  CASE start[c] \in {"unused", "restarting"} -> "new"
    [] start[c] = "priming" -> "prompting"
    [] start[c] \in {"connecting", "returned"} ->
         CASE conn[c] = "asking"               -> "asking"
           [] conn[c] = "queued"               -> "waiting"
           [] conn[c] = "held"                 -> "offered"
           [] conn[c] \in {"dialing", "dialed"} -> "joining"
           [] conn[c] = "open"                 -> "talking"
           [] OTHER                            -> "over"

PlaceOf(c) ==
  CASE conn[c] = "none"   -> "none"
    [] wire[c] = "posted" -> "asked"
    [] c \in booked       -> "slot"
    [] c \in inLine       -> "line"
    [] OTHER              -> "past"

Promise == INSTANCE Conversation WITH
  stage <- [c \in Calls |-> StageOf(c)],
  place <- [c \in Calls |-> PlaceOf(c)],
  kept  <- {tracked, ticket} \ {NoCall}

\* Every call goes from its prompt to its end in order, each step after the server's
\* side of it; its place comes from its own request, once; and whatever ends a call,
\* the page keeps no place it was told of (main.js:422-423, 1532-1605, 1663-1697).
ConversationSpec == Promise!Spec

============================================================================
