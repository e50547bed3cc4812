--------------------------- MODULE SessionServer ---------------------------
(***************************************************************************)
(* How the page's server (demo/server.py) admits one user to the pool and  *)
(* meters the conversations against the day's budget.                      *)
(*                                                                         *)
(* A visit is one attempt at a conversation, from the POST /api/session to *)
(* the end of the session it may get; the visits are all of one identity   *)
(* (several tabs, or retries), so they share one budget.  The handlers are *)
(* async: they interleave at every await on the load balancer and on the   *)
(* limiter (asyncio.to_thread), they go on when the browser has given up,  *)
(* and they die with the server.  The sweeper runs beside them.            *)
(*                                                                         *)
(* The limiter, the load balancer and the realtime client are not in the   *)
(* repository: they are modelled from the calls server.py makes, the       *)
(* replies it tells apart and what its comments say of them.               *)
(***************************************************************************)
EXTENDS Integers, FiniteSets

CONSTANTS
  Visits,   \* attempts at a conversation
  Metered,  \* those whose tier has a budget ("tracked" in the handlers)
  Budget,   \* the day's budget, in chunks of time
  Slots,    \* compute slots of the load balancer
  QueueMax  \* tickets the load balancer keeps

ASSUME SessionAssumption ==
  /\ IsFiniteSet(Visits)
  /\ Metered \subseteq Visits
  /\ Budget \in Nat /\ Slots \in Nat /\ QueueMax \in Nat

VARIABLES
  page,    \* [Visits -> what the browser page knows of the visit]
  req,     \* [Visits -> where the visit's handler is]
  wire,    \* requests of the page no one waits for: heartbeats and beacons
  line,    \* at the load balancer: visits holding a ticket
  slot,    \* at the load balancer: [Visits -> the slot of the visit's session]
  nameless, \* visits it let in with a reply that has no session_id
  used,    \* at the limiter: chunks charged to the day's budget
  booked,  \* at the limiter: sessions with a live reservation
  stale,   \* at the limiter: those not heard of since the last sweep
  reaped   \* sessions the sweeper ended (history)

balancer == <<line, slot, nameless>>
limiter  == <<used, booked, stale, reaped>>
vars     == <<page, req, wire, balancer, limiter>>

\* "refused": told 402, the budget is spent.
Pages    == {"away", "asking", "waiting", "polling", "granted", "talking", "refused", "over"}
Handlers == {"none", "checking", "asking", "polling", "claimed", "granting", "begun"}
SlotUses == {"none", "pending", "active"}
Messages == {"heartbeat", "end", "leave"} \X Visits

TypeOK ==
  /\ page \in [Visits -> Pages]
  /\ req \in [Visits -> Handlers]
  /\ wire \in SUBSET Messages
  /\ line \in SUBSET Visits
  /\ slot \in [Visits -> SlotUses]
  /\ nameless \in SUBSET Metered
  /\ used \in Nat
  /\ booked \in SUBSET Metered
  /\ stale \in SUBSET booked
  /\ reaped \in SUBSET Metered

Init ==
  /\ page = [v \in Visits |-> "away"]
  /\ req = [v \in Visits |-> "none"]
  /\ wire = {}
  /\ line = {}
  /\ slot = [v \in Visits |-> "none"]
  /\ nameless = {}
  /\ used = 0
  /\ booked = {}
  /\ stale = {}
  /\ reaped = {}

----------------------------------------------------------------------------
\* limiter.remaining(keys, tier) > 0
BudgetLeft == used < Budget

FreeSlot == Cardinality({v \in Visits : slot[v] # "none"}) < Slots

\* The handler of v is done and answers; a page that is gone hears nothing.
Reply(v, answer) ==
  /\ req' = [req EXCEPT ![v] = "none"]
  /\ page' = [page EXCEPT ![v] = IF @ \in {"asking", "polling"} THEN answer ELSE @]

Goto(v, phase) ==
  /\ req' = [req EXCEPT ![v] = phase]
  /\ UNCHANGED page

----------------------------------------------------------------------------
\* POST /api/session

\* A user who must sign in is refused (401); a tier without a budget goes on to
\* the load balancer at once.
Ask(v) ==
  /\ page[v] = "away"
  /\ \/ /\ page' = [page EXCEPT ![v] = "asking"]
        /\ req' = [req EXCEPT ![v] = IF v \in Metered THEN "checking" ELSE "asking"]
     \/ /\ page' = [page EXCEPT ![v] = "over"]
        /\ UNCHANGED req
  /\ UNCHANGED <<wire, balancer, limiter>>

CheckBudget(v) ==
  /\ req[v] = "checking"
  /\ IF BudgetLeft THEN Goto(v, "asking") ELSE Reply(v, "refused")
  /\ UNCHANGED <<wire, balancer, limiter>>

\* The load balancer has a free slot.
LbGrants(v) ==
  /\ req[v] = "asking"
  /\ FreeSlot /\ line = {}
  /\ slot' = [slot EXCEPT ![v] = "pending"]
  /\ Goto(v, "granting")
  /\ UNCHANGED <<wire, line, nameless, limiter>>

\* Mutant: the chunk is reserved as soon as the visit is in line.
LbQueuesAndBegins(v) ==
  /\ req[v] = "asking"
  /\ ~(FreeSlot /\ line = {})
  /\ Cardinality(line) < QueueMax
  /\ line' = line \union {v}
  /\ Reply(v, "waiting")
  /\ used' = used + 1
  /\ booked' = booked \union ({v} \intersect Metered)
  /\ UNCHANGED <<wire, slot, nameless, stale, reaped>>

\* Busy pool: it gives a ticket, which is relayed untouched.
LbQueues(v) ==
  /\ req[v] = "asking"
  /\ ~(FreeSlot /\ line = {})
  /\ Cardinality(line) < QueueMax
  /\ line' = line \union {v}
  /\ Reply(v, "waiting")
  /\ UNCHANGED <<wire, slot, nameless, limiter>>

LbAtCapacity(v) ==
  /\ req[v] = "asking"
  /\ ~(FreeSlot /\ line = {})
  /\ Cardinality(line) >= QueueMax
  /\ Reply(v, "over")
  /\ UNCHANGED <<wire, balancer, limiter>>

\* An error status, or no answer within 15 s of a request it may have served.
LbFails(v) ==
  /\ req[v] = "asking"
  /\ Reply(v, "over")
  /\ \/ UNCHANGED <<line, slot>>
     \/ FreeSlot /\ slot' = [slot EXCEPT ![v] = "pending"] /\ UNCHANGED line
     \/ line' = line \union {v} /\ UNCHANGED slot
  /\ UNCHANGED <<wire, nameless, limiter>>

----------------------------------------------------------------------------
\* GET /api/queue/{queue_id}

\* Bound: one handler at a time serves a visit.
Poll(v) ==
  /\ page[v] = "waiting"
  /\ req[v] = "none"
  /\ \/ /\ page' = [page EXCEPT ![v] = "polling"]
        /\ req' = [req EXCEPT ![v] = "polling"]
     \/ /\ page' = [page EXCEPT ![v] = "over"]   \* sign-in required meanwhile
        /\ UNCHANGED req
  /\ UNCHANGED <<wire, balancer, limiter>>

\* A slot has come free for a ticket: claimed, and the session is pending.
LbClaims(v) ==
  /\ req[v] = "polling"
  /\ v \in line
  /\ FreeSlot
  /\ slot' = [slot EXCEPT ![v] = "pending"]
  /\ line' = line \ {v}
  /\ Goto(v, IF v \in Metered THEN "claimed" ELSE "granting")
  /\ UNCHANGED <<wire, nameless, limiter>>

LbStillQueued(v) ==
  /\ req[v] = "polling"
  /\ v \in line
  /\ Reply(v, "waiting")
  /\ UNCHANGED <<wire, balancer, limiter>>

LbExpired(v) ==
  /\ req[v] = "polling"
  /\ v \notin line
  /\ Reply(v, "over")
  /\ UNCHANGED <<wire, balancer, limiter>>

\* 502 to the page, which polls again or gives up; the claim may have been made.
PollFails(v) ==
  /\ req[v] = "polling"
  /\ \E answer \in {"waiting", "over"} : Reply(v, answer)
  /\ \/ UNCHANGED <<line, slot>>
     \/ /\ v \in line /\ FreeSlot
        /\ slot' = [slot EXCEPT ![v] = "pending"]
        /\ line' = line \ {v}
  /\ UNCHANGED <<wire, nameless, limiter>>

\* The budget again, after the wait: a refusal leaves the claimed slot pending.
RecheckBudget(v) ==
  /\ req[v] = "claimed"
  /\ IF BudgetLeft THEN Goto(v, "granting") ELSE Reply(v, "refused")
  /\ UNCHANGED <<wire, balancer, limiter>>

----------------------------------------------------------------------------
\* _finalize_grant, the tail of both.

\* Mutant: begin() is retried although its first call went through.
BeginRetried(v) ==
  /\ req[v] = "granting"
  /\ v \in Metered
  /\ used' = used + 1
  /\ booked' = booked \union {v}
  /\ stale' = stale \ {v}
  /\ req' \in {req, [req EXCEPT ![v] = "begun"]}
  /\ UNCHANGED <<page, wire, balancer, reaped>>

Begin(v) ==
  /\ req[v] = "granting"
  /\ v \in Metered
  /\ used' = used + 1
  /\ booked' = booked \union {v}
  /\ stale' = stale \ {v}
  /\ Goto(v, "begun")
  /\ UNCHANGED <<wire, balancer, reaped>>

\* Mutant: a claim from the queue is granted without a reservation.
GrantWithoutBegin(v) ==
  /\ req[v] \in {"begun", "granting"}
  /\ Reply(v, "granted")
  /\ UNCHANGED <<wire, balancer, limiter>>

Grant(v) ==
  /\ req[v] = IF v \in Metered THEN "begun" ELSE "granting"
  /\ Reply(v, "granted")
  /\ UNCHANGED <<wire, balancer, limiter>>

\* A reply of the load balancer without a session_id: nothing to reserve for, and
\* it is granted all the same.
GrantNameless(v) ==
  /\ req[v] = "granting"
  /\ v \in Metered
  /\ nameless' = nameless \union {v}
  /\ Reply(v, "granted")
  /\ UNCHANGED <<wire, line, slot, limiter>>

----------------------------------------------------------------------------
\* The session, from the page.

\* The websocket is dialled before the pending session is reaped.
Dial(v) ==
  /\ page[v] = "granted"
  /\ slot[v] = "pending"
  /\ slot' = [slot EXCEPT ![v] = "active"]
  /\ page' = [page EXCEPT ![v] = "talking"]
  /\ UNCHANGED <<req, wire, line, nameless, limiter>>

\* The page meters a session it knows by its id.
SendHeartbeat(v) ==
  /\ page[v] = "talking"
  /\ v \in Metered \ nameless
  /\ wire' = wire \union {<<"heartbeat", v>>}
  /\ UNCHANGED <<page, req, balancer, limiter>>

\* What the page tells the server when it goes: the session or ticket it knows.
Farewell(v) ==
  CASE page[v] \in {"granted", "talking"} /\ v \in Metered \ nameless -> {<<"end", v>>}
    [] page[v] \in {"waiting", "polling"}                  -> {<<"leave", v>>}
    [] OTHER                                               -> {}

\* Stop, leave, a failed dial, a closed tab.
Leave(v) ==
  /\ page[v] \in {"asking", "waiting", "polling", "granted", "talking"}
  /\ page' = [page EXCEPT ![v] = "over"]
  /\ wire' = wire \union Farewell(v)
  /\ UNCHANGED <<req, balancer, limiter>>

\* The page's poll gets no answer, while its handler goes on.
PollLost(v) ==
  /\ page[v] = "polling"
  /\ page' = [page EXCEPT ![v] = "waiting"]
  /\ UNCHANGED <<req, wire, balancer, limiter>>

----------------------------------------------------------------------------
\* POST /api/session/heartbeat, /api/session/end, DELETE /api/queue, /api/queue/end

\* limiter.heartbeat: one more chunk, for a live reservation and budget left.
Extended(v) == v \in booked /\ BudgetLeft

\* Mutant: a heartbeat keeps the reservation alive but charges nothing for it.
ServeHeartbeatFree(v) ==
  /\ <<"heartbeat", v>> \in wire
  /\ IF Extended(v)
     THEN /\ stale' = stale \ {v}
          /\ wire' = wire \ {<<"heartbeat", v>>}
          /\ UNCHANGED page
     ELSE /\ \/ /\ page[v] = "talking"
                /\ page' = [page EXCEPT ![v] = "over"]
                /\ wire' = (wire \ {<<"heartbeat", v>>}) \union {<<"end", v>>}
             \/ wire' = wire \ {<<"heartbeat", v>>} /\ UNCHANGED page
          /\ UNCHANGED stale
  /\ UNCHANGED <<req, balancer, used, booked, reaped>>

\* The reply of a spent budget ends the conversation, unless it gets lost.
ServeHeartbeat(v) ==
  /\ <<"heartbeat", v>> \in wire
  /\ IF Extended(v)
     THEN /\ used' = used + 1
          /\ stale' = stale \ {v}
          /\ wire' = wire \ {<<"heartbeat", v>>}
          /\ UNCHANGED <<page, booked>>
     ELSE /\ \/ /\ page[v] = "talking"
                /\ page' = [page EXCEPT ![v] = "over"]
                /\ wire' = (wire \ {<<"heartbeat", v>>}) \union {<<"end", v>>}
             \/ wire' = wire \ {<<"heartbeat", v>>} /\ UNCHANGED page
          /\ UNCHANGED <<used, booked, stale>>
  /\ UNCHANGED <<req, balancer, reaped>>

\* limiter.end and limiter.sweep give up the reservations of S; a chunk that
\* was not used is refunded.
Settle(S) ==
  /\ booked' = booked \ S
  /\ \E refunds \in 0..Cardinality(S) : used' = used - refunds

\* Mutant: a chunk is refunded even to a session that has none.
ServeEndTwice(v) ==
  /\ <<"end", v>> \in wire
  /\ wire' = wire \ {<<"end", v>>}
  /\ booked' = booked \ {v}
  /\ used' \in {used, used - 1}
  /\ stale' = stale \ {v}
  /\ UNCHANGED <<page, req, balancer, reaped>>

ServeEnd(v) ==
  /\ <<"end", v>> \in wire
  /\ wire' = wire \ {<<"end", v>>}
  /\ Settle({v} \intersect booked)
  /\ stale' = stale \ {v}
  /\ UNCHANGED <<page, req, balancer, reaped>>

ServeLeave(v) ==
  /\ <<"leave", v>> \in wire
  /\ wire' = wire \ {<<"leave", v>>}
  /\ line' = line \ {v}
  /\ UNCHANGED <<page, req, slot, nameless, limiter>>

Lose(m) ==
  /\ m \in wire
  /\ wire' = wire \ {m}
  /\ UNCHANGED <<page, req, balancer, limiter>>

----------------------------------------------------------------------------
\* Mutant: the sweeper takes everything for alive.
SweepNothing ==
  /\ booked # {}
  /\ Settle(stale)
  /\ stale' = {}
  /\ reaped' = reaped \union stale
  /\ UNCHANGED <<page, req, wire, balancer>>

\* The sweeper: what the last sweep found and nobody spoke for since is ended.
Sweep ==
  /\ booked # {}
  /\ Settle(stale)
  /\ stale' = booked'
  /\ reaped' = reaped \union stale
  /\ UNCHANGED <<page, req, wire, balancer>>

\* The server restarts: its handlers are gone, the usage database is not.
Restart ==
  /\ req' = [v \in Visits |-> "none"]
  /\ page' = [v \in Visits |->
                IF req[v] = "none" THEN page[v]
                ELSE IF page[v] = "asking" THEN "over"
                ELSE IF page[v] = "polling" THEN "waiting"
                ELSE page[v]]
  /\ UNCHANGED <<wire, balancer, limiter>>

\* The load balancer reaps a session nobody dialled, frees the slot of a closed
\* connection, and drops a ticket that is not polled.
FreesSlot(v) ==
  /\ \/ slot[v] = "pending"
     \/ slot[v] = "active" /\ page[v] # "talking"
  /\ slot' = [slot EXCEPT ![v] = "none"]
  /\ UNCHANGED <<page, req, wire, line, nameless, limiter>>

DropsTicket(v) ==
  /\ v \in line
  /\ page[v] # "polling"
  /\ line' = line \ {v}
  /\ UNCHANGED <<page, req, wire, slot, nameless, limiter>>

----------------------------------------------------------------------------
Handler(v) ==
  \/ CheckBudget(v)
  \/ LbGrants(v)
  \/ LbQueues(v)
  \/ LbAtCapacity(v)
  \/ LbFails(v)
  \/ LbClaims(v)
  \/ LbStillQueued(v)
  \/ LbExpired(v)
  \/ PollFails(v)
  \/ RecheckBudget(v)
  \/ Begin(v)
  \/ Grant(v)
  \/ GrantNameless(v)

Page(v) ==
  \/ Ask(v)
  \/ Poll(v)
  \/ PollLost(v)
  \/ Dial(v)
  \/ SendHeartbeat(v)
  \/ Leave(v)

Next ==
  \/ \E v \in Visits :
       \/ Handler(v)
       \/ Page(v)
       \/ ServeHeartbeat(v)
       \/ ServeEnd(v)
       \/ ServeLeave(v)
       \/ FreesSlot(v)
       \/ DropsTicket(v)
  \/ \E m \in wire : Lose(m)
  \/ Sweep
  \/ Restart

Spec == Init /\ [][Next]_vars

\* Tasks of the event loop run, the sweeper's timer fires, and the load balancer
\* reaps.  Pages promise nothing: they may leave without a word.
FairSpec ==
  /\ Spec
  /\ \A v \in Visits : WF_vars(Handler(v)) /\ WF_vars(FreesSlot(v)) /\ WF_vars(DropsTicket(v))
  /\ WF_vars(Sweep)

\* Pages that poll, dial or give up, and send heartbeats, over a network and to
\* a server that may fail any time but not every time.
LivePages ==
  \A v \in Visits :
    /\ WF_vars(Poll(v)) /\ WF_vars(SendHeartbeat(v))
    /\ WF_vars(Dial(v) \/ (page[v] = "granted" /\ Leave(v)))
    /\ SF_vars(LbClaims(v)) /\ SF_vars(LbExpired(v) /\ page'[v] = "over")
    /\ SF_vars(ServeHeartbeat(v))
    /\ SF_vars(ServeHeartbeat(v) /\ page'[v] = "over")

LiveSpec == FairSpec /\ LivePages

----------------------------------------------------------------------------
\* Properties.

\* "waiting in line never costs the day's budget" (server.py:437): a visit that
\* holds a ticket has no reservation.
WaitingIsFree == line \intersect booked = {}

\* No free rides: a session granted to a metered visit has its reservation, unless
\* the sweeper has taken it for dead or the load balancer gave it no id, without
\* which the server reserves nothing and the page sends no heartbeat
\* (server.py:587-589, main.js:1599).
GrantIsMetered ==
  \A v \in Metered :
    page[v] \in {"granted", "talking"} => v \in booked \union reaped \union nameless

\* A visit refused for its budget is charged nothing and is not in line
\* (server.py:386-394, 546-557).
RefusalCostsNothing == \A v \in Visits : page[v] = "refused" => v \notin booked \union line

\* The budget is checked, then spent by begin() after an await.  Visits racing
\* through that window overspend it, each by no more than its first chunk
\* (server.py:387, 550, 588).
OverspendBounded == Metered # {} => used < Budget + Cardinality(Metered)

\* A reservation nobody holds any more is given up in the end: the reply with
\* its grant was lost, the tab vanished, the server restarted (server.py:188-203).
ReservationsSettle ==
  \A v \in Metered :
    v \in booked /\ page[v] \notin {"asking", "polling", "granted", "talking"}
      ~> v \notin booked

\* The line moves: a visit of a metered user in line gets its session, or is told
\* that it does not, because every conversation before it is cut when the budget
\* runs out, whatever requests are lost and however often the server restarts
\* (server.py:502-559, 641-649); one without an id is not.
LineMoves ==
  \A v \in Visits :
    page[v] \in {"waiting", "polling"}
      ~> page[v] \notin {"waiting", "polling"} \/ \E u \in nameless : page[u] = "talking"

============================================================================
