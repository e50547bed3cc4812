------------------------ MODULE SessionServerProofs ------------------------
(***************************************************************************)
(* Theorems about SessionServer, for any set of visits, any budget and any *)
(* load balancer.  Charged says that a live reservation has its first      *)
(* chunk; InOrder says where a visit is at the load balancer and at the    *)
(* limiter at each point of its handler and of its page; InBudget counts   *)
(* the handlers between the check of the budget and begin().               *)
(***************************************************************************)
EXTENDS SessionServer, FiniteSetTheorems, TLAPS

Charged == Cardinality(booked) <= used

LEMMA FiniteReservations ==
  ASSUME TypeOK
  PROVE  /\ IsFiniteSet(Metered) /\ Cardinality(Metered) \in Nat
         /\ IsFiniteSet(booked) /\ Cardinality(booked) \in Nat
<1>1. IsFiniteSet(Metered)
  BY SessionAssumption, FS_Subset
<1>2. IsFiniteSet(booked)
  BY <1>1, FS_Subset DEF TypeOK
<1> QED
  BY <1>1, <1>2, FS_CardinalityType

\* Reservations are given up with no more refunds than chunks charged.
LEMMA SettleKeepsCharges ==
  ASSUME TypeOK, Charged, NEW S \in SUBSET booked, Settle(S)
  PROVE  used' \in Nat /\ used' <= used /\ booked' \subseteq booked /\ Charged'
<1>1. PICK refunds \in 0..Cardinality(S) : used' = used - refunds
  BY DEF Settle
<1>2. /\ IsFiniteSet(S) /\ Cardinality(S) \in Nat
      /\ Cardinality(booked \ S) = Cardinality(booked) - Cardinality(S)
      /\ Cardinality(booked) \in Nat
      /\ Cardinality(booked \ S) \in Nat
  <2>1. IsFiniteSet(S) /\ booked \intersect S = S
    BY FiniteReservations, FS_Subset
  <2> QED
    BY <2>1, FiniteReservations, FS_Difference, FS_CardinalityType
<1>3. booked' = booked \ S
  BY DEF Settle
<1> QED
  BY <1>1, <1>2, <1>3 DEF Charged, TypeOK

LEMMA InitTypes == Init => TypeOK /\ Charged
  BY FS_EmptySet DEF Init, TypeOK, Charged, Pages, Handlers, SlotUses, Messages

\* What a step of the handler does to the variables' types.
LEMMA ReplyGoto ==
  ASSUME TypeOK, NEW v \in Visits
  PROVE  /\ \A answer \in Pages : Reply(v, answer) =>
              page' \in [Visits -> Pages] /\ req' \in [Visits -> Handlers]
         /\ \A phase \in Handlers : Goto(v, phase) =>
              page' \in [Visits -> Pages] /\ req' \in [Visits -> Handlers]
  BY DEF TypeOK, Reply, Goto, Pages, Handlers

LEMMA StepTypes == TypeOK /\ Charged /\ [Next]_vars => TypeOK' /\ Charged'
<1> SUFFICES ASSUME TypeOK, Charged, [Next]_vars PROVE TypeOK' /\ Charged'
  OBVIOUS
<1> DEFINE Goal == TypeOK' /\ Charged'
<1>p. /\ {"away", "asking", "waiting", "polling", "granted", "talking", "refused", "over"} \subseteq Pages
      /\ {"none", "checking", "asking", "polling", "claimed", "granting", "begun"} \subseteq Handlers
  BY DEF Pages, Handlers
<1>b. UNCHANGED booked /\ UNCHANGED used => Charged'
  BY DEF Charged
<1>1. ASSUME NEW v \in Visits, Handler(v) PROVE Goal
  <2>1. CASE CheckBudget(v)
    BY <1>p, <1>b, <2>1, ReplyGoto DEF CheckBudget, TypeOK, balancer, limiter
  <2>2. CASE LbGrants(v)
    BY <1>p, <1>b, <2>2, ReplyGoto DEF LbGrants, TypeOK, limiter, SlotUses
  <2>3. CASE LbQueues(v)
    BY <1>p, <1>b, <2>3, ReplyGoto DEF LbQueues, TypeOK, limiter
  <2>4. CASE LbAtCapacity(v)
    BY <1>p, <1>b, <2>4, ReplyGoto DEF LbAtCapacity, TypeOK, balancer, limiter
  <2>5. CASE LbFails(v)
    BY <1>p, <1>b, <2>5, ReplyGoto DEF LbFails, TypeOK, balancer, limiter, SlotUses
  <2>6. CASE LbClaims(v)
    BY <1>p, <1>b, <2>6, ReplyGoto DEF LbClaims, TypeOK, limiter, SlotUses
  <2>7. CASE LbStillQueued(v)
    BY <1>p, <1>b, <2>7, ReplyGoto DEF LbStillQueued, TypeOK, balancer, limiter
  <2>8. CASE LbExpired(v)
    BY <1>p, <1>b, <2>8, ReplyGoto DEF LbExpired, TypeOK, balancer, limiter
  <2>9. CASE PollFails(v)
    BY <1>p, <1>b, <2>9, ReplyGoto DEF PollFails, TypeOK, balancer, limiter, SlotUses
  <2>10. CASE RecheckBudget(v)
    BY <1>p, <1>b, <2>10, ReplyGoto DEF RecheckBudget, TypeOK, balancer, limiter
  <2>11. CASE Begin(v)
    <3>1. TypeOK'
      BY <1>p, <2>11, ReplyGoto DEF Begin, TypeOK, balancer
    <3>2. Charged'
      <4>1. Cardinality(booked \union {v}) <= Cardinality(booked) + 1
        BY FiniteReservations, FS_AddElement
      <4>2. Cardinality(booked \union {v}) \in Nat /\ Cardinality(booked) \in Nat
        BY FiniteReservations, FS_AddElement, FS_CardinalityType
      <4> QED
        BY <2>11, <4>1, <4>2 DEF Begin, Charged, TypeOK
    <3> QED
      BY <3>1, <3>2
  <2>12. CASE Grant(v)
    BY <1>p, <1>b, <2>12, ReplyGoto DEF Grant, TypeOK, balancer, limiter
  <2>13. CASE GrantNameless(v)
    BY <1>p, <1>b, <2>13, ReplyGoto DEF GrantNameless, TypeOK, limiter
  <2> QED
    BY <1>1, <2>1, <2>2, <2>3, <2>4, <2>5, <2>6, <2>7, <2>8, <2>9, <2>10, <2>11, <2>12, <2>13
       DEF Handler
<1>2. ASSUME NEW v \in Visits, Page(v) PROVE Goal
  <2>1. CASE Ask(v)
    BY <1>b, <2>1 DEF Ask, TypeOK, balancer, limiter, Pages, Handlers
  <2>2. CASE Poll(v)
    BY <1>b, <2>2 DEF Poll, TypeOK, balancer, limiter, Pages, Handlers
  <2>3. CASE PollLost(v)
    BY <1>b, <2>3 DEF PollLost, TypeOK, balancer, limiter, Pages
  <2>4. CASE Dial(v)
    BY <1>b, <2>4 DEF Dial, TypeOK, limiter, Pages, SlotUses
  <2>5. CASE SendHeartbeat(v)
    BY <1>b, <2>5 DEF SendHeartbeat, TypeOK, balancer, limiter, Messages
  <2>6. CASE Leave(v)
    BY <1>b, <2>6 DEF Leave, TypeOK, balancer, limiter, Pages, Messages, Farewell
  <2> QED
    BY <1>2, <2>1, <2>2, <2>3, <2>4, <2>5, <2>6 DEF Page
<1>3. ASSUME NEW v \in Visits, ServeHeartbeat(v) PROVE Goal
  <2>1. CASE Extended(v)
    <3>1. used' = used + 1 /\ UNCHANGED <<page, req, line, slot, nameless, booked, reaped>>
      BY <1>3, <2>1 DEF ServeHeartbeat, balancer
    <3>2. stale' \subseteq stale /\ wire' \subseteq wire
      BY <1>3, <2>1 DEF ServeHeartbeat
    <3> QED
      BY <3>1, <3>2, FiniteReservations DEF TypeOK, Charged
  <2>2. CASE ~Extended(v)
    BY <1>3, <1>b, <2>2 DEF ServeHeartbeat, TypeOK, balancer, Pages, Messages
  <2> QED
    BY <2>1, <2>2
<1>4. ASSUME NEW v \in Visits, ServeEnd(v) PROVE Goal
  <2>1. Settle({v} \intersect booked)
    BY <1>4 DEF ServeEnd
  <2>2. used' \in Nat /\ booked' \subseteq booked /\ Charged'
    BY <2>1, SettleKeepsCharges
  <2>3. stale' \subseteq booked'
    BY <1>4, <2>1 DEF ServeEnd, Settle, TypeOK
  <2> QED
    BY <1>4, <2>2, <2>3 DEF ServeEnd, TypeOK, balancer
<1>5. ASSUME NEW v \in Visits, ServeLeave(v) PROVE Goal
  BY <1>5, <1>b DEF ServeLeave, TypeOK, limiter
<1>6. ASSUME NEW v \in Visits, FreesSlot(v) PROVE Goal
  BY <1>6, <1>b DEF FreesSlot, TypeOK, limiter, SlotUses
<1>7. ASSUME NEW v \in Visits, DropsTicket(v) PROVE Goal
  BY <1>7, <1>b DEF DropsTicket, TypeOK, limiter
<1>8. ASSUME NEW m \in wire, Lose(m) PROVE Goal
  BY <1>8, <1>b DEF Lose, TypeOK, balancer, limiter
<1>9. CASE Sweep
  <2>1. used' \in Nat /\ booked' \subseteq booked /\ Charged'
    BY <1>9, SettleKeepsCharges DEF Sweep, TypeOK
  <2> QED
    BY <1>9, <2>1 DEF Sweep, TypeOK, balancer
<1>10. CASE Restart
  BY <1>10, <1>b DEF Restart, TypeOK, balancer, limiter, Pages, Handlers
<1>11. CASE UNCHANGED vars
  BY <1>11, <1>b DEF vars, balancer, limiter, TypeOK
<1> QED
  BY <1>1, <1>2, <1>3, <1>4, <1>5, <1>6, <1>7, <1>8, <1>9, <1>10, <1>11 DEF Next

\* The variables keep their types: in particular the limiter never refunds more
\* than it charged, however ends, sweeps and heartbeats race (server.py:641-661).
THEOREM TypeCorrect == Spec => []TypeOK
<1>1. Spec => [](TypeOK /\ Charged)
  BY InitTypes, StepTypes, PTL DEF Spec
<1> QED
  BY <1>1, PTL

----------------------------------------------------------------------------
\* Where a visit is at the load balancer and at the limiter.
InOrder ==
  /\ \A v \in Visits : page[v] = "away" => req[v] = "none" /\ v \notin booked \union line
  /\ \A v \in Visits : req[v] \in {"checking", "asking", "claimed", "granting"} =>
       v \notin booked \union line
  /\ \A v \in Visits : req[v] \in {"checking", "claimed", "begun"} => v \in Metered
  /\ \A v \in Visits : req[v] = "begun" => v \in booked \union reaped /\ v \notin line
  /\ \A v \in Visits : page[v] \in {"granted", "talking", "refused"} => req[v] = "none"
  /\ \A v \in Visits : <<"end", v>> \in wire => page[v] = "over" /\ req[v] = "none"

Sound == TypeOK /\ Charged /\ WaitingIsFree /\ GrantIsMetered /\ RefusalCostsNothing /\ InOrder

LEMMA InitSound == Init => Sound
<1> SUFFICES ASSUME Init PROVE Sound
  OBVIOUS
<1>1. WaitingIsFree /\ GrantIsMetered /\ RefusalCostsNothing /\ InOrder
  BY SessionAssumption DEF Init, WaitingIsFree, GrantIsMetered, RefusalCostsNothing, InOrder
<1> QED
  BY <1>1, InitTypes DEF Sound

LEMMA StepSound == Sound /\ [Next]_vars => Sound'
<1> SUFFICES ASSUME Sound, [Next]_vars
             PROVE  (WaitingIsFree /\ GrantIsMetered /\ RefusalCostsNothing /\ InOrder)'
  BY StepTypes DEF Sound
<1> DEFINE Goal == (WaitingIsFree /\ GrantIsMetered /\ RefusalCostsNothing /\ InOrder)'
<1> USE SessionAssumption DEF Sound, TypeOK, WaitingIsFree, GrantIsMetered, RefusalCostsNothing, InOrder
<1>1. ASSUME NEW v \in Visits, Handler(v) PROVE Goal
  <2>1. CASE CheckBudget(v)
    BY <2>1 DEF CheckBudget, Reply, Goto, balancer, limiter
  <2>2. CASE LbGrants(v)
    BY <2>2 DEF LbGrants, Goto, limiter
  <2>3. CASE LbQueues(v)
    BY <2>3 DEF LbQueues, Reply, limiter
  <2>4. CASE LbAtCapacity(v)
    BY <2>4 DEF LbAtCapacity, Reply, balancer, limiter
  <2>5. CASE LbFails(v)
    BY <2>5 DEF LbFails, Reply, balancer, limiter
  <2>6. CASE LbClaims(v)
    BY <2>6 DEF LbClaims, Goto, limiter
  <2>7. CASE LbStillQueued(v)
    BY <2>7 DEF LbStillQueued, Reply, balancer, limiter
  <2>8. CASE LbExpired(v)
    BY <2>8 DEF LbExpired, Reply, balancer, limiter
  <2>9. CASE PollFails(v)
    BY <2>9 DEF PollFails, Reply, balancer, limiter
  <2>10. CASE RecheckBudget(v)
    BY <2>10 DEF RecheckBudget, Reply, Goto, balancer, limiter
  <2>11. CASE Begin(v)
    BY <2>11 DEF Begin, Goto, balancer
  <2>12. CASE Grant(v)
    BY <2>12 DEF Grant, Reply, balancer, limiter
  <2>13. CASE GrantNameless(v)
    BY <2>13 DEF GrantNameless, Reply, limiter
  <2> QED
    BY <1>1, <2>1, <2>2, <2>3, <2>4, <2>5, <2>6, <2>7, <2>8, <2>9, <2>10, <2>11, <2>12, <2>13
       DEF Handler
<1>2. ASSUME NEW v \in Visits, Page(v) PROVE Goal
  <2>1. CASE Ask(v)
    BY <2>1 DEF Ask, balancer, limiter
  <2>2. CASE Poll(v)
    BY <2>2 DEF Poll, balancer, limiter
  <2>3. CASE PollLost(v)
    BY <2>3 DEF PollLost, balancer, limiter
  <2>4. CASE Dial(v)
    BY <2>4 DEF Dial, limiter
  <2>5. CASE SendHeartbeat(v)
    BY <2>5 DEF SendHeartbeat, balancer, limiter
  <2>6. CASE Leave(v)
    BY <2>6 DEF Leave, Farewell, balancer, limiter
  <2> QED
    BY <1>2, <2>1, <2>2, <2>3, <2>4, <2>5, <2>6 DEF Page
<1>3. ASSUME NEW v \in Visits, ServeHeartbeat(v) PROVE Goal
  BY <1>3 DEF ServeHeartbeat, balancer
<1>4. ASSUME NEW v \in Visits, ServeEnd(v) PROVE Goal
  BY <1>4 DEF ServeEnd, Settle, balancer
<1>5. ASSUME NEW v \in Visits, ServeLeave(v) PROVE Goal
  BY <1>5 DEF ServeLeave, limiter
<1>6. ASSUME NEW v \in Visits, FreesSlot(v) PROVE Goal
  BY <1>6 DEF FreesSlot, limiter
<1>7. ASSUME NEW v \in Visits, DropsTicket(v) PROVE Goal
  BY <1>7 DEF DropsTicket, limiter
<1>8. ASSUME NEW m \in wire, Lose(m) PROVE Goal
  BY <1>8 DEF Lose, balancer, limiter
<1>9. CASE Sweep
  BY <1>9 DEF Sweep, Settle, balancer
<1>10. CASE Restart
  BY <1>10 DEF Restart, balancer, limiter
<1>11. CASE UNCHANGED vars
  BY <1>11 DEF vars, balancer, limiter
<1> QED
  BY <1>1, <1>2, <1>3, <1>4, <1>5, <1>6, <1>7, <1>8, <1>9, <1>10, <1>11 DEF Next

LEMMA AlwaysSound == Spec => []Sound
<1>1. Init => Sound
  BY InitSound
<1>2. Sound /\ [Next]_vars => Sound'
  BY StepSound
<1> QED
  BY <1>1, <1>2, PTL DEF Spec

\* Waiting in line costs nothing: no interleaving of polls, claims, lost replies,
\* restarts and late beacons reserves budget for a ticket (server.py:437).
THEOREM WaitingCostsNothing == Spec => []WaitingIsFree
<1>1. Sound => WaitingIsFree
  BY DEF Sound
<1> QED
  BY <1>1, AlwaysSound, PTL

\* No metered conversation without a reservation, short of the sweeper's, but for those
\* that the load balancer lets in without an id (server.py:583-600).
THEOREM GrantsAreMetered == Spec => []GrantIsMetered
<1>1. Sound => GrantIsMetered
  BY DEF Sound
<1> QED
  BY <1>1, AlwaysSound, PTL

\* Whoever is told that the budget is spent was charged nothing for the try
\* (server.py:386-394, 546-557).
THEOREM RefusalsCostNothing == Spec => []RefusalCostsNothing
<1>1. Sound => RefusalCostsNothing
  BY DEF Sound
<1> QED
  BY <1>1, AlwaysSound, PTL

----------------------------------------------------------------------------
\* Metered handlers past their check of the budget and not yet at begin().
Passed == {v \in Metered : req[v] \in {"asking", "granting"}}

InBudget == Metered # {} => used + Cardinality(Passed) < Budget + Cardinality(Metered)

\* What the handlers past their check may still charge only grows at a check,
\* and there the budget is not spent.
LEMMA PassedBound ==
  ASSUME NEW S \in SUBSET Metered
  PROVE  /\ IsFiniteSet(S) /\ Cardinality(S) \in Nat
         /\ Cardinality(S) <= Cardinality(Metered)
         /\ \A v \in Metered : v \notin S => Cardinality(S) + 1 <= Cardinality(Metered)
         /\ \A T \in SUBSET S : Cardinality(T) \in Nat /\ Cardinality(T) <= Cardinality(S)
         /\ \A v \in S : Cardinality(S \ {v}) = Cardinality(S) - 1
<1>1. IsFiniteSet(Metered)
  BY SessionAssumption, FS_Subset
<1>2. IsFiniteSet(S) /\ Cardinality(S) \in Nat /\ Cardinality(S) <= Cardinality(Metered)
  BY <1>1, FS_Subset, FS_CardinalityType
<1>3. ASSUME NEW v \in Metered, v \notin S PROVE Cardinality(S) + 1 <= Cardinality(Metered)
  <2>1. Cardinality(S \union {v}) = Cardinality(S) + 1
    BY <1>2, <1>3, FS_AddElement
  <2>2. S \union {v} \subseteq Metered
    OBVIOUS
  <2> QED
    BY <1>1, <2>1, <2>2, FS_Subset
<1>4. \A T \in SUBSET S : Cardinality(T) \in Nat /\ Cardinality(T) <= Cardinality(S)
  BY <1>2, FS_Subset, FS_CardinalityType
<1>5. \A v \in S : Cardinality(S \ {v}) = Cardinality(S) - 1
  BY <1>2, FS_RemoveElement
<1> QED
  BY <1>2, <1>3, <1>4, <1>5

LEMMA StepInBudget == Sound /\ InBudget /\ [Next]_vars => InBudget'
<1> SUFFICES ASSUME Sound, InBudget, [Next]_vars, Metered # {} PROVE InBudget'
  BY DEF InBudget
<1> DEFINE M == Cardinality(Metered)
           P == Cardinality(Passed)
<1> USE SessionAssumption
<1>0. TypeOK /\ TypeOK' /\ Passed \in SUBSET Metered /\ Passed' \in SUBSET Metered
  BY StepTypes DEF Sound, Passed
<1>n. P \in Nat /\ P' \in Nat /\ P <= M /\ P' <= M /\ M \in Nat /\ used \in Nat /\ used' \in Nat
  BY <1>0, PassedBound, FiniteReservations DEF TypeOK
<1>g. used + P < Budget + M
  BY DEF InBudget
\* Neither the charges nor the handlers past the check increase.
<1>a. ASSUME used' <= used, Passed' \subseteq Passed PROVE InBudget'
  <2>1. P' <= P
    BY <1>a, <1>0, PassedBound
  <2> QED
    BY <1>a, <1>n, <1>g, <2>1 DEF InBudget
\* The budget is not spent.
<1>b. ASSUME used' = used, BudgetLeft PROVE InBudget'
  BY <1>b, <1>n DEF InBudget, BudgetLeft
<1>1. ASSUME NEW v \in Visits, Handler(v) PROVE InBudget'
  <2>u. ~Begin(v) => used' = used
    BY <1>1 DEF Handler, CheckBudget, LbGrants, LbQueues, LbAtCapacity, LbFails, LbClaims,
       LbStillQueued, LbExpired, PollFails, RecheckBudget, Grant, GrantNameless, limiter
  <2>1. CASE CheckBudget(v) \/ RecheckBudget(v)
    <3>1. used' = used
      BY <2>1 DEF CheckBudget, RecheckBudget, limiter
    <3>2. CASE BudgetLeft
      BY <3>1, <3>2, <1>b
    <3>3. CASE ~BudgetLeft
      BY <2>1, <3>1, <3>3, <1>0, <1>n, <1>a
         DEF CheckBudget, RecheckBudget, Reply, Passed, TypeOK
    <3> QED
      BY <3>2, <3>3
  <2>2. CASE Begin(v)
    <3>1. v \in Passed /\ used' = used + 1
      BY <2>2 DEF Begin, Passed
    <3>2. Passed' = Passed \ {v}
      BY <2>2, <1>0 DEF Begin, Goto, Passed, TypeOK
    <3>3. P' = P - 1
      BY <3>1, <3>2, <1>0, PassedBound
    <3> QED
      BY <3>1, <3>3, <1>n, <1>g DEF InBudget
  <2>3. CASE LbGrants(v) \/ LbClaims(v)
    <3>1. Passed' \subseteq Passed
      BY <2>3, <1>0 DEF LbGrants, LbClaims, Goto, Passed, TypeOK
    <3> QED
      BY <2>3, <3>1, <1>n, <1>a DEF LbGrants, LbClaims, limiter
  <2>4. CASE \E answer \in Pages : Reply(v, answer) /\ used' = used
    <3>1. Passed' \subseteq Passed
      BY <2>4, <1>0 DEF Reply, Passed, TypeOK
    <3> QED
      BY <2>4, <3>1, <1>n, <1>a
  <2>5. ~(CheckBudget(v) \/ RecheckBudget(v) \/ Begin(v) \/ LbGrants(v) \/ LbClaims(v))
          => \E answer \in {"waiting", "over", "granted"} : Reply(v, answer)
    BY <1>1 DEF Handler, LbQueues, LbAtCapacity, LbFails, LbStillQueued, LbExpired, PollFails, Grant,
       GrantNameless
  <2> QED
    BY <2>u, <2>1, <2>2, <2>3, <2>4, <2>5 DEF Pages
<1>2. ASSUME NEW v \in Visits, Page(v) PROVE InBudget'
  <2>1. used' = used
    BY <1>2 DEF Page, Ask, Poll, PollLost, Dial, SendHeartbeat, Leave, limiter
  <2>2. Passed' \subseteq Passed
    BY <1>2, <1>0 DEF Page, Ask, Poll, PollLost, Dial, SendHeartbeat, Leave, Passed, TypeOK
  <2> QED
    BY <2>1, <2>2, <1>n, <1>a
<1>3. ASSUME NEW v \in Visits, ServeHeartbeat(v) PROVE InBudget'
  <2>0. Passed' = Passed
    BY <1>3 DEF ServeHeartbeat, Passed
  <2>1. CASE Extended(v)
    <3>1. used' = used + 1 /\ used < Budget /\ v \in Metered /\ v \notin Passed
      BY <1>0, <1>3, <2>1 DEF ServeHeartbeat, Extended, BudgetLeft, Passed, Sound, InOrder, TypeOK
    <3>2. P + 1 <= M
      BY <1>0, <3>1, PassedBound
    <3>3. P' = P
      BY <2>0
    <3> QED
      BY <3>1, <3>2, <3>3, <1>n DEF InBudget
  <2>2. CASE ~Extended(v)
    BY <1>3, <2>0, <2>2, <1>n, <1>a DEF ServeHeartbeat
  <2> QED
    BY <2>1, <2>2
<1>4. CASE Sweep \/ \E v \in Visits : ServeEnd(v)
  <2>1. Passed' = Passed
    BY <1>4 DEF Sweep, ServeEnd, Passed
  <2>2. \E S \in SUBSET booked : Settle(S)
    BY <1>4, <1>0 DEF Sweep, ServeEnd, TypeOK
  <2>3. used' <= used
    BY <1>0, <2>2, SettleKeepsCharges DEF Sound
  <2> QED
    BY <2>1, <2>3, <1>a
<1>5. CASE Restart
  <2>1. Passed' = {} /\ used' = used
    BY <1>0, <1>5 DEF Restart, Passed, limiter
  <2> QED
    BY <2>1, <1>n, <1>a
<1>6. CASE \/ \E v \in Visits : ServeLeave(v) \/ FreesSlot(v) \/ DropsTicket(v)
           \/ \E m \in wire : Lose(m)
           \/ UNCHANGED vars
  <2>1. Passed' = Passed /\ used' = used
    BY <1>6 DEF ServeLeave, FreesSlot, DropsTicket, Lose, vars, limiter, Passed
  <2> QED
    BY <2>1, <1>n, <1>a
<1> QED
  BY <1>1, <1>2, <1>3, <1>4, <1>5, <1>6 DEF Next

\* However many visits race between the check of the budget and begin(), the
\* day's budget is overspent by less than one chunk for each of them
\* (server.py:387, 550, 588).
THEOREM OverspendIsBounded == Spec => []OverspendBounded
<1>1. Init => InBudget
  <2>1. Init /\ Metered # {} => used = 0 /\ Passed = {} /\ Cardinality(Metered) \in Nat \ {0}
    BY SessionAssumption, FS_Subset, FS_EmptySet, FS_CardinalityType DEF Init, Passed
  <2> QED
    BY <2>1, SessionAssumption, FS_EmptySet DEF InBudget
<1>2. Sound /\ InBudget /\ [Next]_vars => InBudget'
  BY StepInBudget
<1>3. Spec => []InBudget
  BY <1>1, <1>2, AlwaysSound, PTL DEF Spec
<1>4. Sound /\ InBudget => OverspendBounded
  <2> SUFFICES ASSUME Sound, InBudget, Metered # {} PROVE used < Budget + Cardinality(Metered)
    BY DEF OverspendBounded
  <2>1. Cardinality(Passed) \in Nat /\ Cardinality(Metered) \in Nat /\ used \in Nat
    BY PassedBound, FiniteReservations DEF Sound, TypeOK, Passed
  <2> QED
    BY <2>1, SessionAssumption DEF InBudget
<1> QED
  BY <1>3, <1>4, AlwaysSound, PTL

============================================================================
