---------------------------- MODULE Conversation ----------------------------
(***************************************************************************)
(* What the page and the server promise of a call, whatever awaits,        *)
(* requests, clients and dialogs it takes.  A call is prompted for, asks,  *)
(* waits, is offered a slot, joins and talks in this order, each step only *)
(* after the server's side of it, and once over it never comes back.  A    *)
(* place at the server comes from the call's own request, once, and can be *)
(* given up at any time; a request outlives its call, so the place may be  *)
(* given to a call that is over.  The page remembers the place of a call   *)
(* from the moment it is told of it, and when a call ends, in whatever     *)
(* way, it keeps none.                                                     *)
(***************************************************************************)
CONSTANTS Calls, Metered

VARIABLES
  stage,   \* [Calls -> {"new", "prompting", "asking", "waiting", "offered", "joining",
           \*            "talking", "over"}]
  place,   \* [Calls -> {"none", "asked", "line", "slot", "past"}], at the server
  kept     \* calls whose place the page has been told of and has not given back

vars == <<stage, place, kept>>

Init ==
  /\ stage = [c \in Calls |-> "new"]
  /\ place = [c \in Calls |-> "none"]
  /\ kept = {}

Move(c, from, to) == stage[c] = from /\ stage' = [stage EXCEPT ![c] = to]

\* The page is told of the place of c, and may forget another one.
Keep(c) == c \in kept' /\ kept' \subseteq kept \union {c}

KeepIfMetered(c) == kept' \subseteq kept \union {c} /\ (Metered => c \in kept')

Prompt(c) == Move(c, "new", "prompting") /\ UNCHANGED <<place, kept>>

Ask(c) ==
  /\ Move(c, "prompting", "asking")
  /\ place' = [place EXCEPT ![c] = "asked"]
  /\ UNCHANGED kept

Wait(c)  == Move(c, "asking", "waiting")  /\ place[c] \in {"line", "past"} /\ Keep(c) /\ UNCHANGED place
Offer(c) == Move(c, "waiting", "offered") /\ place[c] \in {"slot", "past"} /\ Keep(c) /\ UNCHANGED place
Admit(c) == Move(c, "asking", "joining")  /\ place[c] \in {"slot", "past"} /\ KeepIfMetered(c) /\ UNCHANGED place

Join(c) == Move(c, "offered", "joining") /\ KeepIfMetered(c) /\ UNCHANGED place
Talk(c) == Move(c, "joining", "talking") /\ UNCHANGED <<place, kept>>

\* What a place can become.
After == [none |-> {}, asked |-> {"line", "slot", "past"}, line |-> {"slot", "past"},
          slot |-> {"past"}, past |-> {}]

\* The server grants, queues, claims, refuses or gives up, whatever became of the call.
Serve(c) ==
  /\ \E p \in After[place[c]] : place' = [place EXCEPT ![c] = p]
  /\ UNCHANGED <<stage, kept>>

\* Calls left, refused, failed or cut.  The refusal of a request ends its place too.
End(over) ==
  /\ \A c \in over : stage[c] \notin {"new", "over"}
  /\ stage' = [c \in Calls |-> IF c \in over THEN "over" ELSE stage[c]]
  /\ \/ UNCHANGED place
     \/ \E c \in over : /\ place[c] \in {"asked", "line"}
                        /\ place' = [place EXCEPT ![c] = "past"]
  /\ kept' = {}

Next ==
  \/ \E c \in Calls :
       \/ Prompt(c) \/ Ask(c) \/ Wait(c) \/ Offer(c) \/ Admit(c) \/ Join(c) \/ Talk(c)
       \/ Serve(c)
  \/ \E over \in SUBSET Calls : End(over)

Spec == Init /\ [][Next]_vars

============================================================================
