------------------------------ MODULE ToolCall ------------------------------
(***************************************************************************)
(* The path of one tool call of the language model: runTool on the page    *)
(* (demo/main.js), the /api/mcp/call proxy (demo/server.py), the speech-mcp*)
(* server (local_time and global_internet_search) and the SearXNG backend  *)
(* it searches with; the /api/search proxy to the Serper service behind    *)
(* web_search; and the readiness of speech-mcp, which decides whether its  *)
(* Service routes to it.                                                   *)
(*                                                                         *)
(* Time passes in seconds.  Work inside one program takes less than one;   *)
(* what takes longer is waiting for another program, and each wait has the *)
(* timeout its caller set.                                                 *)
(***************************************************************************)
EXTENDS Integers

CONSTANTS
  Calls,         \* tool calls of the model
  Asks,          \* max_results the model asks for; 0 when it leaves it out
  ToolMaxResults, ToolTimeout,  \* speech-mcp's configuration
  ProxyTimeout,  \* each phase of a proxy's request, to speech-mcp or Serper
  ReadyTimeout,  \* speech-mcp's wait for the backend's health route
  ProbeTimeout,  \* the kubelet's wait for /health/ready
  ProbeMisses    \* missed probes that take the pod out of its Service

ASSUME ToolAssumption ==
  /\ Asks \subseteq Int
  /\ ToolMaxResults \in Int
  /\ ToolTimeout \in Nat \ {0}
  /\ ProxyTimeout \in Nat \ {0}
  /\ ReadyTimeout \in Nat \ {0}
  /\ ProbeTimeout \in Nat \ {0}
  /\ ProbeMisses \in Nat \ {0}

VARIABLES
  client,    \* the page has a session
  tool,      \* call -> the tool called
  asked,     \* call -> its max_results
  stage,     \* call -> who is at work on it
  age,       \* call -> seconds since that began
  answer,    \* call -> what the model was told
  count,     \* call -> number of search results in the answer
  backend,   \* SearXNG
  up, ready, \* the speech-mcp process; its pod is in the Service
  misses,    \* readiness probes missed in a row
  probing, probeAge  \* a probe is waiting, and for how long

calls == <<client, tool, asked, stage, age, answer, count>>
pod == <<up, ready, misses, probing, probeAge>>
vars == <<calls, backend, pod>>

hardResultCap == 10
defaultResults == 5
MAX_RESULTS == 5  \* server.py's, of a web_search

Tool == {"page", "local_time", "global_internet_search", "web_search"}
Stage == {"idle", "connect", "serve", "search", "serper", "done"}
Answer == {"none", "result", "toolError", "unreachable", "failed", "empty"}

TypeOK ==
  /\ client \in BOOLEAN
  /\ tool \in [Calls -> Tool]
  /\ asked \in [Calls -> Asks \cup {0}]
  /\ stage \in [Calls -> Stage]
  /\ age \in [Calls -> Nat]
  /\ answer \in [Calls -> Answer]
  /\ count \in [Calls -> Nat]
  /\ backend \in {"up", "refusing", "hanging"}
  /\ up \in BOOLEAN
  /\ ready \in BOOLEAN
  /\ misses \in 0..ProbeMisses
  /\ probing \in BOOLEAN
  /\ probeAge \in Nat

----------------------------------------------------------------------------
\* How many results a search may return: the tool fills in the configured
\* default, the provider its own default and its cap.

Least(m, n) == IF m < n THEN m ELSE n

\* Mutant: only a number left out is replaced, a negative one goes through.
OrDefaultAtZero(n, default) == IF n = 0 THEN default ELSE n

OrDefault(n, default) == IF n <= 0 THEN default ELSE n

\* Mutant: the provider trusts the tool to have bounded the request.
MaxResultsUncapped(n) ==
  OrDefault(OrDefault(n, ToolMaxResults), defaultResults)

MaxResults(n) ==
  Least(OrDefault(OrDefault(n, ToolMaxResults), defaultResults),
        hardResultCap)

----------------------------------------------------------------------------
Init ==
  /\ client = FALSE
  /\ tool = [c \in Calls |-> "page"]
  /\ asked = [c \in Calls |-> 0]
  /\ stage = [c \in Calls |-> "idle"]
  /\ age = [c \in Calls |-> 0]
  /\ answer = [c \in Calls |-> "none"]
  /\ count = [c \in Calls |-> 0]
  /\ backend = "up"
  /\ up = TRUE
  /\ ready = FALSE
  /\ misses = 0
  /\ probing = FALSE
  /\ probeAge = 0

Reachable == up /\ ready
AtServer(c) == stage[c] \in {"serve", "search"}
UnderWay(c) == stage[c] \in {"connect", "serve", "search", "serper"}

\* Where a call waits first: for the connection to speech-mcp, or for Serper.
FirstStop(t) == IF t = "web_search" THEN "serper" ELSE "connect"

Enter(c, next) ==
  /\ stage' = [stage EXCEPT ![c] = next]
  /\ age' = [age EXCEPT ![c] = 0]

Tell(c, what) ==
  /\ Enter(c, "done")
  /\ answer' = [answer EXCEPT ![c] = what]

\* The page: a session starts and ends, the model calls a tool.
Session ==
  /\ client' = ~client
  /\ UNCHANGED <<tool, asked, stage, age, answer, count, backend, pod>>

\* runTool.  "page" is every call the page answers by itself: a snapshot, an
\* unknown tool, a search without a query.
RunTool(c) ==
  /\ stage[c] = "idle"
  /\ \E t \in Tool, n \in Asks \cup {0} :
       /\ t # "global_internet_search" => n = 0
       /\ tool' = [tool EXCEPT ![c] = t]
       /\ asked' = [asked EXCEPT ![c] = n]
       /\ \/ ~client /\ Tell(c, "empty")
          \/ client /\ t = "page" /\ Tell(c, "result")
          \/ client /\ t # "page" /\ Enter(c, FirstStop(t)) /\ UNCHANGED answer
  /\ UNCHANGED <<client, count, backend, pod>>

\* The page loses the proxy: fetch rejects, runTool reports it.
FetchFails(c) ==
  /\ UnderWay(c)
  /\ Tell(c, "failed")
  /\ UNCHANGED <<client, tool, asked, count, backend, pod>>

\* The proxy: the connection is made or refused, or a phase times out.
Connect(c) ==
  /\ stage[c] = "connect"
  /\ Reachable
  /\ Enter(c, "serve")
  /\ UNCHANGED <<client, tool, asked, answer, count, backend, pod>>

Refused(c) ==
  /\ stage[c] = "connect"
  /\ ~Reachable
  /\ Tell(c, "unreachable")
  /\ UNCHANGED <<client, tool, asked, count, backend, pod>>

\* Mutant: a request without a timeout.
ProxyTimeoutNever(c) == FALSE /\ UNCHANGED vars

ProxyTimesOut(c) ==
  /\ UnderWay(c)
  /\ age[c] >= ProxyTimeout
  /\ Tell(c, "unreachable")
  /\ UNCHANGED <<client, tool, asked, count, backend, pod>>

\* speech-mcp: local_time answers at once (or does not know the timezone, or
\* the arguments do not fit the tool's schema), a search goes to the backend.
Serve(c) ==
  /\ stage[c] = "serve"
  /\ \/ tool[c] = "local_time" /\ Tell(c, "result")
     \/ Tell(c, "toolError")
     \/ /\ tool[c] = "global_internet_search"
        /\ Enter(c, "search")
        /\ UNCHANGED answer
  /\ UNCHANGED <<client, tool, asked, count, backend, pod>>

\* The backend answers with any number of results, of which the first ones
\* are kept.
Found(c) ==
  /\ stage[c] = "search"
  /\ backend = "up"
  /\ \E n \in 0..(hardResultCap + 1) :
       count' = [count EXCEPT ![c] = Least(n, MaxResults(asked[c]))]
  /\ Tell(c, "result")
  /\ UNCHANGED <<client, tool, asked, backend, pod>>

\* Refused, a status other than 200, a body that does not parse.
SearchFails(c) ==
  /\ stage[c] = "search"
  /\ backend # "hanging"
  /\ Tell(c, "toolError")
  /\ UNCHANGED <<client, tool, asked, count, backend, pod>>

\* Mutant: a search client without a timeout.
SearchTimeoutNever(c) == FALSE

\* The search client's timeout.
SearchTimeout(c) == stage[c] = "search" /\ age[c] >= ToolTimeout

SearchTimesOut(c) ==
  /\ SearchTimeout(c)
  /\ Tell(c, "toolError")
  /\ UNCHANGED <<client, tool, asked, count, backend, pod>>

\* /api/search: Serper's first results, with a direct answer or without.
SerperAnswers(c) ==
  /\ stage[c] = "serper"
  /\ \E n \in 0..MAX_RESULTS : count' = [count EXCEPT ![c] = n]
  /\ Tell(c, "result")
  /\ UNCHANGED <<client, tool, asked, backend, pod>>

\* No key of the server's or the user's, refused, an error status, or a body that
\* does not parse.
SerperFails(c) ==
  /\ stage[c] = "serper"
  /\ Tell(c, "toolError")
  /\ UNCHANGED <<client, tool, asked, count, backend, pod>>

----------------------------------------------------------------------------
\* The world around: the backend, the process, its probe and the clock

BackendChanges ==
  /\ backend' \in {"up", "refusing", "hanging"} \ {backend}
  /\ UNCHANGED <<calls, pod>>

\* The connections of the calls it was serving break.
Crash ==
  /\ up
  /\ up' = FALSE
  /\ stage' = [c \in Calls |-> IF AtServer(c) THEN "done" ELSE stage[c]]
  /\ answer' = [c \in Calls |-> IF AtServer(c) THEN "unreachable"
                                               ELSE answer[c]]
  /\ age' = [c \in Calls |-> IF AtServer(c) THEN 0 ELSE age[c]]
  /\ UNCHANGED <<client, tool, asked, count, backend, ready, misses, probing,
                 probeAge>>

EndProbe == probing' = FALSE /\ probeAge' = 0

Restart ==
  /\ ~up
  /\ up' = TRUE
  /\ ready' = FALSE
  /\ misses' = 0
  /\ EndProbe
  /\ UNCHANGED <<calls, backend>>

Probe ==
  /\ ~probing
  /\ probing' = TRUE
  /\ probeAge' = 0
  /\ UNCHANGED <<calls, backend, up, ready, misses>>

\* Mutant: it answers 200 only once the backend is well.
HealthAnswersWell == up /\ backend = "up"

\* /health/ready answers 200 with or without the backend, once it has heard
\* from it or waited long enough.
HealthAnswers == up /\ (backend # "hanging" \/ probeAge >= ReadyTimeout)

ProbeHits ==
  /\ probing
  /\ HealthAnswers
  /\ probeAge <= ProbeTimeout
  /\ EndProbe
  /\ ready' = TRUE
  /\ misses' = 0
  /\ UNCHANGED <<calls, backend, up>>

ProbeIsMissed ==
  /\ probing
  /\ ~HealthAnswers
  /\ ~up \/ probeAge >= ProbeTimeout
  /\ EndProbe
  /\ misses' = Least(misses + 1, ProbeMisses)
  /\ ready' = (ready /\ misses' < ProbeMisses)
  /\ UNCHANGED <<calls, backend, up>>

\* A second passes, unless a timeout is due or a program is at work.
Tick ==
  /\ \A c \in Calls : stage[c] # "serve" /\ ~SearchTimeout(c)
  /\ \A c \in Calls : UnderWay(c) => age[c] < ProxyTimeout
  /\ probing => probeAge < ProbeTimeout
  /\ age' = [c \in Calls |-> IF UnderWay(c) THEN age[c] + 1 ELSE age[c]]
  /\ probeAge' = IF probing THEN probeAge + 1 ELSE probeAge
  /\ UNCHANGED <<client, tool, asked, stage, answer, count, backend, up,
                 ready, misses, probing>>

Step(c) ==
  \/ Connect(c) \/ ProxyTimesOut(c) \/ Serve(c) \/ SearchTimesOut(c)

Kubelet == Probe \/ ProbeHits \/ ProbeIsMissed

Next ==
  \/ Session \/ BackendChanges \/ Crash \/ Restart \/ Kubelet
  \/ Tick
  \/ \E c \in Calls :
       \/ RunTool(c) \/ FetchFails(c) \/ Refused(c) \/ Step(c)
       \/ Found(c) \/ SearchFails(c) \/ SerperAnswers(c) \/ SerperFails(c)

Spec == Init /\ [][Next]_vars

\* Programs run on, a probe ends, and time never stands still; neither the
\* backend nor the network has to answer.
FairSpec ==
  /\ Spec
  /\ SF_vars(Tick)
  /\ WF_vars(ProbeHits \/ ProbeIsMissed)
  /\ \A c \in Calls : WF_vars(Step(c))

----------------------------------------------------------------------------
\* Properties

\* However long the backend hangs, the model hears from speech-mcp what went
\* wrong: the proxy gives up on a connection or on Serper, never on a server of
\* the cluster that is at work (server.py:686-702, config.go:33-36).
ServerAnswersFirst ==
  [][\A c \in Calls : ProxyTimesOut(c) => ~AtServer(c)]_vars

\* A search never returns more than the cap, nor more than was asked for,
\* whatever the configured default is (mcpserver.go:41-44, searxng.go:46-52).
ResultsCapped ==
  \A c \in Calls :
    /\ count[c] <= hardResultCap
    /\ asked[c] > 0 => count[c] <= asked[c]

\* Errors come back as tool output, so the model recovers instead of stalling
\* (main.js:858-859): every tool call the model makes is answered, though the
\* page's own fetch has no timeout and a search service may never answer.
EveryCallAnswered ==
  \A c \in Calls : UnderWay(c) ~> answer[c] # "none"

\* "Readiness intentionally does not fail just because the search backend is
\* briefly unavailable" (health.go:13-16): a running process that was ready
\* leaves its Service only over a backend that hangs, which the probe's timeout
\* does not sit out, and never over one that fails.
ReadyWithoutSearch == [][up /\ up' /\ ready /\ ~ready' => backend = "hanging"]_vars
=============================================================================
