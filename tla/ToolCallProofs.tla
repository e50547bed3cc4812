--------------------------- MODULE ToolCallProofs ---------------------------
(***************************************************************************)
(* What the path of a tool call keeps for every set of calls, every        *)
(* configuration of speech-mcp and every timeout.                          *)
(***************************************************************************)
EXTENDS ToolCall, TLAPS

\* The number of results a search may return lies between one and the cap,
\* and within what was asked for, for every request and every configured
\* default, negative or overflowed ones included (mcpserver.go:41-44,
\* searxng.go:46-52).
LEMMA MaxResultsBound ==
  ASSUME NEW n \in Int
  PROVE  /\ MaxResults(n) \in 1..hardResultCap
         /\ n > 0 => MaxResults(n) <= n
BY ToolAssumption
   DEF MaxResults, Least, OrDefault, hardResultCap, defaultResults

\* What is asked for is an integer, also when the model leaves it out.
LEMMA AskedIsInt ==
  ASSUME TypeOK, NEW c \in Calls
  PROVE  asked[c] \in Int
<1>1. asked[c] \in Asks \/ asked[c] = 0
  BY DEF TypeOK
<1>2. Asks \subseteq Int
  BY Zenon, ToolAssumption
<1>3. 0 \in Int
  OBVIOUS
<1> QED
  BY Zenon, <1>1, <1>2, <1>3

LEMMA LeastIsEither ==
  ASSUME NEW m \in Int, NEW n \in Int
  PROVE  /\ Least(m, n) \in {m, n}
         /\ Least(m, n) <= m
         /\ Least(m, n) <= n
BY DEF Least

----------------------------------------------------------------------------
\* Type correctness

LEMMA InitTypeOK == Init => TypeOK
<1> SUFFICES ASSUME Init
             PROVE  TypeOK
  OBVIOUS
<1>1. 0 \in 0..ProbeMisses
  BY ToolAssumption
<1>2. /\ tool \in [Calls -> Tool]
      /\ asked \in [Calls -> Asks \cup {0}]
      /\ stage \in [Calls -> Stage]
      /\ age \in [Calls -> Nat]
  BY DEF Init, Tool, Stage
<1>3. /\ answer \in [Calls -> Answer]
      /\ count \in [Calls -> Nat]
  BY DEF Init, Answer
<1> QED
  BY <1>1, <1>2, <1>3 DEF Init, TypeOK

LEMMA NextTypeOK == TypeOK /\ [Next]_vars => TypeOK'
<1> SUFFICES ASSUME TypeOK, [Next]_vars
             PROVE  TypeOK'
  OBVIOUS
<1> USE ToolAssumption
<1>0. 0 \in 0..ProbeMisses
  OBVIOUS
<1>1. CASE Session
  BY <1>1 DEF Session, TypeOK, pod
<1>2. CASE BackendChanges
  BY <1>2 DEF BackendChanges, TypeOK, calls, pod
<1>3. CASE Crash
  <2>1. stage' \in [Calls -> Stage] /\ answer' \in [Calls -> Answer]
    BY <1>3 DEF Crash, TypeOK, Stage, Answer
  <2>2. age' \in [Calls -> Nat]
    BY <1>3 DEF Crash, TypeOK
  <2> QED
    BY <1>3, <2>1, <2>2 DEF Crash, TypeOK
<1>4. CASE Restart
  BY <1>0, <1>4 DEF Restart, EndProbe, TypeOK, calls
<1>5. CASE Kubelet
  <2>1. CASE Probe
    BY <2>1 DEF Probe, TypeOK, calls
  <2>2. CASE ProbeHits
    BY <1>0, <2>2 DEF ProbeHits, EndProbe, TypeOK, calls
  <2>3. CASE ProbeIsMissed
    <3>1. misses' \in 0..ProbeMisses /\ ready' \in BOOLEAN
      BY <2>3 DEF ProbeIsMissed, Least, TypeOK
    <3> QED
      BY <2>3, <3>1 DEF ProbeIsMissed, EndProbe, TypeOK, calls
  <2> QED
    BY <1>5, <2>1, <2>2, <2>3 DEF Kubelet
<1>6. CASE Tick
  <2>1. age' \in [Calls -> Nat] /\ probeAge' \in Nat
    BY <1>6 DEF Tick, TypeOK
  <2> QED
    BY <1>6, <2>1 DEF Tick, TypeOK
<1>7. ASSUME NEW c \in Calls,
             \/ RunTool(c) \/ FetchFails(c) \/ Refused(c) \/ Step(c)
             \/ Found(c) \/ SearchFails(c) \/ SerperAnswers(c) \/ SerperFails(c)
      PROVE  TypeOK'
  <2>1. CASE RunTool(c)
    BY <2>1 DEF RunTool, FirstStop, Tell, Enter, TypeOK, Stage, Answer, pod
  <2>2. CASE FetchFails(c)
    BY <2>2 DEF FetchFails, Tell, Enter, TypeOK, Stage, Answer, pod
  <2>3. CASE Refused(c)
    BY <2>3 DEF Refused, Tell, Enter, TypeOK, Stage, Answer, pod
  <2>4. CASE Connect(c)
    BY <2>4 DEF Connect, Enter, TypeOK, Stage, pod
  <2>5. CASE ProxyTimesOut(c)
    BY <2>5 DEF ProxyTimesOut, Tell, Enter, TypeOK, Stage, Answer, pod
  <2>6. CASE Serve(c)
    BY <2>6 DEF Serve, Tell, Enter, TypeOK, Stage, Answer, pod
  <2>7. CASE SearchTimesOut(c)
    BY <2>7 DEF SearchTimesOut, Tell, Enter, TypeOK, Stage, Answer, pod
  <2>8. CASE Found(c)
    <3>1. asked[c] \in Int
      BY AskedIsInt
    <3>2. PICK n \in 0..(hardResultCap + 1) :
            count' = [count EXCEPT ![c] = Least(n, MaxResults(asked[c]))]
      BY <2>8 DEF Found
    <3>3. Least(n, MaxResults(asked[c])) \in Nat
      BY <3>1, MaxResultsBound, LeastIsEither DEF hardResultCap
    <3> QED
      BY <2>8, <3>2, <3>3 DEF Found, Tell, Enter, TypeOK, Stage, Answer, pod
  <2>9. CASE SearchFails(c)
    BY <2>9 DEF SearchFails, Tell, Enter, TypeOK, Stage, Answer, pod
  <2>10. CASE SerperAnswers(c)
    BY <2>10 DEF SerperAnswers, MAX_RESULTS, Tell, Enter, TypeOK, Stage, Answer, pod
  <2>11. CASE SerperFails(c)
    BY <2>11 DEF SerperFails, Tell, Enter, TypeOK, Stage, Answer, pod
  <2> QED
    BY <1>7, <2>1, <2>2, <2>3, <2>4, <2>5, <2>6, <2>7, <2>8, <2>9, <2>10, <2>11 DEF Step
<1>8. CASE UNCHANGED vars
  BY <1>8 DEF vars, calls, pod, TypeOK
<1> QED
  BY <1>1, <1>2, <1>3, <1>4, <1>5, <1>6, <1>7, <1>8 DEF Next

\* Every reachable state of the path is well typed.
THEOREM TypeCorrect == Spec => []TypeOK
BY InitTypeOK, NextTypeOK, PTL DEF Spec

----------------------------------------------------------------------------
\* What a search returns

\* A call that is not done has returned nothing, and a web_search asks for no
\* number of results: what makes ResultsCapped inductive, since RunTool sets
\* what was asked for.
Unanswered ==
  \A c \in Calls :
    /\ stage[c] # "done" => count[c] = 0
    /\ stage[c] = "serper" => asked[c] = 0

LEMMA InitCapped == Init => ResultsCapped /\ Unanswered
BY DEF Init, ResultsCapped, Unanswered, hardResultCap

LEMMA NextCapped ==
  TypeOK /\ ResultsCapped /\ Unanswered /\ [Next]_vars
    => ResultsCapped' /\ Unanswered'
<1> SUFFICES ASSUME TypeOK, ResultsCapped, Unanswered, [Next]_vars
             PROVE  ResultsCapped' /\ Unanswered'
  OBVIOUS
<1> USE DEF ResultsCapped, Unanswered
<1>1. ASSUME UNCHANGED <<asked, count>>,
             \A c \in Calls : /\ stage[c] = "done" => stage'[c] = "done"
                              /\ stage'[c] = "serper" => stage[c] = "serper"
      PROVE  ResultsCapped' /\ Unanswered'
  BY <1>1
<1>2. CASE Session \/ BackendChanges \/ Restart \/ Kubelet \/ Tick \/ UNCHANGED vars
  BY <1>1, <1>2
     DEF Session, BackendChanges, Restart, Kubelet, Probe, ProbeHits,
         ProbeIsMissed, Tick, vars, calls
<1>3. CASE Crash
  BY <1>1, <1>3 DEF Crash
<1>4. ASSUME NEW c \in Calls, RunTool(c)
      PROVE  ResultsCapped' /\ Unanswered'
  <2>1. stage[c] = "idle" /\ count[c] = 0 /\ UNCHANGED count
    BY <1>4 DEF RunTool
  <2>2. \A d \in Calls \ {c} : asked'[d] = asked[d] /\ stage'[d] = stage[d]
    BY <1>4 DEF RunTool, Tell, Enter, TypeOK
  <2>3. asked'[c] \in Int
    BY <1>4, ToolAssumption DEF RunTool, TypeOK
  <2>4. stage'[c] = "serper" => asked'[c] = 0
    BY <1>4 DEF RunTool, FirstStop, Tell, Enter, TypeOK
  <2> QED
    BY <2>1, <2>2, <2>3, <2>4 DEF hardResultCap
<1>5. ASSUME NEW c \in Calls,
             FetchFails(c) \/ Refused(c) \/ Step(c) \/ SearchFails(c) \/ SerperFails(c)
      PROVE  ResultsCapped' /\ Unanswered'
  <2>1. stage[c] # "done" /\ UNCHANGED <<asked, count>>
    BY <1>5
       DEF FetchFails, Refused, Step, SearchFails, SerperFails, Connect, ProxyTimesOut,
           Serve, SearchTimesOut, SearchTimeout, UnderWay
  <2>2. \A d \in Calls \ {c} : stage'[d] = stage[d]
    BY <1>5
       DEF FetchFails, Refused, Step, SearchFails, SerperFails, Connect, ProxyTimesOut,
           Serve, SearchTimesOut, Tell, Enter, TypeOK
  <2>3. stage'[c] # "serper"
    BY <1>5
       DEF FetchFails, Refused, Step, SearchFails, SerperFails, Connect, ProxyTimesOut,
           Serve, SearchTimesOut, Tell, Enter, TypeOK
  <2> QED
    BY <1>1, <2>1, <2>2, <2>3
<1>6. ASSUME NEW c \in Calls, Found(c)
      PROVE  ResultsCapped' /\ Unanswered'
  <2>1. PICK n \in 0..(hardResultCap + 1) :
          count' = [count EXCEPT ![c] = Least(n, MaxResults(asked[c]))]
    BY <1>6 DEF Found
  <2>2. asked[c] \in Int
    BY AskedIsInt
  <2>3. /\ Least(n, MaxResults(asked[c])) <= hardResultCap
        /\ asked[c] > 0 => Least(n, MaxResults(asked[c])) <= asked[c]
    BY <2>2, MaxResultsBound DEF Least, hardResultCap
  <2>4. count'[c] = Least(n, MaxResults(asked[c])) /\ stage'[c] = "done"
    BY <1>6, <2>1 DEF Found, Tell, Enter, TypeOK
  <2>5. \A d \in Calls \ {c} : count'[d] = count[d] /\ stage'[d] = stage[d]
    BY <1>6, <2>1 DEF Found, Tell, Enter, TypeOK
  <2>6. UNCHANGED asked
    BY <1>6 DEF Found
  <2> QED
    BY <2>3, <2>4, <2>5, <2>6
<1>7. ASSUME NEW c \in Calls, SerperAnswers(c)
      PROVE  ResultsCapped' /\ Unanswered'
  <2>1. PICK n \in 0..MAX_RESULTS : count' = [count EXCEPT ![c] = n]
    BY <1>7 DEF SerperAnswers
  <2>2. count'[c] = n /\ stage'[c] = "done" /\ UNCHANGED asked
    BY <1>7, <2>1 DEF SerperAnswers, Tell, Enter, TypeOK
  <2>3. \A d \in Calls \ {c} : count'[d] = count[d] /\ stage'[d] = stage[d]
    BY <1>7, <2>1 DEF SerperAnswers, Tell, Enter, TypeOK
  <2> QED
    BY <1>7, <2>2, <2>3 DEF SerperAnswers, MAX_RESULTS, hardResultCap
<1> QED
  BY <1>2, <1>3, <1>4, <1>5, <1>6, <1>7 DEF Next

\* A search returns at most the cap and at most what was asked for, for every
\* configured default (mcpserver.go:41-44, searxng.go:46-52).
THEOREM SearchesAreCapped == Spec => []ResultsCapped
BY InitTypeOK, NextTypeOK, InitCapped, NextCapped, PTL DEF Spec

----------------------------------------------------------------------------
\* The nested timeouts

\* The server's own work takes no time, and its wait for the backend ends by
\* the search client's timeout.
InTime ==
  \A c \in Calls :
    /\ stage[c] = "serve" => age[c] = 0
    /\ stage[c] = "search" => age[c] <= ToolTimeout

LEMMA NextInTime == TypeOK /\ InTime /\ [Next]_vars => InTime'
<1> SUFFICES ASSUME TypeOK, InTime, [Next]_vars
             PROVE  InTime'
  OBVIOUS
<1> USE ToolAssumption DEF InTime
<1>1. CASE Session \/ BackendChanges \/ Restart \/ Kubelet \/ UNCHANGED vars
  BY <1>1
     DEF Session, BackendChanges, Restart, Kubelet, Probe, ProbeHits,
         ProbeIsMissed, vars, calls
<1>2. CASE Crash
  BY <1>2 DEF Crash, AtServer, TypeOK
<1>3. CASE Tick
  BY <1>3 DEF Tick, SearchTimeout, UnderWay, TypeOK
<1>4. ASSUME NEW c \in Calls,
             \/ RunTool(c) \/ FetchFails(c) \/ Refused(c) \/ Step(c)
             \/ Found(c) \/ SearchFails(c) \/ SerperAnswers(c) \/ SerperFails(c)
      PROVE  InTime'
  <2>1. age'[c] = 0
    BY <1>4
       DEF RunTool, FirstStop, FetchFails, Refused, Step, Found, SearchFails, SerperAnswers,
           SerperFails, Connect,
           ProxyTimesOut, Serve, SearchTimesOut, Tell, Enter, TypeOK
  <2>2. \A d \in Calls \ {c} : age'[d] = age[d] /\ stage'[d] = stage[d]
    BY <1>4
       DEF RunTool, FirstStop, FetchFails, Refused, Step, Found, SearchFails, SerperAnswers,
           SerperFails, Connect,
           ProxyTimesOut, Serve, SearchTimesOut, Tell, Enter, TypeOK
  <2> QED
    BY <2>1, <2>2
<1> QED
  BY <1>1, <1>2, <1>3, <1>4 DEF Next

\* When the search client's timeout is shorter than the proxy's, as it is by
\* default (config.go:50, server.py:687), the proxy never gives up on a server
\* that is at work.
THEOREM ProxyOutwaitsServer ==
  ASSUME ToolTimeout < ProxyTimeout
  PROVE  Spec => ServerAnswersFirst
<1>1. Init => InTime
  BY DEF Init, InTime
<1>2. TypeOK /\ InTime /\ [Next]_vars
        => [\A c \in Calls : ProxyTimesOut(c) => ~AtServer(c)]_vars
  BY ToolAssumption
     DEF InTime, ProxyTimesOut, UnderWay, AtServer, TypeOK
<1> QED
  BY InitTypeOK, NextTypeOK, NextInTime, <1>1, <1>2, PTL
     DEF Spec, ServerAnswersFirst

----------------------------------------------------------------------------
\* Readiness

\* "Readiness intentionally does not fail just because the search backend is
\* briefly unavailable" (health.go:13-16): whatever the timeouts are, and however
\* many probes it takes, a running process leaves its Service over nothing but a
\* backend that hangs.
THEOREM OnlyHangingUnreadies == Spec => ReadyWithoutSearch
<1>1. [Next]_vars => [up /\ up' /\ ready /\ ~ready' => backend = "hanging"]_vars
  <2> SUFFICES ASSUME [Next]_vars, up, up', ready, ~ready' PROVE backend = "hanging"
    BY DEF vars, pod
  <2>1. CASE Kubelet
    BY <2>1 DEF Kubelet, Probe, ProbeHits, ProbeIsMissed, HealthAnswers
  <2>2. CASE Restart
    BY <2>2 DEF Restart
  <2> QED
    BY <2>1, <2>2 DEF Next, Session, BackendChanges, Crash, Tick, RunTool, FetchFails,
       Refused, Step, Connect, ProxyTimesOut, Serve, SearchTimesOut, Found, SearchFails,
       SerperAnswers, SerperFails, pod, vars
<1> QED
  BY <1>1, PTL DEF Spec, ReadyWithoutSearch
=============================================================================
