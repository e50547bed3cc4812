----------------------------- MODULE SpeechTts -----------------------------
(***************************************************************************)
(* The speech-tts process (tts/app/main.py, tts/app/model.py).             *)
(*                                                                         *)
(* POST /v1/audio/speech answers with a StreamingResponse over the         *)
(* SYNCHRONOUS generator gen().  The framework runs every next() of such a *)
(* generator in a worker thread of a bounded pool, and between two next()  *)
(* calls the response holds no thread.  gen() iterates                     *)
(* Qwen3TTS.synthesize_stream, which holds the one model lock from its     *)
(* first chunk to its last, across those gaps.  So a request needs two     *)
(* resources, a thread and the lock, and gives one of them back between    *)
(* chunks while it keeps the other.                                        *)
(***************************************************************************)
EXTENDS Naturals, FiniteSets

CONSTANTS Requests,   \* the requests a run of the process may receive
          PoolSize,   \* worker threads of the pool that runs sync generators
          MaxChunks   \* chunks one generation yields at most (max_new_tokens)

ASSUME TtsAssumption ==
  /\ IsFiniteSet(Requests)
  /\ PoolSize \in Nat \ {0}
  /\ MaxChunks \in Nat

Nobody == "nobody"    \* the value of a free lock
Loader == "loader"    \* load()'s warm-up, which takes the lock as well

ASSUME LockValues == Nobody \notin Requests /\ Loader \notin Requests

VARIABLES
  boot,    \* "starting", "warming" or "serving": how far the lifespan hook is
  lock,    \* the holder of Qwen3TTS._lock
  phase,   \* [Requests -> Phases]: where the response of a request stands
  gen,     \* [Requests -> Positions]: where its generator is suspended
  sent,    \* [Requests -> 0..MaxChunks]: chunks of audio handed to the client
  gone     \* the requests whose client has disconnected

vars == <<boot, lock, phase, gen, sent, gone>>

\* "waiting": the next next() waits for a thread.  "inThread": it runs in one.
\* "sending": the chunk is being written to the socket.  "closing": cancelled,
\* its generator not yet finalised.
Phases == {"idle", "waiting", "inThread", "sending", "closing", "ended", "aborted"}

\* "header": a wav response that has not yielded its header.  "entering": the
\* next line to run is `with self._lock`.  "holding": inside it.
Positions == {"header", "entering", "holding", "closed"}

TypeOK ==
  /\ boot \in {"starting", "warming", "serving"}
  /\ lock \in Requests \union {Nobody, Loader}
  /\ phase \in [Requests -> Phases]
  /\ gen \in [Requests -> Positions]
  /\ sent \in [Requests -> 0..MaxChunks]
  /\ gone \in SUBSET Requests

Busy == {r \in Requests : phase[r] = "inThread"}

Over(r) == phase[r] \in {"ended", "aborted"}

Init ==
  /\ boot = "starting"
  /\ lock = Nobody
  /\ phase = [r \in Requests |-> "idle"]
  /\ gen = [r \in Requests |-> "closed"]
  /\ sent = [r \in Requests |-> 0]
  /\ gone = {}

----------------------------------------------------------------------------
\* The lifespan hook: no connection is accepted before load() returns.

StartWarmUp ==
  /\ boot = "starting"
  /\ lock = Nobody
  /\ boot' = "warming"
  /\ lock' = Loader
  /\ UNCHANGED <<phase, gen, sent, gone>>

EndWarmUp ==
  /\ boot = "warming"
  /\ boot' = "serving"
  /\ lock' = Nobody
  /\ UNCHANGED <<phase, gen, sent, gone>>

----------------------------------------------------------------------------
\* One request.

\* The handler returns its StreamingResponse without touching the model.
Synthesize(r, wav) ==
  /\ boot = "serving"
  /\ phase[r] = "idle"
  /\ phase' = [phase EXCEPT ![r] = "waiting"]
  /\ gen' = [gen EXCEPT ![r] = IF wav THEN "header" ELSE "entering"]
  /\ UNCHANGED <<boot, lock, sent, gone>>

TakeThread(r) ==
  /\ phase[r] = "waiting"
  /\ Cardinality(Busy) < PoolSize
  /\ phase' = [phase EXCEPT ![r] = "inThread"]
  /\ UNCHANGED <<boot, lock, gen, sent, gone>>

\* What the event loop does with a value next() returned: it sends it, unless
\* the client is gone, in which case the response task is cancelled.
AfterYield(r) == IF r \in gone THEN "closing" ELSE "sending"

YieldHeader(r) ==
  /\ phase[r] = "inThread"
  /\ gen[r] = "header"
  /\ gen' = [gen EXCEPT ![r] = "entering"]
  /\ phase' = [phase EXCEPT ![r] = AfterYield(r)]
  /\ UNCHANGED <<boot, lock, sent, gone>>

\* Until this step is enabled the thread of r is blocked in acquire().
AcquireLock(r) ==
  /\ phase[r] = "inThread"
  /\ gen[r] = "entering"
  /\ lock = Nobody
  /\ lock' = r
  /\ gen' = [gen EXCEPT ![r] = "holding"]
  /\ UNCHANGED <<boot, phase, sent, gone>>

\* Mutant: a generation that runs on past its last chunk.
YieldChunkPastEnd(r) ==
  /\ phase[r] = "inThread"
  /\ gen[r] = "holding"
  /\ sent[r] <= MaxChunks
  /\ sent' = [sent EXCEPT ![r] = @ + 1]
  /\ phase' = [phase EXCEPT ![r] = AfterYield(r)]
  /\ UNCHANGED <<boot, lock, gen, gone>>

\* Mutant: nothing bounds the chunks of a generation.
YieldChunkUncounted(r) ==
  /\ phase[r] = "inThread"
  /\ gen[r] = "holding"
  /\ phase' = [phase EXCEPT ![r] = AfterYield(r)]
  /\ UNCHANGED <<boot, lock, gen, sent, gone>>

YieldChunk(r) ==
  /\ phase[r] = "inThread"
  /\ gen[r] = "holding"
  /\ sent[r] < MaxChunks
  /\ sent' = [sent EXCEPT ![r] = @ + 1]
  /\ phase' = [phase EXCEPT ![r] = AfterYield(r)]
  /\ UNCHANGED <<boot, lock, gen, gone>>

\* Mutant: a generation that raises is started over.
ExhaustAndRetry(r) ==
  /\ phase[r] = "inThread"
  /\ gen[r] = "holding"
  /\ lock' = Nobody
  /\ gen' = [gen EXCEPT ![r] = "entering"]
  /\ UNCHANGED <<boot, phase, sent, gone>>

\* The generation is exhausted or raises: either way `with` releases the lock.
Exhaust(r) ==
  /\ phase[r] = "inThread"
  /\ gen[r] = "holding"
  /\ lock' = Nobody
  /\ gen' = [gen EXCEPT ![r] = "closed"]
  /\ phase' = [phase EXCEPT ![r] = "ended"]
  /\ UNCHANGED <<boot, sent, gone>>

Send(r) ==
  /\ phase[r] = "sending"
  /\ phase' = [phase EXCEPT ![r] = "waiting"]
  /\ UNCHANGED <<boot, lock, gen, sent, gone>>

\* The client disconnects.  A task waiting for a thread or for the socket is
\* cancelled there; a next() already in a thread runs to its end first.
Disconnect(r) ==
  /\ phase[r] \in {"waiting", "inThread", "sending"}
  /\ r \notin gone
  /\ gone' = gone \union {r}
  /\ phase' = [phase EXCEPT ![r] = IF @ = "inThread" THEN @ ELSE "closing"]
  /\ UNCHANGED <<boot, lock, gen, sent>>

\* Mutant: an abandoned generation keeps the lock.
FinaliseKeepsLock(r) ==
  /\ phase[r] = "closing"
  /\ gen' = [gen EXCEPT ![r] = "closed"]
  /\ phase' = [phase EXCEPT ![r] = "aborted"]
  /\ UNCHANGED <<boot, lock, sent, gone>>

\* The abandoned generator is finalised: GeneratorExit at its yield leaves the
\* `with`, and the lock is free again.
Finalise(r) ==
  /\ phase[r] = "closing"
  /\ lock' = IF gen[r] = "holding" THEN Nobody ELSE lock
  /\ gen' = [gen EXCEPT ![r] = "closed"]
  /\ phase' = [phase EXCEPT ![r] = "aborted"]
  /\ UNCHANGED <<boot, sent, gone>>

\* GET /healthz runs on the event loop: it needs neither a thread nor the lock.
Healthz == boot = "serving"

----------------------------------------------------------------------------
\* Every step of the response to r that the process itself takes.
Step(r) ==
  \/ TakeThread(r) \/ YieldHeader(r) \/ AcquireLock(r) \/ YieldChunk(r)
  \/ Exhaust(r) \/ Send(r) \/ Finalise(r)

AllOver == boot = "serving" /\ \A r \in Requests : Over(r)

Quiet == AllOver /\ UNCHANGED vars

Next ==
  \/ StartWarmUp
  \/ EndWarmUp
  \/ \E r \in Requests :
       \/ \E wav \in BOOLEAN : Synthesize(r, wav)
       \/ TakeThread(r)
       \/ YieldHeader(r)
       \/ AcquireLock(r)
       \/ YieldChunk(r)
       \/ Exhaust(r)
       \/ Send(r)
       \/ Disconnect(r)
       \/ Finalise(r)
  \/ Quiet

Spec == Init /\ [][Next]_vars

\* The interpreter keeps running its threads and the client keeps reading.
\* Exhaust is not asked for: MaxChunks bounds a generation.  Clients are free
\* to call, or never to disconnect.
FairSpec ==
  /\ Spec
  /\ WF_vars(StartWarmUp)
  /\ WF_vars(EndWarmUp)
  /\ \A r \in Requests : WF_vars(Step(r))

----------------------------------------------------------------------------
\* Properties.

\* The lock and the generators agree: the holder of _lock is the one request
\* suspended inside `with self._lock` (model.py:86-94), so no two generations
\* are ever open on the model at once, whatever clients disconnect.
LockOwner == \A r \in Requests : gen[r] = "holding" <=> lock = r

\* The holder of the lock can always go on to release it: its response is not
\* over (a lock that no client's disconnect loses), and the requests blocked on
\* the lock (model.py:86) do not occupy every thread it needs for its next chunk
\* (main.py:106-110).  It takes at most PoolSize requests.
HolderCanGoOn ==
  \A r \in Requests : lock = r =>
    \/ phase[r] \in {"inThread", "sending", "closing"}
    \/ phase[r] = "waiting" /\ Cardinality(Busy) < PoolSize

\* The chunked response a client asked for comes to an end (main.py:8-10).
EveryResponseEnds ==
  \A r \in Requests : phase[r] = "waiting" ~> Over(r)

\* The process keeps the promise of SerialSynthesis: threads, the lock and
\* disconnecting clients (main.py:101-124) are not visible in the audio.
Serial == INSTANCE SerialSynthesis WITH
  Silence <- Nobody,
  speaker <- IF lock = Loader THEN Nobody ELSE lock,
  stage   <- [r \in Requests |-> IF phase[r] = "idle" THEN "idle"
                                 ELSE IF Over(r) THEN "over" ELSE "asked"],
  heard   <- sent

SerialSpec == Serial!Spec

============================================================================
