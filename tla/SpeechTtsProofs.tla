-------------------------- MODULE SpeechTtsProofs --------------------------
(***************************************************************************)
(* Theorems about SpeechTts, for any set of requests, any pool and any     *)
(* bound on the chunks.  Safe is the inductive invariant: the owner of the *)
(* lock is the generator suspended inside `with`, and a generator is       *)
(* closed exactly while its response has not begun or is over.             *)
(***************************************************************************)
EXTENDS SpeechTts, FiniteSetTheorems, TLAPS

GenOpen == \A r \in Requests : gen[r] = "closed" <=> phase[r] = "idle" \/ Over(r)

Warm == boot # "serving" => \A r \in Requests : phase[r] = "idle"

Safe == TypeOK /\ Warm /\ GenOpen /\ LockOwner

LEMMA InitSafe == Init => Safe
<1> SUFFICES ASSUME Init PROVE Safe
  OBVIOUS
<1>1. TypeOK
  BY TtsAssumption DEF Init, TypeOK, Phases, Positions
<1>2. Warm /\ GenOpen /\ LockOwner
  BY LockValues DEF Init, Warm, GenOpen, LockOwner, Over
<1> QED
  BY <1>1, <1>2 DEF Safe

\* The values each step writes are of the variables' types.
LEMMA StepTypeOK == TypeOK /\ [Next]_vars => TypeOK'
<1> SUFFICES ASSUME TypeOK, [Next]_vars PROVE TypeOK'
  OBVIOUS
<1> USE TtsAssumption DEF TypeOK, Phases, Positions
<1>1. CASE StartWarmUp
  BY <1>1 DEF StartWarmUp
<1>2. CASE EndWarmUp
  BY <1>2 DEF EndWarmUp
<1>3. ASSUME NEW r \in Requests, NEW wav \in BOOLEAN, Synthesize(r, wav) PROVE TypeOK'
  BY <1>3 DEF Synthesize
<1>4. ASSUME NEW r \in Requests, TakeThread(r) PROVE TypeOK'
  BY <1>4 DEF TakeThread
<1>5. ASSUME NEW r \in Requests, YieldHeader(r) PROVE TypeOK'
  BY <1>5 DEF YieldHeader, AfterYield
<1>6. ASSUME NEW r \in Requests, AcquireLock(r) PROVE TypeOK'
  BY <1>6 DEF AcquireLock
<1>7. ASSUME NEW r \in Requests, YieldChunk(r) PROVE TypeOK'
  BY <1>7 DEF YieldChunk, AfterYield
<1>8. ASSUME NEW r \in Requests, Exhaust(r) PROVE TypeOK'
  BY <1>8 DEF Exhaust
<1>9. ASSUME NEW r \in Requests, Send(r) PROVE TypeOK'
  BY <1>9 DEF Send
<1>10. ASSUME NEW r \in Requests, Disconnect(r) PROVE TypeOK'
  BY <1>10 DEF Disconnect
<1>11. ASSUME NEW r \in Requests, Finalise(r) PROVE TypeOK'
  BY <1>11 DEF Finalise
<1>12. CASE UNCHANGED vars
  BY <1>12 DEF vars
<1> QED
  BY <1>1, <1>2, <1>3, <1>4, <1>5, <1>6, <1>7, <1>8, <1>9, <1>10, <1>11, <1>12
     DEF Next, Quiet

\* Every step keeps the lock with the one open `with` block.
LEMMA StepSafe == Safe /\ [Next]_vars => Safe'
<1> SUFFICES ASSUME Safe, [Next]_vars PROVE (Warm /\ GenOpen /\ LockOwner)'
  BY StepTypeOK DEF Safe
<1> USE LockValues DEF Safe, TypeOK, Phases, Positions, Warm, GenOpen, LockOwner, Over
<1>1. CASE StartWarmUp
  BY <1>1 DEF StartWarmUp
<1>2. CASE EndWarmUp
  BY <1>2 DEF EndWarmUp
<1>3. ASSUME NEW r \in Requests, NEW wav \in BOOLEAN, Synthesize(r, wav)
      PROVE  (Warm /\ GenOpen /\ LockOwner)'
  BY <1>3 DEF Synthesize
<1>4. ASSUME NEW r \in Requests, TakeThread(r)
      PROVE  (Warm /\ GenOpen /\ LockOwner)'
  BY <1>4 DEF TakeThread
<1>5. ASSUME NEW r \in Requests, YieldHeader(r)
      PROVE  (Warm /\ GenOpen /\ LockOwner)'
  BY <1>5 DEF YieldHeader, AfterYield
<1>6. ASSUME NEW r \in Requests, AcquireLock(r)
      PROVE  (Warm /\ GenOpen /\ LockOwner)'
  BY <1>6 DEF AcquireLock
<1>7. ASSUME NEW r \in Requests, YieldChunk(r)
      PROVE  (Warm /\ GenOpen /\ LockOwner)'
  BY <1>7 DEF YieldChunk, AfterYield
<1>8. ASSUME NEW r \in Requests, Exhaust(r)
      PROVE  (Warm /\ GenOpen /\ LockOwner)'
  BY <1>8 DEF Exhaust
<1>9. ASSUME NEW r \in Requests, Send(r)
      PROVE  (Warm /\ GenOpen /\ LockOwner)'
  BY <1>9 DEF Send
<1>10. ASSUME NEW r \in Requests, Disconnect(r)
      PROVE  (Warm /\ GenOpen /\ LockOwner)'
  BY <1>10 DEF Disconnect
<1>11. ASSUME NEW r \in Requests, Finalise(r)
      PROVE  (Warm /\ GenOpen /\ LockOwner)'
  BY <1>11 DEF Finalise
<1>12. CASE UNCHANGED vars
  BY <1>12 DEF vars
<1> QED
  BY <1>1, <1>2, <1>3, <1>4, <1>5, <1>6, <1>7, <1>8, <1>9, <1>10, <1>11, <1>12
     DEF Next, Quiet

LEMMA AlwaysSafe == Spec => []Safe
BY InitSafe, StepSafe, PTL DEF Spec

\* The state of the process stays of its type, whatever requests arrive and
\* disconnect.
THEOREM TypeCorrect == Spec => []TypeOK
<1>1. Safe => TypeOK
  BY DEF Safe
<1> QED
  BY <1>1, AlwaysSafe, PTL

\* synthesize_stream never has two generations open on the model: the lock
\* belongs to the one generator suspended inside its `with` (model.py:86-94).
THEOREM OneGenerationAtATime == Spec => []LockOwner
<1>1. Safe => LockOwner
  BY DEF Safe
<1> QED
  BY <1>1, AlwaysSafe, PTL

\* With at most PoolSize requests the holder of the lock can always go on: it is
\* not over, and the others cannot fill the thread pool waiting for its lock.
THEOREM NoCircularWait ==
  ASSUME Cardinality(Requests) <= PoolSize
  PROVE  Spec => []HolderCanGoOn
<1>1. Safe => HolderCanGoOn
  <2> SUFFICES ASSUME Safe, NEW r \in Requests, lock = r
               PROVE  \/ phase[r] \in {"inThread", "sending", "closing"}
                      \/ phase[r] = "waiting" /\ Cardinality(Busy) < PoolSize
    BY DEF HolderCanGoOn
  <2>1. phase[r] \in {"waiting", "inThread", "sending", "closing"}
    BY DEF Safe, GenOpen, LockOwner, TypeOK, Phases, Over
  <2>2. CASE phase[r] = "waiting"
    <3>1. Busy \subseteq Requests \ {r}
      BY <2>2 DEF Busy
    <3>2. /\ IsFiniteSet(Requests \ {r})
          /\ Cardinality(Requests \ {r}) = Cardinality(Requests) - 1
      BY TtsAssumption, FS_RemoveElement
    <3>3. Cardinality(Busy) <= Cardinality(Requests \ {r})
      BY <3>1, <3>2, FS_Subset
    <3>4. /\ Cardinality(Requests) \in Nat
          /\ Cardinality(Busy) \in Nat
      BY <3>1, <3>2, TtsAssumption, FS_Subset, FS_CardinalityType
    <3> QED
      BY <2>2, <3>2, <3>3, <3>4, TtsAssumption
  <2> QED
    BY <2>1, <2>2
<1> QED
  BY <1>1, AlwaysSafe, PTL

\* A generator that has not taken the lock yet has produced no audio.
Fresh ==
  \A r \in Requests : gen[r] \in {"header", "entering"} \/ phase[r] = "idle" => sent[r] = 0

LEMMA StepFresh == Safe /\ Fresh /\ [Next]_vars => Fresh'
<1> SUFFICES ASSUME Safe, Fresh, [Next]_vars PROVE Fresh'
  OBVIOUS
<1> USE DEF Safe, TypeOK, Phases, Positions, Fresh, GenOpen, Over
<1>1. ASSUME NEW r \in Requests, NEW wav \in BOOLEAN, Synthesize(r, wav) PROVE Fresh'
  BY <1>1 DEF Synthesize
<1>2. ASSUME NEW r \in Requests, TakeThread(r) PROVE Fresh'
  BY <1>2 DEF TakeThread
<1>3. ASSUME NEW r \in Requests, YieldHeader(r) \/ YieldChunk(r) PROVE Fresh'
  BY <1>3 DEF YieldHeader, YieldChunk, AfterYield
<1>4. ASSUME NEW r \in Requests, AcquireLock(r) \/ Exhaust(r) PROVE Fresh'
  BY <1>4 DEF AcquireLock, Exhaust
<1>5. ASSUME NEW r \in Requests, Send(r) \/ Disconnect(r) \/ Finalise(r) PROVE Fresh'
  BY <1>5 DEF Send, Disconnect, Finalise
<1>6. CASE StartWarmUp \/ EndWarmUp \/ UNCHANGED vars
  BY <1>6 DEF StartWarmUp, EndWarmUp, vars
<1> QED
  BY <1>1, <1>2, <1>3, <1>4, <1>5, <1>6 DEF Next, Quiet

LEMMA AlwaysFresh == Spec => []Fresh
<1>1. Init => Fresh
  BY DEF Init, Fresh
<1> QED
  BY <1>1, AlwaysSafe, StepFresh, PTL DEF Spec

\* Every step of the process is a step of SerialSynthesis or invisible there.
LEMMA StepSerial == Safe /\ Fresh /\ [Next]_vars => [Serial!Next]_(Serial!vars)
<1> SUFFICES ASSUME Safe, Fresh, [Next]_vars PROVE [Serial!Next]_(Serial!vars)
  OBVIOUS
<1> USE LockValues DEF Safe, TypeOK, Phases, Positions, Warm, GenOpen, LockOwner, Over,
                       Serial!Next, Serial!vars
<1>1. CASE StartWarmUp \/ EndWarmUp
  BY <1>1 DEF StartWarmUp, EndWarmUp
<1>2. ASSUME NEW r \in Requests, NEW wav \in BOOLEAN, Synthesize(r, wav)
      PROVE  Serial!Ask(r)
  BY <1>2 DEF Synthesize, Serial!Ask
<1>3. ASSUME NEW r \in Requests, AcquireLock(r)
      PROVE  Serial!Begin(r)
  BY <1>3 DEF AcquireLock, Fresh, Serial!Begin
<1>4. ASSUME NEW r \in Requests, YieldChunk(r)
      PROVE  Serial!Speak(r)
  BY <1>4 DEF YieldChunk, AfterYield, Serial!Speak
<1>5. ASSUME NEW r \in Requests, Exhaust(r)
      PROVE  Serial!Finish(r)
  BY <1>5 DEF Exhaust, Serial!Finish
<1>6. ASSUME NEW r \in Requests, Finalise(r)
      PROVE  Serial!Finish(r)
  BY <1>6 DEF Finalise, Serial!Finish
<1>7. ASSUME NEW r \in Requests,
             TakeThread(r) \/ YieldHeader(r) \/ Send(r) \/ Disconnect(r)
      PROVE  UNCHANGED Serial!vars
  BY <1>7 DEF TakeThread, YieldHeader, AfterYield, Send, Disconnect
<1>8. CASE UNCHANGED vars
  BY <1>8 DEF vars
<1> QED
  BY <1>1, <1>2, <1>3, <1>4, <1>5, <1>6, <1>7, <1>8 DEF Next, Quiet

\* The audio clients receive is that of a server without threads: the process
\* implements SerialSynthesis, for any number of requests and any pool.
THEOREM ImplementsSerialSynthesis == Spec => SerialSpec
<1>1. Init => Serial!Init
  BY LockValues DEF Init, Serial!Init, Over
<1> QED
  BY <1>1, AlwaysSafe, AlwaysFresh, StepSerial, PTL DEF Spec, SerialSpec, Serial!Spec

============================================================================
