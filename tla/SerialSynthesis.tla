-------------------------- MODULE SerialSynthesis --------------------------
(***************************************************************************)
(* What speech-tts promises its clients, with no threads and no lock: the  *)
(* model speaks for one request at a time, from the first chunk of its     *)
(* audio to the last, and a request that is over never speaks again.       *)
(***************************************************************************)
EXTENDS Naturals

CONSTANTS Requests, Silence

VARIABLES
  speaker,   \* the request the model speaks for, or Silence
  stage,     \* [Requests -> {"idle", "asked", "over"}]
  heard      \* [Requests -> Nat]: chunks of audio produced for a request

vars == <<speaker, stage, heard>>

Init ==
  /\ speaker = Silence
  /\ stage = [r \in Requests |-> "idle"]
  /\ heard = [r \in Requests |-> 0]

Ask(r) ==
  /\ stage[r] = "idle"
  /\ stage' = [stage EXCEPT ![r] = "asked"]
  /\ UNCHANGED <<speaker, heard>>

Begin(r) ==
  /\ stage[r] = "asked"
  /\ heard[r] = 0
  /\ speaker = Silence
  /\ speaker' = r
  /\ UNCHANGED <<stage, heard>>

Speak(r) ==
  /\ speaker = r
  /\ heard' = [heard EXCEPT ![r] = @ + 1]
  /\ UNCHANGED <<speaker, stage>>

\* The end of a request, spoken or abandoned, silences its own speech only.
Finish(r) ==
  /\ stage[r] = "asked"
  /\ stage' = [stage EXCEPT ![r] = "over"]
  /\ speaker' = IF speaker = r THEN Silence ELSE speaker
  /\ UNCHANGED heard

Next == \E r \in Requests : Ask(r) \/ Begin(r) \/ Speak(r) \/ Finish(r)

Spec == Init /\ [][Next]_vars

============================================================================
