--------------------------- MODULE MCVoiceClient ---------------------------
(* Instances of VoiceClient for TLC.                                         *)
EXTENDS VoiceClient

\* Nobody presses a button while a teardown awaits close(): what is left of the
\* interleavings is that of requests and replies.
PatientSpec == Init /\ [][Next /\ ~pressed']_vars

============================================================================
