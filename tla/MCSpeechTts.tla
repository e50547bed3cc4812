---------------------------- MODULE MCSpeechTts ----------------------------
(* Instances of SpeechTts for TLC; requests are interchangeable. *)
EXTENDS SpeechTts, TLC

Symmetry == Permutations(Requests)

============================================================================
