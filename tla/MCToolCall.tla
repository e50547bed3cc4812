----------------------------- MODULE MCToolCall -----------------------------
(* ToolCall with the timeouts of the repository, in seconds.               *)
EXTENDS ToolCall, TLC

MCAsks == {-1, 3, 12}
Symmetry == Permutations(Calls)
=============================================================================
