--------------------------- MODULE MCAgentRunLease ---------------------------
(* TLC instance of AgentRunLease: model values and their symmetry. *)
EXTENDS AgentRunLease, TLC

Symmetry == Permutations(Top) \cup Permutations(Sub) \cup Permutations(Owner)
=============================================================================
