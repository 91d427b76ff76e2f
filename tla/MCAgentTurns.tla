---------------------------- MODULE MCAgentTurns ----------------------------
(* Instances of AgentTurns for TLC. *)
EXTENDS AgentTurns, TLC

Symmetry == Permutations(Workers) \cup Permutations(Msgs)
=============================================================================
