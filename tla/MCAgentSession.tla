--------------------------- MODULE MCAgentSession ---------------------------
(* Instances of AgentSession for TLC.  The symmetry is used by the runs that *)
(* check safety properties only.                                             *)
EXTENDS AgentSession, TLC

Symmetry == Permutations(Agents) \cup Permutations(Mems) \cup Permutations(Tasks)

=============================================================================
