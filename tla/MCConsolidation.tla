-------------------------- MODULE MCConsolidation --------------------------
(* Instances of Consolidation for TLC.                                       *)
EXTENDS Consolidation, TLC

CONSTANT Mute       \* a fact whose memory has no vector

(* The other facts are about one topic.                                      *)
SameTopic == (SUBSET (Facts \ {Mute})) \X (SUBSET (Facts \ {Mute}))

AgentSymmetry == Permutations(Facts \ {Mute}) \cup Permutations(Agents) \cup Permutations(Tasks)

=============================================================================
