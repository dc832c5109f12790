---------------------------- MODULE MCRetrieval ----------------------------
EXTENDS Retrieval, TLC

CONSTANTS a1, a2

(* One memory of the demo data: the first one of an agent is shared.          *)
OneShared == {[agent |-> a1, scope |-> Shared]}

(* Nothing, or a document of three chunks that a1 shared.  The first and the   *)
(* last are both linked with the middle one.                                 *)
NoneOrOne == LET row == [agent |-> a1, scope |-> Shared] IN {<<>>, <<row, row, row>>}

TaskSymmetry == Permutations(Tasks)

=============================================================================
