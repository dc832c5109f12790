------------------------------ MODULE Ranking ------------------------------
(***************************************************************************)
(* Finite sets in an order, and sequences of which some places are left out. *)
(* The n-th element of a set is the one that n - 1 others come before: unlike  *)
(* a sort or a filter by recursion this can be reasoned about.                *)
(***************************************************************************)
EXTENDS Naturals, FiniteSets

(* The elements of K before k in the order R, a set of pairs.                *)
Before(K, R, k) == {j \in K : <<j, k>> \in R}

Ranked(K, R) ==
    [n \in 1..Cardinality(K) |-> CHOOSE k \in K : Cardinality(Before(K, R, k)) = n - 1]

Ascending(K) == {p \in K \X K : p[1] < p[2]}
Descending(K) == {p \in K \X K : p[1] > p[2]}

(* What a sequence has at the places in K.                                   *)
Only(s, K) ==
    LET places == Ranked(K, Ascending(K))
    IN  [n \in DOMAIN places |-> s[places[n]]]

=============================================================================
