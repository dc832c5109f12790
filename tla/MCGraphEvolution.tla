------------------------- MODULE MCGraphEvolution -------------------------
EXTENDS GraphEvolution

CONSTANTS n1, n2, n3, n4, a, b

(* The labels of n1 are similar enough to those of any other node.           *)
SomeAlike == {p \in Nodes \X Nodes : n1 \in {p[1], p[2]}}

OneLink == {<<1, 2>>}

Knows(n) == [k \in Keys |-> n]

(* Two linked nodes of the demo seed, the first of which has absorbed a chunk *)
(* of a that was linked with another one of a.                              *)
Absorbed ==
    [nodes |-> [n \in Nodes |->
        CASE n = n1 -> [agent |-> Shared, imp |-> 2, props |-> Knows(n1)]
          [] n = n2 -> [agent |-> a, imp |-> 1, props |-> Knows(n2)]
          [] n = n3 -> [agent |-> Shared, imp |-> 2, props |-> Knows(NoNode)]
          [] OTHER -> NoNode],
     edges |-> [e \in Edges |->
        CASE e = 1 -> [src |-> n2, tgt |-> n1, rel |-> "shares_tag", weight |-> 1, agent |-> a]
          [] e = 2 -> [src |-> n3, tgt |-> n1, rel |-> "seeded", weight |-> 2, agent |-> Shared]
          [] OTHER -> NoEdge]]

Empty == [nodes |-> [n \in Nodes |-> NoNode], edges |-> [e \in Edges |-> NoEdge]]

EmptyOrAbsorbed == {Empty, Absorbed}

============================================================================
