---------------------------- MODULE SqliteGraph ----------------------------
(***************************************************************************)
(* SqliteGraphStore (umms-storage/src/graph/sqlite_store.rs).  A method    *)
(* holds the connection's mutex from its first statement to its last, so   *)
(* it is one step.  Merging and weights run in a transaction; a deletion   *)
(* is two statements without one, and the second may fail.                 *)
(***************************************************************************)
EXTENDS KnowledgeGraph

(* INSERT OR REPLACE: the id is the key.                                    *)
SqlPutNode(n, row) == nodes' = [nodes EXCEPT ![n] = row] /\ UNCHANGED edges

(* source_id and target_id reference kg_nodes(id), and the bundled library    *)
(* enforces it: an edge whose end does not exist is an error.               *)
SqlMayLink(src, tgt) == nodes[src] # NoNode /\ nodes[tgt] # NoNode
SqlPutEdge(e, row) ==
    /\ SqlMayLink(row.src, row.tgt)
    /\ edges' = [edges EXCEPT ![e] = row]
    /\ UNCHANGED nodes

(* SELECT MIN(rowid) ... GROUP BY source_id, target_id, relation, over the   *)
(* whole table, then DELETE ... WHERE source_id = target_id.                *)
SqlDeduplicated(E) ==
    Without(E, {e \in Live(E) : \/ IsLoop(E[e])
                                \/ \E f \in Live(E) : f < e /\ Triple(E[f]) = Triple(E[e])})

SqlRedirected(E, s, a) ==
    [e \in Edges |-> IF E[e] = NoEdge THEN NoEdge ELSE Redirect(E[e], s, a)]

(* Mutant: the references are not enforced.                                 *)
SqlMergesAnyway(s, a) == s \in Nodes /\ a \in Nodes

(* Edges cannot be redirected to a surviving node that does not exist: the   *)
(* transaction is rolled back.  With none to redirect, its update matches no *)
(* row and the absorbed node is deleted all the same.                       *)
SqlMayMerge(s, a) == nodes[s] # NoNode \/ Incident(edges, a) = {}

SqlMerge(s, a, props) ==
    /\ SqlMayMerge(s, a)
    /\ edges' = SqlDeduplicated(SqlRedirected(edges, s, a))
    /\ nodes' = [n \in Nodes |-> IF n = a THEN NoNode
                                 ELSE IF n = s /\ nodes[n] # NoNode
                                      THEN [nodes[n] EXCEPT !.props = props]
                                      ELSE nodes[n]]

SqlDelete(n) ==
    /\ edges' = Without(edges, Incident(edges, n))
    /\ nodes' = [nodes EXCEPT ![n] = NoNode]

SqlDeleteFails(n) ==
    /\ edges' = Without(edges, Incident(edges, n))
    /\ UNCHANGED nodes

(* An update of a row that does not exist changes nothing and returns Ok.   *)
SqlUpdate(n, imp) ==
    /\ nodes' = [nodes EXCEPT ![n] = IF @ = NoNode THEN @ ELSE [@ EXCEPT !.imp = imp]]
    /\ UNCHANGED edges

(* w[e] = 0: no update of e in the batch.                                   *)
SqlSetWeights(w) ==
    /\ edges' = [e \in Edges |-> IF w[e] = 0 \/ edges[e] = NoEdge THEN edges[e]
                                 ELSE [edges[e] EXCEPT !.weight = w[e]]]
    /\ UNCHANGED nodes

SqlClear ==
    /\ edges' = Without(edges, Edges)
    /\ nodes' = [n \in Nodes |-> NoNode]

SqlClearFails ==
    /\ edges' = Without(edges, Edges)
    /\ UNCHANGED nodes

(* traverse(): breadth first, one level at a time, along the edges the       *)
(* agent sees.  The start is taken unseen; any other node must be loaded     *)
(* under the agent's scope to be visited and to be gone on from.            *)
Beyond(E, S, a) ==
    {m \in Nodes : \E e \in Live(E) : /\ Sees(a, E[e].agent)
                                      /\ \/ E[e].src \in S /\ E[e].tgt = m
                                         \/ E[e].tgt \in S /\ E[e].src = m}

Loadable(N, a) == {n \in Nodes : N[n] # NoNode /\ Sees(a, N[n].agent)}

SqlNextLevel(N, E, last, a) ==
    LET new == Beyond(E, last.frontier, a) \ last.visited
    IN  [visited |-> last.visited \cup new, frontier |-> new \cap Loadable(N, a)]

SqlLevels(N, E, start, hops, a) ==
    LET level[d \in 0..hops] ==
          IF d = 0 THEN [visited |-> {start}, frontier |-> {start}]
          ELSE SqlNextLevel(N, E, level[d - 1], a)
    IN  level

SqlTraverse(N, E, start, hops, a) ==
    {n \in {start} : N[n] # NoNode}
        \cup UNION {SqlLevels(N, E, start, hops, a)[d].frontier : d \in 1..hops}

(* The edges it returns: those of every node it goes on from.               *)
SqlTraversed(N, E, start, hops, a) ==
    LET from == UNION {SqlLevels(N, E, start, hops, a)[d].frontier : d \in 0..(hops - 1)}
    IN  {e \in Live(E) : Sees(a, E[e].agent) /\ {E[e].src, E[e].tgt} \cap from # {}}

(* find_similar_node_pairs(): pairs of nodes the agent sees.                *)
SqlSimilar(N, a, alike) ==
    {p \in Loadable(N, a) \X Loadable(N, a) : p[1] # p[2] /\ p \in alike}

============================================================================
