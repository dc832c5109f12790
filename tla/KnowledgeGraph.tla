--------------------------- MODULE KnowledgeGraph ---------------------------
(***************************************************************************)
(* What KnowledgeGraphStore (umms-core/src/traits.rs) promises of the L3   *)
(* graph, whichever backend keeps it: every operation is one step, a       *)
(* deletion takes the incident edges along, and a merge redirects the      *)
(* absorbed node's edges and loses nothing but self-loops and duplicates.  *)
(***************************************************************************)
EXTENDS Naturals

CONSTANTS
    Agents,
    Shared,         \* the owner of what belongs to nobody: agent_id = None
    Nodes,          \* node ids that can be given out
    NoNode,
    MaxEdges,       \* edge ids are given out in the order of insertion
    NoEdge,
    Relations,
    Keys,           \* property keys
    MaxWeight

ASSUME KnowledgeGraphAssumption ==
    /\ Shared \notin Agents
    /\ MaxEdges \in Nat /\ MaxWeight \in Nat \ {0}

VARIABLES
    nodes,          \* nodes[n]: the row of node n
    edges           \* edges[e]: the row of edge e

graph == <<nodes, edges>>

Edges == 1..MaxEdges
Owners == Agents \cup {Shared}

(* imp: importance in halves.  props[k]: the node whose value of k it has.  *)
NodeRow == [agent : Owners, imp : {1, 2}, props : [Keys -> Nodes \cup {NoNode}]]
EdgeRow == [src : Nodes, tgt : Nodes, rel : Relations, weight : 1..MaxWeight, agent : Owners]

ASSUME NoRows == NoNode \notin NodeRow \cup Nodes /\ NoEdge \notin EdgeRow

GraphTypeOK ==
    /\ nodes \in [Nodes -> NodeRow \cup {NoNode}]
    /\ edges \in [Edges -> EdgeRow \cup {NoEdge}]

Live(E) == {e \in Edges : E[e] # NoEdge}
Incident(E, n) == {e \in Live(E) : n \in {E[e].src, E[e].tgt}}
Without(E, S) == [e \in Edges |-> IF e \in S THEN NoEdge ELSE E[e]]

(* agent_id = ?2 OR agent_id IS NULL                                        *)
Sees(a, owner) == owner \in {a, Shared}

IsLoop(r) == r.src = r.tgt
Triple(r) == <<r.src, r.tgt, r.rel>>

Redirect(r, s, a) ==
    [r EXCEPT !.src = IF @ = a THEN s ELSE @, !.tgt = IF @ = a THEN s ELSE @]

(* F is what the edges E may be after a has been merged into s.             *)
MergedEdges(E, F, s, a) ==
    /\ F = [e \in Edges |-> F[e]]
    /\ \A e \in Live(F) : e \in Live(E) /\ F[e] = Redirect(E[e], s, a)
    /\ \A e \in Live(E) :
          LET r == Redirect(E[e], s, a)
          IN  ~IsLoop(r) => \E f \in Live(F) : Triple(F[f]) = Triple(r)

----------------------------------------------------------------------------
(* The operations.                                                          *)

AddNode(n) ==
    /\ nodes[n] = NoNode
    /\ nodes'[n] \in NodeRow
    /\ nodes' = [nodes EXCEPT ![n] = nodes'[n]]
    /\ UNCHANGED edges

AddEdge(e) ==
    /\ edges[e] = NoEdge
    /\ edges'[e] \in EdgeRow
    /\ edges' = [edges EXCEPT ![e] = edges'[e]]
    /\ UNCHANGED nodes

DeleteNode(n) ==
    /\ nodes' = [nodes EXCEPT ![n] = NoNode]
    /\ edges' = Without(edges, Incident(edges, n))

(* delete_edge, and what an interrupted deletion or clear leaves.           *)
DeleteEdges ==
    /\ \E S \in SUBSET Edges : edges' = Without(edges, S)
    /\ UNCHANGED nodes

UpdateNode(n) ==
    /\ nodes[n] # NoNode
    /\ \E i \in {1, 2} : nodes' = [nodes EXCEPT ![n].imp = i]
    /\ UNCHANGED edges

MergeNodes(s, a) ==
    /\ \E p \in [Keys -> Nodes \cup {NoNode}] :
          nodes' = [n \in Nodes |-> IF n = a THEN NoNode
                                    ELSE IF n = s /\ nodes[n] # NoNode
                                         THEN [nodes[n] EXCEPT !.props = p]
                                         ELSE nodes[n]]
    /\ MergedEdges(edges, edges', s, a)

UpdateWeights ==
    /\ \E w \in [Edges -> 0..MaxWeight] :
          edges' = [e \in Edges |-> IF edges[e] = NoEdge \/ w[e] = 0 THEN edges[e]
                                    ELSE [edges[e] EXCEPT !.weight = w[e]]]
    /\ UNCHANGED nodes

Clear ==
    /\ nodes' = [n \in Nodes |-> NoNode]
    /\ edges' = Without(edges, Edges)

(* The graph is the one an earlier run of the process has left.             *)
GraphInit == GraphTypeOK

GraphNext ==
    \/ \E n \in Nodes : AddNode(n) \/ DeleteNode(n) \/ UpdateNode(n)
    \/ \E e \in Edges : AddEdge(e)
    \/ \E s, a \in Nodes : s # a /\ MergeNodes(s, a)
    \/ DeleteEdges \/ UpdateWeights \/ Clear

GraphSpec == GraphInit /\ [][GraphNext]_graph

----------------------------------------------------------------------------
(* Two ids are linked when no set of ids that no edge leaves keeps them     *)
(* apart: the edges, read in both directions, lead from one to the other.   *)

Closed(E, S) == \A e \in Live(E) : E[e].src \in S <=> E[e].tgt \in S
Linked(E, n, m) == \A S \in SUBSET Nodes : Closed(E, S) /\ n \in S => m \in S

Around(E, a) == Without(E, Incident(E, a))

(* A merge keeps linked what was linked, and by paths that avoid the absorbed *)
(* node: every edge of it is redirected, and removing self-loops and          *)
(* duplicates cuts nothing (KnowledgeGraphStore::merge_nodes).              *)
MergeKeepsLinks ==
    [][graph' # graph => \A s, a \in Nodes : s # a /\ MergeNodes(s, a) =>
          \A n, m \in Nodes \ {a} : Linked(edges, n, m) => Linked(Around(edges', a), n, m)]_graph

============================================================================
