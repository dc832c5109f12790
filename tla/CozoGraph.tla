----------------------------- MODULE CozoGraph -----------------------------
(***************************************************************************)
(* CozoGraphStore (umms-storage/src/graph/cozo_store.rs).  There is no lock *)
(* and no transaction around a method: every run_script is a step of its    *)
(* own, and a method works on what its earlier scripts have read.           *)
(***************************************************************************)
EXTENDS KnowledgeGraph

CONSTANT Tasks      \* concurrent callers

VARIABLE
    call            \* call[t]: the store method t is in

cozoVars == <<nodes, edges, call>>

(* s, a: the nodes it is about.  props, weights: its arguments.  saved: edge  *)
(* rows read.  seen: triples present.  row: the node row read.                *)
NoCall == [pc |-> "none", s |-> NoNode, a |-> NoNode, props |-> [k \in Keys |-> NoNode],
           weights |-> [e \in Edges |-> 0], saved |-> [e \in Edges |-> NoEdge],
           seen |-> {}, row |-> NoNode]

CallPhases == {"none", "mergeRead", "mergeRemove", "mergeSeen", "mergePut", "propsRead",
               "propsPut", "mergeDrop", "deleteEdges", "deleteNode", "updateRead", "updatePut",
               "weightRead", "weightPut", "clearEdges", "clearNodes"}

CallType == [pc : CallPhases, s : Nodes \cup {NoNode}, a : Nodes \cup {NoNode},
             props : [Keys -> Nodes \cup {NoNode}], weights : [Edges -> 0..MaxWeight],
             saved : [Edges -> EdgeRow \cup {NoEdge}],
             seen : SUBSET (Nodes \X Nodes \X Relations), row : NodeRow \cup {NoNode}]

Busy(t) == call[t].pc # "none"
Goto(t, phase) == call' = [call EXCEPT ![t].pc = phase]
Return(t) == call' = [call EXCEPT ![t] = NoCall]

----------------------------------------------------------------------------
(* Methods of one script: add_node, add_edge, nodes_for_agent, edges_of and   *)
(* find_similar_node_pairs.                                                 *)

CozoPutNode(n, row) == nodes' = [nodes EXCEPT ![n] = row] /\ UNCHANGED edges
CozoPutEdge(e, row) == edges' = [edges EXCEPT ![e] = row] /\ UNCHANGED nodes
CozoVisible(N, a) == {n \in Nodes : N[n] # NoNode /\ Sees(a, N[n].agent)}
CozoEdgesOf(E, n) == {e \in Live(E) : E[e].src = n} \cup {e \in Live(E) : E[e].tgt = n}
CozoSimilar(N, a, alike) == {p \in alike : p[1] # p[2] /\ {p[1], p[2]} \subseteq CozoVisible(N, a)}

----------------------------------------------------------------------------
(* merge_nodes.                                                             *)

MergeCall(s, a, props) == [NoCall EXCEPT !.pc = "mergeRead", !.s = s, !.a = a, !.props = props]

MergeRead(t) ==
    /\ call[t].pc = "mergeRead"
    /\ call' = [call EXCEPT ![t].pc = "mergeRemove",
                   ![t].saved = Without(edges, Live(edges) \ Incident(edges, call[t].a))]
    /\ UNCHANGED graph

MergeRemove(t) ==
    /\ call[t].pc = "mergeRemove"
    /\ edges' = Without(edges, Incident(edges, call[t].a))
    /\ Goto(t, "mergeSeen")
    /\ UNCHANGED nodes

MergeSeen(t) ==
    /\ call[t].pc = "mergeSeen"
    /\ call' = [call EXCEPT ![t].pc = "mergePut",
                   ![t].seen = {Triple(edges[e]) : e \in Incident(edges, call[t].s)}]
    /\ UNCHANGED graph

(* Mutant: the target is not redirected when the edge is put back.          *)
MergePutSources(t) ==
    /\ call[t].pc = "mergePut"
    /\ \E e \in Live(call[t].saved) :
          LET r == [call[t].saved[e] EXCEPT !.src = IF @ = call[t].a THEN call[t].s ELSE @]
          IN  /\ call' = [call EXCEPT ![t].saved[e] = NoEdge, ![t].seen = @ \cup {Triple(r)}]
              /\ edges' = [edges EXCEPT ![e] = r]
    /\ UNCHANGED nodes

(* One saved edge, in the order of the ids: redirected, it is put back       *)
(* unless it is a self-loop or its triple is there already.                  *)
MergePut(t) ==
    /\ call[t].pc = "mergePut"
    /\ \E e \in Live(call[t].saved) :
          LET r == Redirect(call[t].saved[e], call[t].s, call[t].a)
          IN  /\ call' = [call EXCEPT ![t].saved[e] = NoEdge,
                             ![t].seen = IF IsLoop(r) THEN @ ELSE @ \cup {Triple(r)}]
              /\ edges' = IF IsLoop(r) \/ Triple(r) \in call[t].seen THEN edges
                          ELSE [edges EXCEPT ![e] = r]
    /\ UNCHANGED nodes

MergePutDone(t) ==
    /\ call[t].pc = "mergePut"
    /\ Live(call[t].saved) = {}
    /\ Goto(t, "propsRead")
    /\ UNCHANGED graph

PropsRead(t) ==
    /\ call[t].pc = "propsRead"
    /\ call' = [call EXCEPT ![t].row = nodes[call[t].s],
                   ![t].pc = IF nodes[call[t].s] = NoNode THEN "mergeDrop" ELSE "propsPut"]
    /\ UNCHANGED graph

PropsPut(t) ==
    /\ call[t].pc = "propsPut"
    /\ nodes' = [nodes EXCEPT ![call[t].s] = [call[t].row EXCEPT !.props = call[t].props]]
    /\ Goto(t, "mergeDrop")
    /\ UNCHANGED edges

MergeDrop(t) ==
    /\ call[t].pc = "mergeDrop"
    /\ nodes' = [nodes EXCEPT ![call[t].a] = NoNode]
    /\ Return(t)
    /\ UNCHANGED edges

----------------------------------------------------------------------------
(* delete_node, update_node, clear(None).                                   *)

DeleteCall(n) == [NoCall EXCEPT !.pc = "deleteEdges", !.a = n]

RemoveIncident(t) ==
    /\ call[t].pc = "deleteEdges"
    /\ edges' = Without(edges, Incident(edges, call[t].a))
    /\ Goto(t, "deleteNode")
    /\ UNCHANGED nodes

RemoveNode(t) ==
    /\ call[t].pc = "deleteNode"
    /\ nodes' = [nodes EXCEPT ![call[t].a] = NoNode]
    /\ Return(t)
    /\ UNCHANGED edges

UpdateCall(n) == [NoCall EXCEPT !.pc = "updateRead", !.s = n]

(* A row that does not exist is an error.                                   *)
UpdateRead(t) ==
    /\ call[t].pc = "updateRead"
    /\ LET row == nodes[call[t].s]
       IN  call' = [call EXCEPT ![t] = IF row = NoNode THEN NoCall
                                       ELSE [@ EXCEPT !.pc = "updatePut", !.row = row]]
    /\ UNCHANGED graph

UpdatePut(t, imp) ==
    /\ call[t].pc = "updatePut"
    /\ nodes' = [nodes EXCEPT ![call[t].s] = [call[t].row EXCEPT !.imp = imp]]
    /\ Return(t)
    /\ UNCHANGED edges

ClearCall == [NoCall EXCEPT !.pc = "clearEdges"]

ClearEdges(t) ==
    /\ call[t].pc = "clearEdges"
    /\ edges' = Without(edges, Edges)
    /\ Goto(t, "clearNodes")
    /\ UNCHANGED nodes

ClearNodes(t) ==
    /\ call[t].pc = "clearNodes"
    /\ nodes' = [n \in Nodes |-> NoNode]
    /\ Return(t)
    /\ UNCHANGED edges

----------------------------------------------------------------------------
(* batch_update_edge_weights: per update a read of the row and a put of it.  *)

WeightsCall(w) == [NoCall EXCEPT !.pc = "weightRead", !.weights = w]

Updates(t) == {e \in Edges : call[t].weights[e] # 0}

WeightRead(t) ==
    /\ call[t].pc = "weightRead"
    /\ \E e \in Updates(t) :
          call' = [call EXCEPT ![t] =
                      IF edges[e] = NoEdge THEN [@ EXCEPT !.weights[e] = 0]
                      ELSE [@ EXCEPT !.pc = "weightPut", !.saved[e] = edges[e]]]
    /\ UNCHANGED graph

WeightPut(t) ==
    /\ call[t].pc = "weightPut"
    /\ \E e \in Live(call[t].saved) :
          /\ edges' = [edges EXCEPT ![e] = [call[t].saved[e] EXCEPT !.weight = call[t].weights[e]]]
          /\ call' = [call EXCEPT ![t].pc = "weightRead", ![t].saved[e] = NoEdge,
                                  ![t].weights[e] = 0]
    /\ UNCHANGED nodes

WeightsDone(t) ==
    /\ call[t].pc = "weightRead"
    /\ Updates(t) = {}
    /\ Return(t)
    /\ UNCHANGED graph

----------------------------------------------------------------------------
(* A script fails: the method returns the error, and what its earlier        *)
(* scripts have done stays done.                                            *)
ScriptFails(t) ==
    /\ Busy(t)
    /\ Return(t)
    /\ UNCHANGED graph

CozoStep(t) ==
    \/ MergeRead(t) \/ MergeRemove(t) \/ MergeSeen(t) \/ MergePut(t) \/ MergePutDone(t)
    \/ PropsRead(t) \/ PropsPut(t) \/ MergeDrop(t)
    \/ RemoveIncident(t) \/ RemoveNode(t)
    \/ UpdateRead(t) \/ \E imp \in {1, 2} : UpdatePut(t, imp)
    \/ ClearEdges(t) \/ ClearNodes(t)
    \/ WeightRead(t) \/ WeightPut(t) \/ WeightsDone(t)

(* traverse(): at most two edges away, whatever max_hops says, along edges    *)
(* the agent sees and through any node; the rows returned are those the       *)
(* agent sees, the edges all between them.                                   *)

(* Mutant: the second rule, for edges that end in S, is left out.           *)
CozoBeyondForward(E, S, a) ==
    {m \in Nodes : \E e \in Live(E) : Sees(a, E[e].agent) /\ E[e].src \in S /\ E[e].tgt = m}

CozoBeyond(E, S, a) ==
    {m \in Nodes : \E e \in Live(E) : /\ Sees(a, E[e].agent)
                                      /\ \/ E[e].src \in S /\ E[e].tgt = m
                                         \/ E[e].tgt \in S /\ E[e].src = m}

CozoTraverse(N, E, start, hops, a) ==
    LET one == CozoBeyond(E, {start}, a)
        two == CozoBeyond(E, one, a)
        reachable == {start} \cup (IF hops >= 1 THEN one ELSE {})
                             \cup (IF hops >= 2 THEN two ELSE {})
    IN  reachable \cap CozoVisible(N, a)

CozoTraversed(E, found) == {e \in Live(E) : {E[e].src, E[e].tgt} \subseteq found}

============================================================================
