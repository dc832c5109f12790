------------------------ MODULE GraphEvolutionProofs ------------------------
(* Proofs about KnowledgeGraph and GraphEvolution.                           *)
(*   GraphTyped, LinksSurviveMerges: what the promise of a merge gives.  A   *)
(*     set of ids that no edge of the merged graph leaves, widened by the    *)
(*     absorbed id when it holds the surviving one, is one that no edge of   *)
(*     the original graph leaves; so merging cuts no path.                   *)
(*   GraphEvolutionTyped: types, from TypeInv.                               *)
(*   StoresImplementGraph: both backends keep the promise, from AloneInv.    *)
(*   PassesOwnTheirNodes: passes keep to the nodes of their agent, from      *)
(*     OwnInv.                                                               *)
(*   TraversalsFindPaths: both traversals return the ends of paths.          *)
(*   LinksStayAnchored: SQLite's edges join nodes that exist.                *)
EXTENDS GraphEvolution, FiniteSetTheorems, TLAPS

LEMMA WithoutType ==
    ASSUME NEW E \in [Edges -> EdgeRow \cup {NoEdge}], NEW S
    PROVE  Without(E, S) \in [Edges -> EdgeRow \cup {NoEdge}]
  BY DEF Without

LEMMA RedirectType ==
    ASSUME NEW r \in EdgeRow, NEW s \in Nodes, NEW a
    PROVE  /\ Redirect(r, s, a) \in EdgeRow
           /\ Redirect(r, s, a).src = IF r.src = a THEN s ELSE r.src
           /\ Redirect(r, s, a).tgt = IF r.tgt = a THEN s ELSE r.tgt
  BY DEF Redirect, EdgeRow

LEMMA MergedType ==
    ASSUME NEW E \in [Edges -> EdgeRow \cup {NoEdge}], NEW F,
           NEW s \in Nodes, NEW a, MergedEdges(E, F, s, a)
    PROVE  F \in [Edges -> EdgeRow \cup {NoEdge}]
  <1>1. ASSUME NEW e \in Edges PROVE F[e] \in EdgeRow \cup {NoEdge}
    <2>1. CASE F[e] = NoEdge
      BY <2>1
    <2>2. CASE F[e] # NoEdge
      <3>1. e \in Live(E) /\ F[e] = Redirect(E[e], s, a)
        BY <2>2 DEF MergedEdges, Live
      <3>2. E[e] \in EdgeRow
        BY <3>1 DEF Live
      <3> QED BY <3>1, <3>2, RedirectType
    <2> QED BY <2>1, <2>2
  <1> QED BY <1>1 DEF MergedEdges

(* Every operation of the store keeps the rows well-formed.                  *)
LEMMA GraphTypeStep == GraphTypeOK /\ [GraphNext]_graph => GraphTypeOK'
  <1> SUFFICES ASSUME GraphTypeOK, [GraphNext]_graph PROVE GraphTypeOK'
    OBVIOUS
  <1> USE DEF GraphTypeOK
  <1>1. ASSUME NEW n \in Nodes, AddNode(n) PROVE GraphTypeOK'
    BY <1>1 DEF AddNode
  <1>2. ASSUME NEW n \in Nodes, DeleteNode(n) PROVE GraphTypeOK'
    BY <1>2, WithoutType DEF DeleteNode
  <1>3. ASSUME NEW n \in Nodes, UpdateNode(n) PROVE GraphTypeOK'
    <2>1. PICK i \in {1, 2} : nodes' = [nodes EXCEPT ![n].imp = i]
      BY <1>3 DEF UpdateNode
    <2>2. [nodes[n] EXCEPT !.imp = i] \in NodeRow
      BY <1>3 DEF UpdateNode, NodeRow
    <2> QED BY <1>3, <2>1, <2>2 DEF UpdateNode
  <1>4. ASSUME NEW e \in Edges, AddEdge(e) PROVE GraphTypeOK'
    BY <1>4 DEF AddEdge
  <1>5. ASSUME NEW s \in Nodes, NEW a \in Nodes, MergeNodes(s, a) PROVE GraphTypeOK'
    <2>1. edges' \in [Edges -> EdgeRow \cup {NoEdge}]
      BY <1>5, MergedType DEF MergeNodes
    <2>2. PICK p \in [Keys -> Nodes \cup {NoNode}] :
             nodes' = [n \in Nodes |-> IF n = a THEN NoNode
                                       ELSE IF n = s /\ nodes[n] # NoNode
                                            THEN [nodes[n] EXCEPT !.props = p]
                                            ELSE nodes[n]]
      BY <1>5 DEF MergeNodes
    <2>3. \A n \in Nodes : nodes[n] # NoNode => [nodes[n] EXCEPT !.props = p] \in NodeRow
      BY DEF NodeRow
    <2> QED BY <2>1, <2>2, <2>3
  <1>6. CASE DeleteEdges
    BY <1>6, WithoutType DEF DeleteEdges
  <1>7. CASE UpdateWeights
    <2>1. PICK w \in [Edges -> 0..MaxWeight] :
             edges' = [e \in Edges |-> IF edges[e] = NoEdge \/ w[e] = 0 THEN edges[e]
                                       ELSE [edges[e] EXCEPT !.weight = w[e]]]
      BY <1>7 DEF UpdateWeights
    <2>2. ASSUME NEW e \in Edges, edges[e] # NoEdge, w[e] # 0
          PROVE  [edges[e] EXCEPT !.weight = w[e]] \in EdgeRow
      <3>1. w[e] \in 1..MaxWeight
        BY <2>2, KnowledgeGraphAssumption
      <3>2. edges[e] \in EdgeRow
        BY <2>2
      <3> QED BY <3>1, <3>2 DEF EdgeRow
    <2> QED BY <1>7, <2>1, <2>2 DEF UpdateWeights
  <1>8. CASE Clear
    BY <1>8, WithoutType DEF Clear
  <1>9. CASE UNCHANGED graph
    BY <1>9 DEF graph
  <1> QED BY <1>1, <1>2, <1>3, <1>4, <1>5, <1>6, <1>7, <1>8, <1>9 DEF GraphNext

(* Whatever is done to the graph, its rows stay well-formed: a row is a       *)
(* complete node or edge, or there is none (KnowledgeGraphStore).           *)
THEOREM GraphTyped == GraphSpec => []GraphTypeOK
  BY GraphTypeStep, PTL DEF GraphSpec, GraphInit

LEMMA MergeKeepsLink ==
    ASSUME NEW E \in [Edges -> EdgeRow \cup {NoEdge}], NEW F,
           NEW s \in Nodes, NEW a \in Nodes, s # a, MergedEdges(E, F, s, a),
           NEW n \in Nodes \ {a}, NEW m \in Nodes \ {a}, Linked(E, n, m)
    PROVE  Linked(Around(F, a), n, m)
  <1> SUFFICES ASSUME NEW T \in SUBSET Nodes, Closed(Around(F, a), T), n \in T
               PROVE  m \in T
    BY DEF Linked
  <1> DEFINE S == IF s \in T THEN T \cup {a} ELSE T \ {a}
  <1>1. \A x \in Nodes : x \in S <=> (IF x = a THEN s ELSE x) \in T
    OBVIOUS
  <1>2. Closed(E, S)
    <2> SUFFICES ASSUME NEW e \in Live(E) PROVE E[e].src \in S <=> E[e].tgt \in S
      BY DEF Closed
    <2> DEFINE r == Redirect(E[e], s, a)
    <2>1. E[e] \in EdgeRow
      BY DEF Live
    <2>2. E[e].src \in Nodes /\ E[e].tgt \in Nodes
      BY <2>1 DEF EdgeRow
    <2>3. /\ E[e].src \in S <=> r.src \in T
          /\ E[e].tgt \in S <=> r.tgt \in T
      BY <1>1, <2>1, <2>2, RedirectType
    <2>4. CASE IsLoop(r)
      BY <2>3, <2>4 DEF IsLoop
    <2>5. CASE ~IsLoop(r)
      <3>1. PICK f \in Live(F) : Triple(F[f]) = Triple(r)
        BY <2>5 DEF MergedEdges
      <3>2. F[f].src = r.src /\ F[f].tgt = r.tgt
        BY <3>1 DEF Triple
      <3>3. r.src # a /\ r.tgt # a
        BY <2>1, RedirectType
      <3>4. f \in Live(Around(F, a)) /\ Around(F, a)[f] = F[f]
        BY <3>1, <3>2, <3>3 DEF Around, Without, Incident, Live
      <3> QED BY <2>3, <3>2, <3>4 DEF Closed
    <2> QED BY <2>4, <2>5
  <1>3. n \in S
    BY <1>1
  <1>4. S \in SUBSET Nodes
    OBVIOUS
  <1>5. m \in S
    BY <1>2, <1>3, <1>4 DEF Linked
  <1> QED BY <1>1, <1>5

(* In every graph and for every pair, a merge leaves linked what was linked.  *)
THEOREM LinksSurviveMerges == GraphSpec => MergeKeepsLinks
  <1>1. ASSUME GraphTypeOK,
               NEW s \in Nodes, NEW a \in Nodes, s # a, MergeNodes(s, a),
               NEW n \in Nodes \ {a}, NEW m \in Nodes \ {a}, Linked(edges, n, m)
        PROVE  Linked(Around(edges', a), n, m)
    BY <1>1, MergeKeepsLink DEF GraphTypeOK, MergeNodes
  <1>2. GraphTypeOK =>
           [graph' # graph => \A s, a \in Nodes : s # a /\ MergeNodes(s, a) =>
               \A n, m \in Nodes \ {a} : Linked(edges, n, m) => Linked(Around(edges', a), n, m)]_graph
    BY <1>1
  <1> QED BY <1>2, GraphTyped, PTL DEF MergeKeepsLinks

----------------------------------------------------------------------------
(* GraphEvolution: types.                                                    *)

Merging == {"mergeRead", "mergeRemove", "mergeSeen", "mergePut", "propsRead", "propsPut", "mergeDrop"}
Weighing == {"weightRead", "weightPut"}

(* A method that sets weights holds the one edge it has read, if any.         *)
Reweighs(c) ==
    /\ c.pc = "weightRead" => Live(c.saved) = {}
    /\ c.pc = "weightPut" => \E e \in Edges : c.weights[e] # 0 /\ Live(c.saved) = {e}

(* The method a caller is in is one its work calls for, on nodes there may be. *)
CallFits(t) ==
    /\ Busy(t) => backend = "cozo" /\ pass[t].pc \in {"merge", "weigh", "seedNodes", "client"}
    /\ call[t].pc \in Merging => /\ pass[t].pc = "merge"
                                 /\ call[t].s \in Nodes /\ call[t].a \in Nodes /\ call[t].s # call[t].a
    /\ Busy(t) /\ pass[t].pc = "merge" => call[t].pc \in Merging /\ pass[t].count > 0
    /\ Busy(t) /\ pass[t].pc = "weigh" => call[t].pc \in Weighing
    /\ call[t].pc \in {"deleteEdges", "deleteNode"} => call[t].a \in Nodes
    /\ call[t].pc \in {"updateRead", "updatePut"} => call[t].s \in Nodes
    /\ call[t].pc \in {"propsPut", "updatePut"} => call[t].row # NoNode
    /\ Reweighs(call[t])

(* No pair is a node with itself; who makes nodes or links works for somebody, *)
(* and a link joins nodes that were tried.                                   *)
PassFits(t) ==
    /\ \A p \in pass[t].pairs : p[1] # p[2]
    /\ pass[t].pc \in {"nodes", "links", "seedNodes"} => pass[t].owner \in Owners
    /\ pass[t].pc = "links" =>
          \A l \in pass[t].links : l[1] \in 1..Len(pass[t].ids) /\ l[2] \in 1..Len(pass[t].ids)

(* What is in the store or on its way there has an id that was given out.     *)
IdsFit(t) ==
    /\ Live(call[t].saved) \subseteq 1..linked
    /\ {call[t].s, call[t].a} \ {NoNode} \subseteq minted
    /\ \A p \in pass[t].pairs : {p[1], p[2]} \subseteq minted

StoreFits ==
    /\ \A n \in Nodes : nodes[n] # NoNode => n \in minted
    /\ Live(edges) \subseteq 1..linked

WorkFits(t) == CallFits(t) /\ PassFits(t) /\ IdsFit(t)

TypeInv == TypeOK /\ StoreFits /\ \A t \in Tasks : WorkFits(t)

(* Alone, one CozoDB method runs at a time, and this is what it has done of   *)
(* its work on the graph it began with.                                      *)
RestoredTo(E, F, saved, seen, s, a) ==
    /\ \A e \in Live(F) : e \in Live(E) /\ F[e] = Redirect(E[e], s, a)
    /\ \A e \in Live(saved) : e \in Live(E) /\ e \notin Live(F) /\ saved[e] = E[e]
    /\ \A e \in Live(E) \ Live(saved) :
          LET r == Redirect(E[e], s, a)
          IN  ~IsLoop(r) => \E f \in Live(F) : Triple(F[f]) = Triple(r)
    /\ \A x \in seen : \E f \in Live(F) : Triple(F[f]) = x

Restored(t) ==
    RestoredTo(before.edges, edges, call[t].saved, call[t].seen, call[t].s, call[t].a)

Reweighted(E, F) ==
    \E w \in [Edges -> 0..MaxWeight] :
       F = [e \in Edges |-> IF E[e] = NoEdge \/ w[e] = 0 THEN E[e] ELSE [E[e] EXCEPT !.weight = w[e]]]

EdgesDone(t) ==
    LET s == call[t].s
        a == call[t].a
        E == before.edges
        pc == call[t].pc
    IN  /\ pc \in {"mergeRead", "mergeRemove", "deleteEdges", "updateRead", "updatePut", "clearEdges"} =>
              edges = E
        /\ pc \in {"mergeRemove", "mergeSeen"} => call[t].saved = Without(E, Live(E) \ Incident(E, a))
        /\ pc \in {"mergeSeen", "deleteNode"} => edges = Without(E, Incident(E, a))
        /\ pc = "mergePut" => Restored(t)
        /\ pc \in {"propsRead", "propsPut", "mergeDrop"} => MergedEdges(E, edges, s, a)
        /\ pc = "clearNodes" => edges = Without(E, Edges)
        /\ pc \in Weighing => Reweighted(E, edges)
        /\ pc = "weightPut" => \A e \in Live(call[t].saved) : call[t].saved[e] = edges[e]

NodesDone(t) ==
    LET s == call[t].s
        N == before.nodes
    IN  /\ Busy(t) /\ call[t].pc # "mergeDrop" => nodes = N
        /\ call[t].pc = "mergeDrop" =>
              nodes = [N EXCEPT ![s] = IF @ = NoNode THEN NoNode ELSE [@ EXCEPT !.props = call[t].props]]
        /\ call[t].pc \in {"propsPut", "updatePut"} => call[t].row = nodes[s]

AloneInv ==
    alone => \A t \in Tasks : Busy(t) => /\ EdgesDone(t) /\ NodesDone(t)
                                         /\ \A u \in Tasks \ {t} : ~Busy(u)

(* The agents that the rows of node n have, in the store and in calls.        *)
Copies(n) == ({nodes[n]} \cup {call[t].row : t \in {u \in Tasks : call[u].s = n}}) \ {NoNode}
AgentsOf(n) == {r.agent : r \in Copies(n)}

(* Nodes a merging pass is about.                                            *)
About(t) ==
    {n \in Nodes :
        \/ Busy(t) /\ n \in {call[t].s, call[t].a}
        \/ \E p \in pass[t].pairs : n \in {p[1], p[2]}}

(* A node is one agent's, and a merging pass has nodes of its own agent only. *)
OwnInv ==
    /\ \A n \in Nodes : \A g, h \in AgentsOf(n) : g = h
    /\ \A t \in Tasks : pass[t].pc = "merge" =>
          \A n \in About(t) : \A g \in AgentsOf(n) : Sees(pass[t].owner, g)

----------------------------------------------------------------------------
(* The least number of a set of them.                                        *)
LEMMA Least ==
    ASSUME NEW N \in Nat, NEW T \in SUBSET (0..N), T # {}
    PROVE  \E n \in T : \A m \in T : n <= m
<1> DEFINE below == {0..n : n \in T}
<1>1. below # {} /\ below \subseteq FiniteSubsetsOf(0..N)
  <2>1. ASSUME NEW n \in T
        PROVE  0..n \in FiniteSubsetsOf(0..N)
    BY FS_Interval DEF FiniteSubsetsOf
  <2> QED
    BY <2>1
<1>2. IsWellFoundedOn(StrictSubsetOrdering(0..N), FiniteSubsetsOf(0..N))
  BY FS_StrictSubsetOrderingWellFounded
<1>3. \E x \in below : \A y \in below : <<y, x>> \notin StrictSubsetOrdering(0..N)
  <2> HIDE DEF below
  <2> QED
    BY <1>1, <1>2, WFMin
<1>4. PICK n \in T : \A y \in below : <<y, 0..n>> \notin StrictSubsetOrdering(0..N)
  BY <1>3
<1>5. ASSUME NEW m \in T, m < n
      PROVE  FALSE
  <2>1. 0..m \in below /\ m \in Nat /\ n \in Nat /\ n <= N
    OBVIOUS
  <2>2. 0..m \subseteq 0..n /\ n \in 0..n /\ n \notin 0..m /\ 0..n \subseteq 0..N
    BY <1>5, <2>1
  <2>3. <<0..m, 0..n>> \in StrictSubsetOrdering(0..N)
    BY <2>2 DEF StrictSubsetOrdering
  <2> QED
    BY <1>4, <2>1, <2>3
<1> QED
  BY <1>5

----------------------------------------------------------------------------
(* The merge of SqliteGraph: the first edge of each triple stays.             *)

LEMMA SqlMergeMerges ==
    ASSUME NEW E \in [Edges -> EdgeRow \cup {NoEdge}], NEW s \in Nodes, NEW a \in Nodes
    PROVE  MergedEdges(E, SqlDeduplicated(SqlRedirected(E, s, a)), s, a)
<1> DEFINE R == SqlRedirected(E, s, a)
           F == SqlDeduplicated(R)
           Doubled == {e \in Live(R) : IsLoop(R[e]) \/ \E f \in Live(R) : f < e /\ Triple(R[f]) = Triple(R[e])}
<1>1. \A e \in Live(E) : e \in Edges /\ E[e] \in EdgeRow /\ Redirect(E[e], s, a) \in EdgeRow
  BY RedirectType DEF Live
<1>2. /\ \A e \in Edges : e \in Live(E) => R[e] = Redirect(E[e], s, a)
      /\ \A e \in Edges : e \notin Live(E) => R[e] = NoEdge
  BY DEF SqlRedirected, Live
<1>3. Live(R) = Live(E)
  BY <1>1, <1>2, NoRows DEF Live
<1>4. F = [e \in Edges |-> IF e \in Doubled THEN NoEdge ELSE R[e]]
  BY DEF SqlDeduplicated, Without
<1>5. \A e \in Edges : e \in Live(F) <=> e \in Live(R) \ Doubled
  BY <1>4 DEF Live
<1> HIDE DEF R, F, Doubled
<1>6. F = [e \in Edges |-> F[e]]
  BY <1>4
<1>7. \A e \in Live(F) : e \in Live(E) /\ F[e] = Redirect(E[e], s, a)
  BY <1>2, <1>3, <1>4, <1>5 DEF Live
<1>8. ASSUME NEW e \in Live(E), ~IsLoop(Redirect(E[e], s, a))
      PROVE  \E f \in Live(F) : Triple(F[f]) = Triple(Redirect(E[e], s, a))
  <2> DEFINE T == {f \in Live(R) : Triple(R[f]) = Triple(R[e])}
  <2>1. e \in T /\ R[e] = Redirect(E[e], s, a) /\ e \in Edges
    BY <1>1, <1>2, <1>3
  <2>2. PICK N \in Nat : N = MaxEdges
    BY KnowledgeGraphAssumption
  <2>3. T \in SUBSET (0..N) /\ T # {}
    BY <2>1, <2>2 DEF Live, Edges
  <2>4. PICK f \in T : \A g \in T : f <= g
    BY <2>3, Least
  <2>5. f \in Live(R) /\ Triple(R[f]) = Triple(R[e]) /\ f \in Edges
    BY <2>4 DEF Live
  <2>6. ~IsLoop(R[f])
    BY <1>8, <2>1, <2>5 DEF IsLoop, Triple
  <2>7. ASSUME NEW g \in Live(R), g < f, Triple(R[g]) = Triple(R[f])
        PROVE  FALSE
    <3>1. g \in T /\ g \in Nat /\ f \in Nat
      BY <2>2, <2>5, <2>7 DEF Live, Edges
    <3> QED
      BY <2>4, <2>7, <3>1
  <2>8. f \notin Doubled
    BY <2>6, <2>7 DEF Doubled
  <2>9. f \in Live(F) /\ F[f] = R[f]
    BY <1>4, <1>5, <2>5, <2>8
  <2> QED
    BY <2>1, <2>5, <2>9
<1> QED
  BY <1>6, <1>7, <1>8 DEF MergedEdges, F, R

----------------------------------------------------------------------------
(* The scripts of CozoGraph: types.                                           *)

Deleting == {"deleteEdges", "deleteNode"}
Updating == {"updateRead", "updatePut"}
Clearing == {"clearEdges", "clearNodes"}
Methods == {Merging, Weighing, Deleting, Updating, Clearing}

(* A script leaves its caller in the method, with the nodes it is about, or    *)
(* ends it.                                                                 *)
GoesOn(c, d) ==
    \/ d = NoCall
    \/ /\ \E M \in Methods : c.pc \in M /\ d.pc \in M
       /\ d.s = c.s /\ d.a = c.a /\ d.props = c.props
       /\ d.pc \in {"propsPut", "updatePut"} => d.row # NoNode
       /\ Reweighs(d)

LEMMA NoCallType == NoCall \in CallType
  BY KnowledgeGraphAssumption DEF NoCall, CallType, CallPhases

LEMMA WithType ==
    ASSUME NEW row \in NodeRow
    PROVE  /\ \A i \in {1, 2} : /\ [row EXCEPT !.imp = i] \in NodeRow
                                /\ [row EXCEPT !.imp = i].agent = row.agent
           /\ \A p \in [Keys -> Nodes \cup {NoNode}] : /\ [row EXCEPT !.props = p] \in NodeRow
                                                       /\ [row EXCEPT !.props = p].agent = row.agent
  BY DEF NodeRow

LEMMA WeighedType ==
    ASSUME NEW r \in EdgeRow, NEW w \in 1..MaxWeight
    PROVE  [r EXCEPT !.weight = w] \in EdgeRow
  BY DEF EdgeRow

LEMMA ScriptTypes ==
    ASSUME GraphTypeOK, call \in [Tasks -> CallType], NEW t \in Tasks, CallFits(t), CozoStep(t)
    PROVE  /\ GraphTypeOK' /\ call' \in [Tasks -> CallType]
           /\ Busy(t) /\ GoesOn(call[t], call'[t])
           /\ \A u \in Tasks \ {t} : call'[u] = call[u]
<1> DEFINE Goal == /\ GraphTypeOK' /\ call' \in [Tasks -> CallType]
                   /\ Busy(t) /\ GoesOn(call[t], call'[t])
                   /\ \A u \in Tasks \ {t} : call'[u] = call[u]
<1> USE DEF GraphTypeOK, graph, Busy
<1>1. call[t] \in CallType /\ nodes \in [Nodes -> NodeRow \cup {NoNode}]
  OBVIOUS
<1>2. ASSUME NEW c \in CallType, call' = [call EXCEPT ![t] = c], GraphTypeOK', Busy(t), GoesOn(call[t], c)
      PROVE  Goal
  BY <1>2
<1>3. ASSUME NEW p \in CallPhases, Goto(t, p), GraphTypeOK', Busy(t), p \notin {"propsPut", "updatePut", "weightRead", "weightPut"},
             \E M \in Methods : call[t].pc \in M /\ p \in M
      PROVE  Goal
  <2>1. [call[t] EXCEPT !.pc = p] \in CallType
    BY <1>1 DEF CallType
  <2>2. GoesOn(call[t], [call[t] EXCEPT !.pc = p])
    BY <1>1, <1>3 DEF GoesOn, CallType, Reweighs
  <2> QED
    BY <1>2, <1>3, <2>1, <2>2 DEF Goto
<1>4. ASSUME Return(t), GraphTypeOK', Busy(t)
      PROVE  Goal
  BY <1>2, <1>4, NoCallType DEF Return, GoesOn
<1>5. CASE MergeRead(t)
  <2> DEFINE c == [call[t] EXCEPT !.pc = "mergeRemove",
                      !.saved = Without(edges, Live(edges) \ Incident(edges, call[t].a))]
  <2>1. c \in CallType
    BY <1>1, WithoutType DEF CallType, CallPhases
  <2>2. GoesOn(call[t], c)
    BY <1>1, <1>5 DEF GoesOn, CallType, Reweighs, MergeRead, Methods, Merging
  <2>3. call' = [call EXCEPT ![t] = c]
    BY <1>5 DEF MergeRead
  <2> QED
    BY <1>2, <1>5, <2>1, <2>2, <2>3 DEF MergeRead
<1>6. CASE MergeRemove(t)
  BY <1>3, <1>6, WithoutType DEF MergeRemove, CallPhases, Methods, Merging
<1>7. CASE MergeSeen(t)
  <2> DEFINE S == {Triple(edges[e]) : e \in Incident(edges, call[t].s)}
             c == [call[t] EXCEPT !.pc = "mergePut", !.seen = S]
  <2>1. S \subseteq Nodes \X Nodes \X Relations
    BY DEF Incident, Live, Triple, EdgeRow
  <2>2. c \in CallType
    BY <1>1, <2>1 DEF CallType, CallPhases
  <2>3. GoesOn(call[t], c)
    BY <1>1, <1>7 DEF GoesOn, CallType, Reweighs, MergeSeen, Methods, Merging
  <2>4. call' = [call EXCEPT ![t] = c]
    BY <1>7 DEF MergeSeen
  <2> QED
    BY <1>2, <1>7, <2>2, <2>3, <2>4 DEF MergeSeen
<1>8. CASE MergePut(t)
  <2>1. PICK e \in Live(call[t].saved) :
           LET r == Redirect(call[t].saved[e], call[t].s, call[t].a)
           IN  /\ call' = [call EXCEPT ![t].saved[e] = NoEdge,
                              ![t].seen = IF IsLoop(r) THEN @ ELSE @ \cup {Triple(r)}]
               /\ edges' = IF IsLoop(r) \/ Triple(r) \in call[t].seen THEN edges
                           ELSE [edges EXCEPT ![e] = r]
    BY <1>8 DEF MergePut
  <2> DEFINE r == Redirect(call[t].saved[e], call[t].s, call[t].a)
             c == [call[t] EXCEPT !.saved[e] = NoEdge, !.seen = IF IsLoop(r) THEN @ ELSE @ \cup {Triple(r)}]
  <2>2. call[t].saved \in [Edges -> EdgeRow \cup {NoEdge}] /\ e \in Edges /\ call[t].saved[e] \in EdgeRow
    BY <1>1 DEF CallType, Live
  <2>3. call[t].pc \in Merging /\ call[t].s \in Nodes /\ Busy(t)
    BY <1>8 DEF MergePut, Merging, CallFits
  <2>4. r \in EdgeRow
    BY <2>2, <2>3, RedirectType
  <2>5. Triple(r) \in Nodes \X Nodes \X Relations
    BY <2>4 DEF Triple, EdgeRow
  <2>6. c \in CallType
    <3>1. [call[t].saved EXCEPT ![e] = NoEdge] \in [Edges -> EdgeRow \cup {NoEdge}]
      BY <2>2
    <3> HIDE DEF r
    <3> QED
      BY <1>1, <2>5, <3>1 DEF CallType
  <2>7. GoesOn(call[t], c)
    BY <1>1, <1>8, <2>3 DEF GoesOn, CallType, Reweighs, MergePut, Methods, Merging
  <2>8. call' = [call EXCEPT ![t] = c]
    BY <2>1
  <2>9. edges' \in [Edges -> EdgeRow \cup {NoEdge}] /\ nodes' = nodes
    BY <1>8, <2>1, <2>2, <2>4 DEF MergePut
  <2> QED
    BY <1>2, <2>3, <2>6, <2>7, <2>8, <2>9
<1>9. CASE MergePutDone(t)
  BY <1>3, <1>9 DEF MergePutDone, CallPhases, Methods, Merging
<1>10. CASE PropsRead(t)
  <2> DEFINE c == [call[t] EXCEPT !.row = nodes[call[t].s],
                      !.pc = IF nodes[call[t].s] = NoNode THEN "mergeDrop" ELSE "propsPut"]
  <2>1. call[t].s \in Nodes /\ Busy(t)
    BY <1>10 DEF CallFits, PropsRead, Merging
  <2>2. c \in CallType
    BY <1>1, <2>1 DEF CallType, CallPhases
  <2>3. GoesOn(call[t], c)
    BY <1>1, <1>10 DEF GoesOn, CallType, Reweighs, PropsRead, Methods, Merging
  <2>4. call' = [call EXCEPT ![t] = c]
    BY <1>10 DEF PropsRead
  <2> QED
    BY <1>2, <1>10, <2>1, <2>2, <2>3, <2>4 DEF PropsRead
<1>11. CASE PropsPut(t)
  <2>1. call[t].s \in Nodes /\ call[t].row \in NodeRow /\ call[t].props \in [Keys -> Nodes \cup {NoNode}]
    BY <1>1, <1>11 DEF CallFits, PropsPut, Merging, CallType
  <2>2. [call[t].row EXCEPT !.props = call[t].props] \in NodeRow
    BY <2>1, WithType
  <2>3. nodes' \in [Nodes -> NodeRow \cup {NoNode}] /\ edges' = edges
    BY <1>11, <2>1, <2>2 DEF PropsPut
  <2> QED
    BY <1>3, <1>11, <2>3 DEF PropsPut, CallPhases, Methods, Merging
<1>12. CASE MergeDrop(t)
  BY <1>4, <1>12 DEF MergeDrop
<1>13. CASE RemoveIncident(t)
  BY <1>3, <1>13, WithoutType DEF RemoveIncident, CallPhases, Methods, Deleting
<1>14. CASE RemoveNode(t)
  BY <1>4, <1>14 DEF RemoveNode
<1>15. CASE UpdateRead(t)
  <2> DEFINE c == IF nodes[call[t].s] = NoNode THEN NoCall
                  ELSE [call[t] EXCEPT !.pc = "updatePut", !.row = nodes[call[t].s]]
  <2>1. call[t].s \in Nodes /\ Busy(t)
    BY <1>15 DEF CallFits, UpdateRead, Merging
  <2>2. c \in CallType
    BY <1>1, <2>1, NoCallType DEF CallType, CallPhases
  <2>3. GoesOn(call[t], c)
    BY <1>1, <1>15 DEF GoesOn, CallType, Reweighs, UpdateRead, Methods, Updating
  <2>4. call' = [call EXCEPT ![t] = c]
    BY <1>15 DEF UpdateRead
  <2> QED
    BY <1>2, <1>15, <2>1, <2>2, <2>3, <2>4 DEF UpdateRead
<1>16. ASSUME NEW imp \in {1, 2}, UpdatePut(t, imp)
       PROVE  Goal
  <2>1. call[t].s \in Nodes /\ call[t].row \in NodeRow
    BY <1>1, <1>16 DEF CallFits, UpdatePut, CallType
  <2>2. [call[t].row EXCEPT !.imp = imp] \in NodeRow
    BY <2>1, WithType
  <2>3. nodes' \in [Nodes -> NodeRow \cup {NoNode}] /\ edges' = edges
    BY <1>16, <2>1, <2>2 DEF UpdatePut
  <2> QED
    BY <1>4, <1>16, <2>3 DEF UpdatePut
<1>17. CASE ClearEdges(t)
  BY <1>3, <1>17, WithoutType DEF ClearEdges, CallPhases, Methods, Clearing
<1>18. CASE ClearNodes(t)
  BY <1>4, <1>18 DEF ClearNodes
<1>19. CASE WeightRead(t)
  <2>1. PICK e \in Updates(t) :
           call' = [call EXCEPT ![t] = IF edges[e] = NoEdge THEN [@ EXCEPT !.weights[e] = 0]
                                       ELSE [@ EXCEPT !.pc = "weightPut", !.saved[e] = edges[e]]]
    BY <1>19 DEF WeightRead
  <2> DEFINE c == IF edges[e] = NoEdge THEN [call[t] EXCEPT !.weights[e] = 0]
                  ELSE [call[t] EXCEPT !.pc = "weightPut", !.saved[e] = edges[e]]
  <2>2. /\ e \in Edges /\ [call[t].saved EXCEPT ![e] = edges[e]] \in [Edges -> EdgeRow \cup {NoEdge}]
        /\ [call[t].weights EXCEPT ![e] = 0] \in [Edges -> 0..MaxWeight]
    BY <1>1, KnowledgeGraphAssumption DEF Updates, CallType
  <2>3. c \in CallType
    BY <1>1, <2>2 DEF CallType, CallPhases
  <2>4. GoesOn(call[t], c)
    <3>1. call[t].pc = "weightRead" /\ Live(call[t].saved) = {} /\ call[t].weights[e] # 0
      BY <1>19 DEF WeightRead, CallFits, Reweighs, Updates
    <3>2. edges[e] # NoEdge => Live([call[t].saved EXCEPT ![e] = edges[e]]) = {e}
      BY <1>1, <2>2, <3>1 DEF Live, CallType
    <3>3. Reweighs(c)
      BY <1>1, <2>2, <3>1, <3>2 DEF CallType, Reweighs
    <3> QED
      BY <1>1, <3>1, <3>3 DEF GoesOn, CallType, Methods, Weighing
  <2>5. call' = [call EXCEPT ![t] = c]
    BY <2>1
  <2> QED
    BY <1>2, <1>19, <2>3, <2>4, <2>5 DEF WeightRead
<1>20. CASE WeightPut(t)
  <2>1. PICK e \in Live(call[t].saved) :
          /\ edges' = [edges EXCEPT ![e] = [call[t].saved[e] EXCEPT !.weight = call[t].weights[e]]]
          /\ call' = [call EXCEPT ![t].pc = "weightRead", ![t].saved[e] = NoEdge, ![t].weights[e] = 0]
    BY <1>20 DEF WeightPut
  <2> DEFINE c == [call[t] EXCEPT !.pc = "weightRead", !.saved[e] = NoEdge, !.weights[e] = 0]
  <2>2. /\ e \in Edges /\ call[t].saved[e] \in EdgeRow /\ call[t].saved \in [Edges -> EdgeRow \cup {NoEdge}]
        /\ call[t].weights \in [Edges -> 0..MaxWeight] /\ MaxWeight \in Nat
    BY <1>1, KnowledgeGraphAssumption DEF Live, CallType
  <2>3. call[t].pc = "weightPut" /\ call[t].weights[e] # 0 /\ Live(call[t].saved) = {e}
    BY <1>20 DEF WeightPut, CallFits, Reweighs
  <2>4. call[t].weights[e] \in 1..MaxWeight
    BY <2>2, <2>3
  <2>5. [call[t].saved[e] EXCEPT !.weight = call[t].weights[e]] \in EdgeRow
    BY <2>2, <2>4, WeighedType
  <2>6. edges' \in [Edges -> EdgeRow \cup {NoEdge}] /\ nodes' = nodes
    BY <1>20, <2>1, <2>2, <2>5 DEF WeightPut
  <2>7. c \in CallType
    <3>1. /\ [call[t].saved EXCEPT ![e] = NoEdge] \in [Edges -> EdgeRow \cup {NoEdge}]
          /\ [call[t].weights EXCEPT ![e] = 0] \in [Edges -> 0..MaxWeight]
      BY <2>2
    <3> QED
      BY <1>1, <3>1 DEF CallType, CallPhases
  <2>8. GoesOn(call[t], c)
    <3>1. Live([call[t].saved EXCEPT ![e] = NoEdge]) = {}
      BY <2>2, <2>3 DEF Live
    <3>2. Reweighs(c)
      BY <1>1, <3>1 DEF CallType, Reweighs
    <3> QED
      BY <1>1, <2>3, <3>2 DEF GoesOn, CallType, Methods, Weighing
  <2>9. call' = [call EXCEPT ![t] = c]
    BY <2>1
  <2> QED
    BY <1>2, <2>3, <2>6, <2>7, <2>8, <2>9
<1>21. CASE WeightsDone(t)
  BY <1>4, <1>21 DEF WeightsDone
<1> QED
  BY <1>5, <1>6, <1>7, <1>8, <1>9, <1>10, <1>11, <1>12, <1>13, <1>14, <1>15, <1>16, <1>17, <1>18,
     <1>19, <1>20, <1>21 DEF CozoStep

(* A script writes under ids only that were in the store or in its call.      *)
LEMMA ScriptIds ==
    ASSUME GraphTypeOK, call \in [Tasks -> CallType], NEW t \in Tasks, CallFits(t), CozoStep(t)
    PROVE  /\ \A n \in Nodes : nodes'[n] # NoNode => nodes[n] # NoNode \/ n = call[t].s
           /\ Live(edges') \subseteq Live(edges) \cup Live(call[t].saved)
           /\ Live(call'[t].saved) \subseteq Live(edges) \cup Live(call[t].saved)
<1> DEFINE Goal == /\ \A n \in Nodes : nodes'[n] # NoNode => nodes[n] # NoNode \/ n = call[t].s
                   /\ Live(edges') \subseteq Live(edges) \cup Live(call[t].saved)
                   /\ Live(call'[t].saved) \subseteq Live(edges) \cup Live(call[t].saved)
<1> USE DEF graph
<1>1. /\ nodes \in [Nodes -> NodeRow \cup {NoNode}] /\ edges \in [Edges -> EdgeRow \cup {NoEdge}]
      /\ call[t] \in CallType /\ call[t].saved \in [Edges -> EdgeRow \cup {NoEdge}]
  BY DEF CallType, GraphTypeOK
<1>2. \A E, S : Live(Without(E, S)) \subseteq Live(E)
  BY DEF Live, Without
<1>3. Live(NoCall.saved) = {}
  BY DEF Live, NoCall
<1>4. ASSUME Return(t), edges' = edges, \A n \in Nodes : nodes'[n] # NoNode => nodes[n] # NoNode \/ n = call[t].s
      PROVE  Goal
  BY <1>3, <1>4 DEF Return
<1>5. ASSUME NEW p, Goto(t, p), \A n \in Nodes : nodes'[n] # NoNode => nodes[n] # NoNode \/ n = call[t].s,
             Live(edges') \subseteq Live(edges)
      PROVE  Goal
  <2>1. call'[t].saved = call[t].saved
    BY <1>1, <1>5 DEF Goto, CallType
  <2> QED
    BY <1>5, <2>1
<1>6. CASE MergeRead(t)
  <2>1. call'[t].saved = Without(edges, Live(edges) \ Incident(edges, call[t].a))
    BY <1>1, <1>6 DEF MergeRead, CallType
  <2> QED
    BY <1>2, <1>6, <2>1 DEF MergeRead
<1>7. CASE MergeRemove(t)
  BY <1>2, <1>5, <1>7 DEF MergeRemove
<1>8. CASE MergeSeen(t)
  <2>1. call'[t].saved = call[t].saved
    BY <1>1, <1>8 DEF MergeSeen, CallType
  <2> QED
    BY <1>8, <2>1 DEF MergeSeen
<1>9. CASE MergePut(t)
  <2>1. PICK e \in Live(call[t].saved) :
           LET r == Redirect(call[t].saved[e], call[t].s, call[t].a)
           IN  /\ call' = [call EXCEPT ![t].saved[e] = NoEdge,
                              ![t].seen = IF IsLoop(r) THEN @ ELSE @ \cup {Triple(r)}]
               /\ edges' = IF IsLoop(r) \/ Triple(r) \in call[t].seen THEN edges
                           ELSE [edges EXCEPT ![e] = r]
    BY <1>9 DEF MergePut
  <2>2. call'[t].saved = [call[t].saved EXCEPT ![e] = NoEdge]
    BY <1>1, <2>1 DEF CallType
  <2>3. \A f \in Edges : f # e => edges'[f] = edges[f]
    BY <1>1, <2>1
  <2> QED
    BY <1>1, <1>9, <2>2, <2>3 DEF MergePut, Live
<1>10. CASE MergePutDone(t)
  BY <1>5, <1>10 DEF MergePutDone
<1>11. CASE PropsRead(t)
  <2>1. call'[t].saved = call[t].saved
    BY <1>1, <1>11 DEF PropsRead, CallType
  <2> QED
    BY <1>11, <2>1 DEF PropsRead
<1>12. CASE PropsPut(t)
  BY <1>1, <1>5, <1>12 DEF PropsPut
<1>13. CASE MergeDrop(t)
  BY <1>1, <1>4, <1>13 DEF MergeDrop
<1>14. CASE RemoveIncident(t)
  BY <1>2, <1>5, <1>14 DEF RemoveIncident
<1>15. CASE RemoveNode(t)
  BY <1>1, <1>4, <1>15 DEF RemoveNode
<1>16. CASE UpdateRead(t)
  <2>1. call'[t].saved = call[t].saved \/ call'[t] = NoCall
    BY <1>1, <1>16 DEF UpdateRead, CallType
  <2> QED
    BY <1>3, <1>16, <2>1 DEF UpdateRead
<1>17. ASSUME NEW imp \in {1, 2}, UpdatePut(t, imp)
       PROVE  Goal
  BY <1>1, <1>4, <1>17 DEF UpdatePut
<1>18. CASE ClearEdges(t)
  BY <1>2, <1>5, <1>18 DEF ClearEdges
<1>19. CASE ClearNodes(t)
  BY <1>4, <1>19 DEF ClearNodes
<1>20. CASE WeightRead(t)
  <2>1. PICK e \in Updates(t) :
           call' = [call EXCEPT ![t] = IF edges[e] = NoEdge THEN [@ EXCEPT !.weights[e] = 0]
                                       ELSE [@ EXCEPT !.pc = "weightPut", !.saved[e] = edges[e]]]
    BY <1>20 DEF WeightRead
  <2>2. e \in Edges /\ \/ call'[t].saved = call[t].saved
                       \/ call'[t].saved = [call[t].saved EXCEPT ![e] = edges[e]] /\ edges[e] # NoEdge
    BY <1>1, <2>1 DEF CallType, Updates
  <2> QED
    BY <1>1, <1>20, <2>2 DEF WeightRead, Live
<1>21. CASE WeightPut(t)
  <2>1. PICK e \in Live(call[t].saved) :
          /\ edges' = [edges EXCEPT ![e] = [call[t].saved[e] EXCEPT !.weight = call[t].weights[e]]]
          /\ call' = [call EXCEPT ![t].pc = "weightRead", ![t].saved[e] = NoEdge, ![t].weights[e] = 0]
    BY <1>21 DEF WeightPut
  <2>2. call'[t].saved = [call[t].saved EXCEPT ![e] = NoEdge] /\ e \in Edges
    BY <1>1, <2>1 DEF CallType, Live
  <2> QED
    BY <1>1, <1>21, <2>1, <2>2 DEF WeightPut, Live
<1>22. CASE WeightsDone(t)
  BY <1>4, <1>22 DEF WeightsDone
<1> QED
  BY <1>6, <1>7, <1>8, <1>9, <1>10, <1>11, <1>12, <1>13, <1>14, <1>15, <1>16, <1>17, <1>18,
     <1>19, <1>20, <1>21, <1>22 DEF CozoStep

----------------------------------------------------------------------------
(* The callers of the store: types.                                           *)

(* A step of t leaves the others where they are.                             *)
Moves(t) ==
    /\ pass' \in [Tasks -> PassType] /\ call' \in [Tasks -> CallType]
    /\ \A u \in Tasks \ {t} : pass'[u] = pass[u] /\ call'[u] = call[u]
    /\ pass'[t].pc = "merge" => pass'[t].count <= MaxMerges
    /\ GraphTypeOK'
    /\ backend' = backend /\ alone' = alone
    /\ minted \subseteq minted' /\ minted' \subseteq Nodes
    /\ linked' \in 0..MaxEdges /\ linked <= linked' /\ starts' \in 0..MaxStarts
    /\ before' \in [nodes : [Nodes -> NodeRow \cup {NoNode}], edges : [Edges -> EdgeRow \cup {NoEdge}]]

LEMMA MovesType ==
    ASSUME TypeInv, NEW t \in Tasks, Moves(t), StoreFits', WorkFits(t)'
    PROVE  TypeInv'
<1>1. TypeOK'
  BY DEF Moves, TypeOK, TypeInv
<1>2. ASSUME NEW u \in Tasks, u # t
      PROVE  WorkFits(u)'
  <2>1. call'[u] = call[u] /\ pass'[u] = pass[u] /\ backend' = backend /\ WorkFits(u)
    BY <1>2 DEF Moves, TypeInv
  <2>2. CallFits(u)' /\ PassFits(u)'
    BY <2>1 DEF WorkFits, CallFits, PassFits, Busy
  <2>3. 1..linked \subseteq 1..linked' /\ minted \subseteq minted'
    BY DEF Moves, TypeInv, TypeOK
  <2>4. IdsFit(u)'
    BY <2>1, <2>3 DEF WorkFits, IdsFit
  <2> QED
    BY <2>2, <2>4 DEF WorkFits
<1> QED
  BY <1>1, <1>2 DEF TypeInv

(* What a caller's work may be.                                              *)
SoundPass(p) ==
    /\ p \in PassType
    /\ p.pc = "merge" => p.count <= MaxMerges
    /\ \A q \in p.pairs : q[1] # q[2] /\ {q[1], q[2]} \subseteq minted
    /\ p.pc \in {"nodes", "links", "seedNodes"} => p.owner \in Owners
    /\ p.pc = "links" => \A l \in p.links : l[1] \in 1..Len(p.ids) /\ l[2] \in 1..Len(p.ids)

LEMMA PassSound ==
    ASSUME TypeInv, NEW t \in Tasks
    PROVE  SoundPass(pass[t]) /\ WorkFits(t) /\ call[t] \in CallType
  BY DEF TypeInv, TypeOK, SoundPass, WorkFits, PassFits, IdsFit

LEMMA OffSound ==
    /\ Off \in PassType /\ SoundPass(Off)
    /\ Off.pairs = {} /\ Off.links = {} /\ Off.pc = "off" /\ Off.ids = <<>> /\ Off.count = 0
<1>1. Off \in PassType
  BY KnowledgeGraphAssumption DEF Off, PassType, Phases
<1> QED
  BY <1>1 DEF Off, SoundPass

(* A caller that is in no method of CozoDB goes on: one statement, a whole     *)
(* method of SQLite, or nothing at all.                                      *)
LEMMA CallerMoves ==
    ASSUME TypeInv, NEW t \in Tasks, ~Busy(t), NEW p, SoundPass(p), Becomes(t, p),
           UNCHANGED <<call, before, backend, alone>>, starts' \in 0..MaxStarts,
           GraphTypeOK', StoreFits', minted \subseteq minted', minted' \subseteq Nodes,
           linked' \in 0..MaxEdges, linked <= linked'
    PROVE  TypeInv'
<1>1. pass[t] \in PassType /\ call'[t] = call[t] /\ pass'[t] = p /\ WorkFits(t)
  BY PassSound DEF Becomes, SoundPass, TypeInv, TypeOK
<1>2. Moves(t)
  BY <1>1 DEF Becomes, SoundPass, Moves, TypeInv, TypeOK
<1>3. CallFits(t)' /\ PassFits(t)'
  <2>1. call'[t].pc = "none"
    BY <1>1 DEF Busy
  <2> QED
    BY <1>1, <2>1 DEF CallFits, PassFits, SoundPass, Busy, Merging, Reweighs
<1>4. IdsFit(t)'
  <2>1. 1..linked \subseteq 1..linked'
    BY DEF TypeInv, TypeOK
  <2> QED
    BY <1>1, <2>1 DEF WorkFits, IdsFit, SoundPass
<1> QED
  BY <1>2, <1>3, <1>4, MovesType DEF WorkFits

(* A caller enters a method of CozoDB.                                       *)
LEMMA BeginMoves ==
    ASSUME TypeInv, NEW t \in Tasks, NEW p, SoundPass(p), Becomes(t, p),
           NEW c \in CallType, Begin(t, c), CallFits(t)', Live(c.saved) = {},
           {c.s, c.a} \ {NoNode} \subseteq minted,
           UNCHANGED <<backend, alone, minted, linked>>, starts' \in 0..MaxStarts
    PROVE  TypeInv'
<1>1. pass'[t] = p /\ call'[t] = c
  BY DEF Becomes, Begin, TypeInv, TypeOK
<1>2. GraphTypeOK' /\ StoreFits'
  BY DEF Begin, graph, TypeInv, TypeOK, GraphTypeOK, StoreFits
<1>3. Moves(t)
  BY <1>1, <1>2 DEF Becomes, Begin, SoundPass, Moves, TypeInv, TypeOK, GraphTypeOK
<1>4. PassFits(t)' /\ IdsFit(t)'
  BY <1>1 DEF PassFits, IdsFit, SoundPass
<1> QED
  BY <1>2, <1>3, <1>4, MovesType DEF WorkFits

----------------------------------------------------------------------------
(* The statements and the methods of SQLite: types.                           *)

LEMMA PutType ==
    ASSUME TypeInv
    PROVE  /\ \A n \in Nodes, row \in NodeRow :
                 PutNode(n, row) => /\ GraphTypeOK' /\ nodes'[n] = row /\ edges' = edges
                                    /\ \A m \in Nodes : m # n => nodes'[m] = nodes[m]
           /\ \A e \in Edges, row \in EdgeRow :
                 PutEdge(e, row) => /\ GraphTypeOK' /\ edges'[e] = row /\ nodes' = nodes
                                    /\ edges' = [edges EXCEPT ![e] = row]
                                    /\ \A f \in Edges : f # e => edges'[f] = edges[f]
  BY DEF TypeInv, TypeOK, GraphTypeOK, PutNode, PutEdge, SqlPutNode, SqlPutEdge, CozoPutNode, CozoPutEdge

LEMMA FreshIs ==
    ASSUME TypeInv, minted # Nodes
    PROVE  Fresh \in Nodes \ minted /\ nodes[Fresh] = NoNode
<1>1. \E n \in Nodes \ minted : TRUE
  BY DEF TypeInv, TypeOK
<1> QED
  BY <1>1 DEF Fresh, TypeInv, StoreFits

LEMMA RowIs ==
    ASSUME TypeInv, minted # Nodes, NEW owner \in Owners, NEW imp \in {1, 2}, NEW keys
    PROVE  Row(owner, imp, keys) \in NodeRow /\ Row(owner, imp, keys).agent = owner
  BY FreshIs DEF Row, NodeRow

LEMMA SqlTypes ==
    ASSUME TypeInv,
           \/ \E s, a \in Nodes, props \in [Keys -> Nodes \cup {NoNode}] : SqlMerge(s, a, props)
           \/ \E n \in Nodes : SqlDelete(n) \/ SqlDeleteFails(n) \/ \E i \in {1, 2} : SqlUpdate(n, i)
           \/ \E w \in [Edges -> 0..MaxWeight] : SqlSetWeights(w)
           \/ SqlClear \/ SqlClearFails \/ UNCHANGED graph,
           UNCHANGED <<minted, linked>>
    PROVE  GraphTypeOK' /\ StoreFits'
<1>1. /\ nodes \in [Nodes -> NodeRow \cup {NoNode}] /\ edges \in [Edges -> EdgeRow \cup {NoEdge}]
      /\ \A E, S : Live(Without(E, S)) \subseteq Live(E)
  BY DEF TypeInv, TypeOK, GraphTypeOK, Live, Without
<1>2. SUFFICES /\ nodes' \in [Nodes -> NodeRow \cup {NoNode}] /\ edges' \in [Edges -> EdgeRow \cup {NoEdge}]
               /\ \A n \in Nodes : nodes'[n] # NoNode => nodes[n] # NoNode
               /\ Live(edges') \subseteq Live(edges)
  BY DEF TypeInv, StoreFits, GraphTypeOK
<1>3. ASSUME NEW s \in Nodes, NEW a \in Nodes, NEW props \in [Keys -> Nodes \cup {NoNode}], SqlMerge(s, a, props)
      PROVE  /\ nodes' \in [Nodes -> NodeRow \cup {NoNode}] /\ edges' \in [Edges -> EdgeRow \cup {NoEdge}]
             /\ \A n \in Nodes : nodes'[n] # NoNode => nodes[n] # NoNode
             /\ Live(edges') \subseteq Live(edges)
  <2>1. MergedEdges(edges, edges', s, a)
    BY <1>1, <1>3, SqlMergeMerges DEF SqlMerge
  <2>2. edges' \in [Edges -> EdgeRow \cup {NoEdge}] /\ Live(edges') \subseteq Live(edges)
    BY <1>1, <2>1, MergedType DEF MergedEdges
  <2>3. \A n \in Nodes : nodes[n] # NoNode => [nodes[n] EXCEPT !.props = props] \in NodeRow
    BY <1>1, WithType
  <2> QED
    BY <1>1, <1>3, <2>2, <2>3 DEF SqlMerge
<1>4. ASSUME NEW n \in Nodes, SqlDelete(n) \/ SqlDeleteFails(n)
      PROVE  /\ nodes' \in [Nodes -> NodeRow \cup {NoNode}] /\ edges' \in [Edges -> EdgeRow \cup {NoEdge}]
             /\ \A m \in Nodes : nodes'[m] # NoNode => nodes[m] # NoNode
             /\ Live(edges') \subseteq Live(edges)
  BY <1>1, <1>4, WithoutType DEF SqlDelete, SqlDeleteFails
<1>5. ASSUME NEW n \in Nodes, NEW i \in {1, 2}, SqlUpdate(n, i)
      PROVE  /\ nodes' \in [Nodes -> NodeRow \cup {NoNode}] /\ edges' = edges
             /\ \A m \in Nodes : nodes'[m] # NoNode => nodes[m] # NoNode
  <2>1. nodes[n] # NoNode => [nodes[n] EXCEPT !.imp = i] \in NodeRow
    BY <1>1, WithType
  <2> QED
    BY <1>1, <1>5, <2>1 DEF SqlUpdate
<1>6. ASSUME NEW w \in [Edges -> 0..MaxWeight], SqlSetWeights(w)
      PROVE  edges' \in [Edges -> EdgeRow \cup {NoEdge}] /\ nodes' = nodes /\ Live(edges') \subseteq Live(edges)
  <2>1. ASSUME NEW e \in Edges, edges[e] # NoEdge, w[e] # 0
        PROVE  [edges[e] EXCEPT !.weight = w[e]] \in EdgeRow
    BY <1>1, <2>1, WeighedType, KnowledgeGraphAssumption
  <2> QED
    BY <1>1, <1>6, <2>1 DEF SqlSetWeights, Live
<1>7. CASE SqlClear \/ SqlClearFails \/ UNCHANGED graph
  BY <1>1, <1>7, WithoutType DEF SqlClear, SqlClearFails, graph
<1> QED
  BY <1>1, <1>3, <1>4, <1>5, <1>6, <1>7

----------------------------------------------------------------------------
(* What each step of a caller leaves.                                         *)

LEMMA InitTypes == Init => TypeInv
<1> SUFFICES ASSUME Init PROVE TypeInv
  OBVIOUS
<1>1. before \in [nodes : [Nodes -> NodeRow \cup {NoNode}], edges : [Edges -> EdgeRow \cup {NoEdge}]]
  BY GraphEvolutionAssumption DEF Init
<1>2. MaxStarts \in Nat
  BY GraphEvolutionAssumption
<1>3. TypeOK
  BY <1>1, <1>2, NoCallType, OffSound DEF Init, TypeOK, GraphTypeOK
<1>4. StoreFits
  BY DEF Init, StoreFits
<1>5. ASSUME NEW t \in Tasks
      PROVE  WorkFits(t)
  <2>1. call[t] = NoCall /\ pass[t] = Off
    BY DEF Init
  <2>2. NoCall.pc = "none" /\ NoCall.s = NoNode /\ NoCall.a = NoNode /\ Live(NoCall.saved) = {}
    BY DEF NoCall, Live
  <2>3. CallFits(t)
    BY <2>1, <2>2 DEF CallFits, Busy, Merging, Reweighs
  <2> QED
    BY <2>1, <2>2, <2>3, OffSound DEF WorkFits, PassFits, IdsFit
<1> QED
  BY <1>3, <1>4, <1>5 DEF TypeInv

LEMMA ScriptMoves ==
    ASSUME TypeInv, NEW t \in Tasks, Script(t)
    PROVE  TypeInv'
<1>1. /\ GraphTypeOK /\ call \in [Tasks -> CallType] /\ pass \in [Tasks -> PassType] /\ WorkFits(t)
      /\ CallFits(t) /\ StoreFits /\ SoundPass(pass[t])
  BY PassSound DEF TypeInv, TypeOK, WorkFits
<1>2. UNCHANGED <<before, backend, alone, minted, linked, starts>>
  BY DEF Script, Rest
<1>3. CASE CozoStep(t) /\ UNCHANGED pass
  <2>1. /\ GraphTypeOK' /\ call' \in [Tasks -> CallType]
        /\ Busy(t) /\ GoesOn(call[t], call'[t])
        /\ \A u \in Tasks \ {t} : call'[u] = call[u]
    BY <1>1, <1>3, ScriptTypes
  <2>2. /\ \A n \in Nodes : nodes'[n] # NoNode => nodes[n] # NoNode \/ n = call[t].s
        /\ Live(edges') \subseteq Live(edges) \cup Live(call[t].saved)
        /\ Live(call'[t].saved) \subseteq Live(edges) \cup Live(call[t].saved)
    BY <1>1, <1>3, ScriptIds
  <2>3. StoreFits'
    BY <1>1, <1>2, <2>2, NoRows DEF StoreFits, WorkFits, IdsFit
  <2>4. Moves(t)
    BY <1>1, <1>2, <1>3, <2>1 DEF Moves, TypeInv, TypeOK
  <2>5. NoCall.pc = "none" /\ NoCall.s = NoNode /\ NoCall.a = NoNode
    BY DEF NoCall
  <2>6. IdsFit(t)'
    BY <1>1, <1>2, <1>3, <2>1, <2>2, <2>5 DEF GoesOn, WorkFits, IdsFit, StoreFits
  <2>7. CallFits(t)'
    <3>1. CASE call'[t] = NoCall
      BY <2>5, <3>1 DEF CallFits, Busy, Merging, Reweighs
    <3>2. CASE call'[t] # NoCall
      <4>1. PICK M \in Methods : call[t].pc \in M /\ call'[t].pc \in M
        BY <2>1, <3>2 DEF GoesOn
      <4>2. /\ call'[t].s = call[t].s /\ call'[t].a = call[t].a /\ Reweighs(call'[t])
            /\ call'[t].pc \in {"propsPut", "updatePut"} => call'[t].row # NoNode
        BY <2>1, <3>2 DEF GoesOn
      <4>3. pass'[t] = pass[t] /\ backend' = backend
        BY <1>2, <1>3
      <4> QED
        BY <1>1, <2>1, <4>1, <4>2, <4>3
        DEF CallFits, Busy, Methods, Merging, Weighing, Deleting, Updating, Clearing
    <3> QED
      BY <3>1, <3>2
  <2>8. PassFits(t)'
    BY <1>1, <1>3 DEF WorkFits, PassFits
  <2> QED
    BY <2>3, <2>4, <2>6, <2>7, <2>8, MovesType DEF WorkFits
<1>4. ASSUME ScriptFails(t),
             Becomes(t, IF pass[t].pc = "merge" THEN [pass[t] EXCEPT !.count = @ - 1]
                        ELSE IF pass[t].pc = "weigh" THEN Off ELSE pass[t])
      PROVE  TypeInv'
  <2> DEFINE p == IF pass[t].pc = "merge" THEN [pass[t] EXCEPT !.count = @ - 1]
                  ELSE IF pass[t].pc = "weigh" THEN Off ELSE pass[t]
  <2>1. Busy(t) /\ call' = [call EXCEPT ![t] = NoCall] /\ UNCHANGED <<nodes, edges>>
    BY <1>4 DEF ScriptFails, Return, graph
  <2>2. SoundPass(p) /\ p.pc \in {pass[t].pc, "off"} /\ (p.pairs = pass[t].pairs \/ p.pairs = {})
    <3>1. CASE pass[t].pc = "merge"
      <4>1. pass[t].count \in Nat /\ pass[t].count > 0 /\ pass[t].count <= MaxMerges /\ MaxMerges \in Nat
        BY <1>1, <2>1, <3>1, GraphEvolutionAssumption DEF CallFits, SoundPass, PassType
      <4>2. p \in PassType /\ p.count = pass[t].count - 1 /\ p.pairs = pass[t].pairs /\ p.pc = "merge"
        <5>1. PICK n \in Nat : n = pass[t].count - 1
          BY <4>1
        <5>2. pass[t] \in PassType /\ p = [pass[t] EXCEPT !.count = n]
          BY <1>1, <3>1, <5>1 DEF SoundPass
        <5> QED
          BY <3>1, <5>1, <5>2 DEF PassType
      <4> QED
        BY <1>1, <3>1, <4>1, <4>2 DEF SoundPass
    <3>2. CASE pass[t].pc # "merge"
      BY <1>1, <3>2, OffSound
    <3> QED
      BY <3>1, <3>2
  <2>3. pass'[t] = p /\ call'[t] = NoCall
    BY <1>1, <1>4, <2>1 DEF Becomes
  <2>4. NoCall.pc = "none" /\ NoCall.s = NoNode /\ NoCall.a = NoNode /\ Live(NoCall.saved) = {}
    BY DEF NoCall, Live
  <2> HIDE DEF p
  <2>5. GraphTypeOK' /\ StoreFits'
    BY <1>1, <1>2, <2>1 DEF GraphTypeOK, StoreFits
  <2>6. Moves(t)
    BY <1>1, <1>2, <1>4, <2>1, <2>2, <2>3, <2>5, NoCallType DEF Moves, Becomes, SoundPass, TypeInv, TypeOK, p
  <2>7. CallFits(t)' /\ PassFits(t)' /\ IdsFit(t)'
    BY <1>2, <2>2, <2>3, <2>4 DEF CallFits, Busy, Merging, Reweighs, PassFits, IdsFit, SoundPass
  <2> QED
    BY <2>5, <2>6, <2>7, MovesType DEF WorkFits
<1> QED
  BY <1>3, <1>4 DEF Script

(* Steps that only decide what the caller does next.                          *)
LEMMA PlanMoves ==
    ASSUME TypeInv, NEW t \in Tasks, ~Busy(t), NEW p, SoundPass(p), Becomes(t, p), Quiet,
           UNCHANGED <<backend, alone, minted, linked>>, starts' \in 0..MaxStarts
    PROVE  TypeInv'
<1>1. GraphTypeOK' /\ StoreFits'
  BY DEF Quiet, GraphTypeOK, StoreFits, TypeInv, TypeOK
<1>2. minted \subseteq Nodes /\ linked \in 0..MaxEdges
  BY DEF TypeInv, TypeOK
<1> QED
  BY <1>1, <1>2, CallerMoves DEF Quiet

(* The pairs a pass finds are of two nodes its agent sees.                    *)
LEMMA CandidateIs ==
    ASSUME TypeInv, NEW a \in Agents, NEW q \in Candidates(a)
    PROVE  /\ q \in Nodes \X Nodes \X [Keys -> Nodes \cup {NoNode}]
           /\ q[1] # q[2] /\ {q[1], q[2]} \subseteq minted
           /\ \A n \in {q[1], q[2]} : nodes[n] # NoNode /\ Sees(a, nodes[n].agent)
<1>1. PICK p \in Similar(a) : q = <<p[1], p[2], MergedProps(nodes[p[1]], nodes[p[2]])>>
  BY DEF Candidates
<1>2. /\ p[1] \in Nodes /\ p[2] \in Nodes /\ p[1] # p[2]
      /\ \A n \in {p[1], p[2]} : nodes[n] # NoNode /\ Sees(a, nodes[n].agent)
  BY GraphEvolutionAssumption DEF Similar, SqlSimilar, CozoSimilar, Loadable, CozoVisible
<1>3. nodes[p[1]] \in NodeRow /\ nodes[p[2]] \in NodeRow /\ p[1] \in minted /\ p[2] \in minted
  BY <1>2 DEF TypeInv, TypeOK, GraphTypeOK, StoreFits
<1>4. MergedProps(nodes[p[1]], nodes[p[2]]) \in [Keys -> Nodes \cup {NoNode}]
  BY <1>3 DEF MergedProps, NodeRow
<1> QED
  BY <1>1, <1>2, <1>3, <1>4

LEMMA StartIs ==
    ASSUME TypeInv, NEW t \in Tasks, NEW p, Start(t, p)
    PROVE  pass[t].pc = "off" /\ ~Busy(t) /\ Becomes(t, p) /\ starts' \in 0..MaxStarts
           /\ (backend = "cozo" /\ alone => \A u \in Tasks : ~Busy(u))
  BY GraphEvolutionAssumption DEF Start, MayStart, Ready, TypeInv, TypeOK

LEMMA EvolveMoves ==
    ASSUME TypeInv, NEW t \in Tasks, NEW a \in Agents, StartEvolve(t, a)
    PROVE  TypeInv'
<1>1. PICK found : /\ found \subseteq Candidates(a)
                   /\ Start(t, [Off EXCEPT !.pc = "merge", !.owner = a, !.pairs = found])
  <2>1. \A f \in [1..(2 * MaxMerges) -> Candidates(a) \cup {<<>>}] : Range(f) \ {<<>>} \subseteq Candidates(a)
    BY DEF Range
  <2> QED
    BY <2>1 DEF StartEvolve
<1> DEFINE p == [Off EXCEPT !.pc = "merge", !.owner = a, !.pairs = found]
<1>2. found \in SUBSET (Nodes \X Nodes \X [Keys -> Nodes \cup {NoNode}])
  BY <1>1, CandidateIs
<1>3. p \in PassType /\ p.pc = "merge" /\ p.count = 0 /\ p.pairs = found
  BY <1>2, OffSound DEF PassType, Phases, Owners
<1>4. SoundPass(p)
  BY <1>1, <1>3, CandidateIs, GraphEvolutionAssumption DEF SoundPass
<1> QED
  BY <1>1, <1>4, StartIs, PlanMoves DEF StartEvolve

(* A method begins in its first phase, with nothing read.                     *)
Enters(c, phase, s, a) ==
    /\ c \in CallType /\ c.pc = phase /\ c.s = s /\ c.a = a
    /\ c.row = NoNode /\ Live(c.saved) = {}

LEMMA NoCallIs == NoCall.pc = "none" /\ Enters(NoCall, "none", NoNode, NoNode)
<1>1. /\ NoCall.pc = "none" /\ NoCall.s = NoNode /\ NoCall.a = NoNode /\ NoCall.row = NoNode
      /\ NoCall.saved = [e \in Edges |-> NoEdge]
  BY DEF NoCall
<1> QED
  BY <1>1, NoCallType DEF Enters, Live

LEMMA MergeCallIs ==
    ASSUME NEW s \in Nodes, NEW a \in Nodes, NEW props \in [Keys -> Nodes \cup {NoNode}]
    PROVE  Enters(MergeCall(s, a, props), "mergeRead", s, a) /\ MergeCall(s, a, props).props = props
  BY NoCallIs DEF Enters, MergeCall, CallType, CallPhases

LEMMA WeightsCallIs ==
    ASSUME NEW w \in [Edges -> 0..MaxWeight]
    PROVE  Enters(WeightsCall(w), "weightRead", NoNode, NoNode)
  BY NoCallIs DEF Enters, WeightsCall, CallType, CallPhases

LEMMA ClientCallsAre ==
    ASSUME NEW n \in Nodes
    PROVE  /\ Enters(DeleteCall(n), "deleteEdges", NoNode, n)
           /\ Enters(UpdateCall(n), "updateRead", n, NoNode)
  BY NoCallIs DEF Enters, DeleteCall, UpdateCall, CallType, CallPhases

LEMMA ClearCallIs == Enters(ClearCall, "clearEdges", NoNode, NoNode)
  BY NoCallIs DEF Enters, ClearCall, CallType, CallPhases

LEMMA MergePairMoves ==
    ASSUME TypeInv, NEW t \in Tasks, MergePair(t)
    PROVE  TypeInv'
<1>1. /\ pass[t].pc = "merge" /\ ~Busy(t) /\ pass[t].count < MaxMerges
      /\ UNCHANGED <<backend, alone, minted, linked, starts>>
  BY DEF MergePair, Ready, Rest
<1>2. /\ SoundPass(pass[t]) /\ pass[t] \in PassType /\ starts \in 0..MaxStarts /\ MaxMerges \in Nat
      /\ minted \subseteq Nodes /\ linked \in 0..MaxEdges /\ pass[t].count \in Nat
  BY PassSound, GraphEvolutionAssumption DEF SoundPass, TypeInv, TypeOK, PassType
<1>3. PICK p \in pass[t].pairs :
        \/ /\ Becomes(t, [pass[t] EXCEPT !.pairs = @ \ {p}, !.count = @ + 1])
           /\ \/ backend = "sqlite" /\ SqlMerge(p[1], p[2], p[3]) /\ AtOnce
              \/ Begin(t, MergeCall(p[1], p[2], p[3]))
        \/ Becomes(t, [pass[t] EXCEPT !.pairs = @ \ {p}]) /\ Quiet
  BY DEF MergePair
<1>4. p[1] \in Nodes /\ p[2] \in Nodes /\ p[3] \in [Keys -> Nodes \cup {NoNode}] /\ p[1] # p[2]
      /\ {p[1], p[2]} \subseteq minted
  BY <1>2 DEF SoundPass, PassType
<1> DEFINE q == [pass[t] EXCEPT !.pairs = @ \ {p}, !.count = @ + 1]
           r == [pass[t] EXCEPT !.pairs = @ \ {p}]
<1>5. SoundPass(q) /\ q.pc = "merge" /\ q.count > 0
  <2>1. PICK n \in Nat : n = pass[t].count + 1 /\ n <= MaxMerges /\ n > 0
    BY <1>1, <1>2
  <2>2. q = [pass[t] EXCEPT !.pairs = @ \ {p}, !.count = n]
    BY <1>2, <2>1
  <2>3. q \in PassType /\ q.pc = "merge" /\ q.count = n /\ q.pairs = pass[t].pairs \ {p}
    BY <1>1, <1>2, <2>1, <2>2 DEF PassType
  <2> QED
    BY <1>1, <1>2, <2>1, <2>3 DEF SoundPass
<1>6. SoundPass(r)
  <2>1. r \in PassType /\ r.pc = "merge" /\ r.count = pass[t].count /\ r.pairs = pass[t].pairs \ {p}
    BY <1>1, <1>2 DEF PassType
  <2> QED
    BY <1>1, <1>2, <2>1 DEF SoundPass
<1> HIDE DEF q, r
<1>7. CASE Becomes(t, q) /\ backend = "sqlite" /\ SqlMerge(p[1], p[2], p[3]) /\ AtOnce
  <2>1. GraphTypeOK' /\ StoreFits'
    BY <1>1, <1>4, <1>7, SqlTypes
  <2> QED
    BY <1>1, <1>2, <1>5, <1>7, <2>1, CallerMoves DEF AtOnce
<1>8. CASE Becomes(t, q) /\ Begin(t, MergeCall(p[1], p[2], p[3]))
  <2>1. PICK s \in Nodes, a \in Nodes, props \in [Keys -> Nodes \cup {NoNode}] :
           s = p[1] /\ a = p[2] /\ props = p[3]
    BY <1>4
  <2>9. PICK c : c = MergeCall(s, a, props) /\ Enters(c, "mergeRead", s, a)
    BY MergeCallIs
  <2>2. Begin(t, c)
    BY <1>8, <2>1, <2>9
  <2>3. call'[t] = c /\ pass'[t] = q /\ backend' = "cozo"
    BY <1>1, <1>8, <2>2 DEF Becomes, Begin, TypeInv, TypeOK
  <2>4. CallFits(t)'
    BY <1>4, <1>5, <2>1, <2>3, <2>9 DEF Enters, CallFits, Busy, Merging, Reweighs
  <2> QED
    BY <1>1, <1>2, <1>4, <1>5, <1>8, <2>1, <2>2, <2>4, <2>9, BeginMoves DEF Enters
<1>9. CASE Becomes(t, r) /\ Quiet
  BY <1>1, <1>2, <1>6, <1>9, PlanMoves
<1> QED
  BY <1>3, <1>7, <1>8, <1>9 DEF q, r

LEMMA ListNodesMoves ==
    ASSUME TypeInv, NEW t \in Tasks, ListNodes(t)
    PROVE  TypeInv'
<1>1. /\ ~Busy(t) /\ Quiet /\ UNCHANGED <<backend, alone, minted, linked, starts>> /\ starts \in 0..MaxStarts
      /\ SoundPass(pass[t]) /\ pass[t] \in PassType
  BY PassSound DEF ListNodes, Ready, Rest, TypeInv, TypeOK, SoundPass
<1>2. PICK seen : seen = IF backend = "sqlite" THEN Loadable(nodes, pass[t].owner)
                         ELSE CozoVisible(nodes, pass[t].owner)
  OBVIOUS
<1>6. seen \in SUBSET Nodes /\ \A n \in seen : nodes[n] # NoNode
  BY <1>2 DEF Loadable, CozoVisible
<1>7. \/ Becomes(t, [Off EXCEPT !.pc = "strengthen", !.owner = pass[t].owner, !.todo = seen,
                         !.imps = [n \in Nodes |-> IF n \in seen THEN nodes[n].imp ELSE 0]])
      \/ Becomes(t, Off)
  BY <1>2 DEF ListNodes
<1> DEFINE imps == [n \in Nodes |-> IF n \in seen THEN nodes[n].imp ELSE 0]
           p == [Off EXCEPT !.pc = "strengthen", !.owner = pass[t].owner, !.todo = seen, !.imps = imps]
<1>3. imps \in [Nodes -> 0..2]
  BY <1>6 DEF TypeInv, TypeOK, GraphTypeOK, NodeRow
<1> HIDE DEF imps
<1>4. p \in PassType /\ p.pc = "strengthen" /\ p.pairs = {}
  BY <1>1, <1>3, <1>6, OffSound DEF PassType, Phases
<1>5. SoundPass(p)
  BY <1>4 DEF SoundPass
<1> QED
  BY <1>1, <1>5, <1>7, OffSound, PlanMoves DEF imps

LEMMA EdgesOfMoves ==
    ASSUME TypeInv, NEW t \in Tasks, EdgesOf(t)
    PROVE  TypeInv'
<1>1. /\ ~Busy(t) /\ Quiet /\ UNCHANGED <<backend, alone, minted, linked, starts>> /\ starts \in 0..MaxStarts
      /\ SoundPass(pass[t]) /\ pass[t] \in PassType /\ pass[t].pc = "strengthen"
  BY PassSound DEF EdgesOf, Ready, Rest, TypeInv, TypeOK, SoundPass
<1>2. PICK n \in Nodes, boosted \in SUBSET Live(edges) :
        \/ Becomes(t, [pass[t] EXCEPT !.todo = @ \ {n},
                          !.weights = [e \in Edges |-> IF e \in boosted THEN Boost(edges[e].weight) ELSE @[e]]])
        \/ Becomes(t, Off)
  BY <1>1 DEF EdgesOf, Incident, CozoEdgesOf, PassType
<1> DEFINE weights == [e \in Edges |-> IF e \in boosted THEN Boost(edges[e].weight) ELSE pass[t].weights[e]]
           p == [pass[t] EXCEPT !.todo = @ \ {n}, !.weights = weights]
<1>3. weights \in [Edges -> 0..MaxWeight]
  <2>1. \A e \in boosted : e \in Edges /\ edges[e] \in EdgeRow
    BY DEF Live, TypeInv, TypeOK, GraphTypeOK
  <2>2. \A w \in 1..MaxWeight : Boost(w) \in 0..MaxWeight
    BY KnowledgeGraphAssumption DEF Boost
  <2>3. \A e \in boosted : edges[e].weight \in 1..MaxWeight
    BY <2>1 DEF EdgeRow
  <2>4. \A e \in Edges : pass[t].weights[e] \in 0..MaxWeight
    BY <1>1 DEF PassType
  <2> QED
    BY <2>2, <2>3, <2>4
<1> HIDE DEF weights
<1>4. p \in PassType /\ p.pc = "strengthen" /\ p.pairs = pass[t].pairs
  BY <1>1, <1>3 DEF PassType
<1>5. SoundPass(p)
  BY <1>1, <1>4 DEF SoundPass
<1> QED
  BY <1>1, <1>2, <1>5, OffSound, PlanMoves DEF weights

LEMMA SetWeightsMoves ==
    ASSUME TypeInv, NEW t \in Tasks, SetWeights(t)
    PROVE  TypeInv'
<1>1. /\ ~Busy(t) /\ UNCHANGED <<backend, alone, minted, linked, starts>> /\ starts \in 0..MaxStarts
      /\ SoundPass(pass[t]) /\ pass[t] \in PassType /\ minted \subseteq Nodes /\ linked \in 0..MaxEdges
  BY PassSound DEF SetWeights, Ready, Rest, TypeInv, TypeOK, SoundPass
<1>2. PICK w \in [Edges -> 0..MaxWeight] : w = pass[t].weights
  BY <1>1 DEF PassType
<1>3. CASE Becomes(t, Off) /\ Quiet
  BY <1>1, <1>3, OffSound, PlanMoves
<1>4. CASE SqlSetWeights(w) /\ AtOnce /\ Becomes(t, Off)
  <2>1. GraphTypeOK' /\ StoreFits'
    BY <1>1, <1>4, SqlTypes
  <2> QED
    BY <1>1, <1>4, <2>1, OffSound, CallerMoves DEF AtOnce
<1>5. CASE Begin(t, WeightsCall(w)) /\ Becomes(t, [Off EXCEPT !.pc = "weigh", !.owner = pass[t].owner])
  <2> DEFINE p == [Off EXCEPT !.pc = "weigh", !.owner = pass[t].owner]
  <2>1. PICK c : c = WeightsCall(w) /\ Enters(c, "weightRead", NoNode, NoNode)
    BY WeightsCallIs
  <2>2. p \in PassType /\ p.pc = "weigh" /\ p.pairs = {}
    BY <1>1, OffSound DEF PassType, Phases
  <2>3. SoundPass(p)
    BY <2>2 DEF SoundPass
  <2>4. call'[t] = c /\ pass'[t] = p /\ backend' = "cozo"
    BY <1>1, <1>5, <2>1 DEF Becomes, Begin, TypeInv, TypeOK
  <2>5. CallFits(t)'
    BY <2>1, <2>2, <2>4 DEF Enters, CallFits, Busy, Merging, Weighing, Reweighs
  <2> QED
    BY <1>1, <1>5, <2>1, <2>3, <2>5, BeginMoves DEF Enters
<1> QED
  BY <1>2, <1>3, <1>4, <1>5 DEF SetWeights

LEMMA FinishMoves ==
    ASSUME TypeInv, NEW t \in Tasks, Finish(t)
    PROVE  TypeInv'
<1>1. /\ ~Busy(t) /\ UNCHANGED <<backend, alone, minted, linked, starts>> /\ starts \in 0..MaxStarts
      /\ Quiet /\ Becomes(t, Off)
  BY DEF Finish, Rest, TypeInv, TypeOK
<1> QED
  BY <1>1, OffSound, PlanMoves

LEMMA StartBuildMoves ==
    ASSUME TypeInv, NEW t \in Tasks, NEW a \in Agents, StartBuild(t, a)
    PROVE  TypeInv'
<1> DEFINE p == [Off EXCEPT !.pc = "nodes", !.owner = a]
<1>1. p \in PassType /\ p.pc = "nodes" /\ p.pairs = {} /\ p.owner \in Owners
  BY OffSound DEF PassType, Phases, Owners
<1>2. SoundPass(p)
  BY <1>1 DEF SoundPass
<1> QED
  BY <1>2, StartIs, PlanMoves DEF StartBuild

(* A caller that is making nodes works for somebody.                          *)
LEMMA NodeMoves ==
    ASSUME TypeInv, NEW t \in Tasks, ~Busy(t), minted # Nodes, minted' = minted \cup {Fresh},
           NEW row \in NodeRow, PutNode(Fresh, row) \/ UNCHANGED graph,
           NEW p, SoundPass(p), Becomes(t, p), UNCHANGED <<call, backend, alone, linked, starts, before>>
    PROVE  TypeInv'
<1>1. Fresh \in Nodes \ minted /\ minted \subseteq Nodes /\ linked \in 0..MaxEdges /\ starts \in 0..MaxStarts
  BY FreshIs DEF TypeInv, TypeOK
<1>2. GraphTypeOK' /\ StoreFits'
  <2>1. CASE PutNode(Fresh, row)
    BY <1>1, <2>1, PutType DEF TypeInv, StoreFits
  <2>2. CASE UNCHANGED graph
    BY <2>2 DEF TypeInv, TypeOK, StoreFits, GraphTypeOK, graph
  <2> QED
    BY <2>1, <2>2
<1> QED
  BY <1>1, <1>2, CallerMoves

LEMMA SeedNodeMoves ==
    ASSUME TypeInv, NEW t \in Tasks, SeedNode(t)
    PROVE  TypeInv'
<1>1. /\ ~Busy(t) /\ minted # Nodes /\ minted' = minted \cup {Fresh} /\ pass[t].pc = "seedNodes"
      /\ UNCHANGED <<call, backend, alone, linked, starts, before>>
      /\ SoundPass(pass[t]) /\ pass[t] \in PassType /\ Fresh \in Nodes
  BY PassSound, FreshIs DEF SeedNode, Ready, SoundPass
<1>2. PICK n \in Nat : n = pass[t].count + 1
  BY <1>1 DEF PassType
<1>3. Row(Shared, 2, SeedKeys) \in NodeRow
  BY <1>1, RowIs DEF Owners
<1>4. PICK ids \in Seq(Nodes) : ids = Append(pass[t].ids, Fresh)
  <2>1. pass[t].ids \in Seq(Nodes)
    BY <1>1 DEF PassType
  <2>2. \A u \in Seq(Nodes), m \in Nodes : Append(u, m) \in Seq(Nodes)
    OBVIOUS
  <2> QED
    BY <1>1, <2>1, <2>2
<1> DEFINE p == [pass[t] EXCEPT !.count = n, !.ids = ids]
           q == [pass[t] EXCEPT !.count = n]
<1>5. SoundPass(p) /\ SoundPass(q)
  <2>1. p \in PassType /\ q \in PassType /\ p.pc = "seedNodes" /\ q.pc = "seedNodes"
        /\ p.pairs = pass[t].pairs /\ q.pairs = pass[t].pairs
    BY <1>1 DEF PassType
  <2> QED
    BY <1>1, <2>1 DEF SoundPass
<1>6. \/ PutNode(Fresh, Row(Shared, 2, SeedKeys)) /\ Becomes(t, p)
      \/ UNCHANGED graph /\ Becomes(t, q)
  BY <1>2, <1>4 DEF SeedNode
<1> HIDE DEF p, q
<1>7. PICK r : SoundPass(r) /\ Becomes(t, r) /\ (PutNode(Fresh, Row(Shared, 2, SeedKeys)) \/ UNCHANGED graph)
  BY <1>5, <1>6
<1> QED
  BY <1>1, <1>3, <1>7, NodeMoves

LEMMA BuildNodeMoves ==
    ASSUME TypeInv, NEW t \in Tasks, BuildNode(t)
    PROVE  TypeInv'
<1>1. /\ ~Busy(t) /\ minted # Nodes /\ minted' = minted \cup {Fresh} /\ pass[t].pc = "nodes"
      /\ UNCHANGED <<call, backend, alone, linked, starts, before>>
      /\ SoundPass(pass[t]) /\ pass[t] \in PassType /\ Fresh \in Nodes /\ pass[t].owner \in Owners
  BY PassSound, FreshIs DEF BuildNode, Ready, SoundPass
<1>2. Row(pass[t].owner, 1, ChunkKeys) \in NodeRow
  BY <1>1, RowIs
<1>3. PICK ids \in Seq(Nodes) : ids = Append(pass[t].ids, Fresh)
  <2>1. pass[t].ids \in Seq(Nodes)
    BY <1>1 DEF PassType
  <2>2. \A u \in Seq(Nodes), m \in Nodes : Append(u, m) \in Seq(Nodes)
    OBVIOUS
  <2> QED
    BY <1>1, <2>1, <2>2
<1> DEFINE p == [pass[t] EXCEPT !.ids = ids]
<1>4. SoundPass(p)
  <2>1. p \in PassType /\ p.pc = "nodes" /\ p.pairs = pass[t].pairs /\ p.owner = pass[t].owner
    BY <1>1 DEF PassType
  <2> QED
    BY <1>1, <2>1 DEF SoundPass
<1>5. Becomes(t, p) /\ (PutNode(Fresh, Row(pass[t].owner, 1, ChunkKeys)) \/ UNCHANGED graph)
  BY <1>3 DEF BuildNode
<1> HIDE DEF p
<1> QED
  BY <1>1, <1>2, <1>4, <1>5, NodeMoves

LEMMA LinksDoneMoves ==
    ASSUME TypeInv, NEW t \in Tasks, LinksDone(t), ~Busy(t)
    PROVE  TypeInv'
<1>1. UNCHANGED <<backend, alone, minted, linked, starts>> /\ starts \in 0..MaxStarts
      /\ Quiet /\ Becomes(t, Off)
  BY DEF LinksDone, Rest, TypeInv, TypeOK
<1> QED
  BY <1>1, OffSound, PlanMoves

LEMMA LinkIs ==
    ASSUME TypeInv, NEW t \in Tasks, pass[t].pc = "links", NEW l \in pass[t].links
    PROVE  [src |-> pass[t].ids[l[1]], tgt |-> pass[t].ids[l[2]], rel |-> l[3],
            weight |-> LinkWeight(l[3]), agent |-> pass[t].owner] \in EdgeRow
<1>1. pass[t] \in PassType /\ SoundPass(pass[t])
  BY PassSound DEF SoundPass
<1>2. l[1] \in 1..Len(pass[t].ids) /\ l[2] \in 1..Len(pass[t].ids) /\ pass[t].ids \in Seq(Nodes)
      /\ l[3] \in Relations /\ pass[t].owner \in Owners
  BY <1>1 DEF SoundPass, PassType
<1>3. pass[t].ids[l[1]] \in Nodes /\ pass[t].ids[l[2]] \in Nodes
  BY <1>2
<1>4. LinkWeight(l[3]) \in 1..MaxWeight
  BY KnowledgeGraphAssumption DEF LinkWeight
<1> QED
  BY <1>2, <1>3, <1>4 DEF EdgeRow

LEMMA AddLinkMoves ==
    ASSUME TypeInv, NEW t \in Tasks, AddLink(t)
    PROVE  TypeInv'
<1>1. /\ ~Busy(t) /\ pass[t].pc = "links" /\ UNCHANGED <<call, before, backend, alone, minted, starts>>
      /\ SoundPass(pass[t]) /\ pass[t] \in PassType
      /\ linked \in 0..MaxEdges /\ minted \subseteq Nodes /\ starts \in 0..MaxStarts /\ MaxEdges \in Nat
  BY PassSound, KnowledgeGraphAssumption DEF AddLink, Ready, SoundPass, TypeInv, TypeOK
<1>2. PICK l \in pass[t].links :
        /\ Becomes(t, [pass[t] EXCEPT !.links = @ \ {l}])
        /\ \/ /\ linked < MaxEdges /\ linked' = linked + 1
              /\ PutEdge(linked + 1,
                         [src |-> pass[t].ids[l[1]], tgt |-> pass[t].ids[l[2]], rel |-> l[3],
                          weight |-> LinkWeight(l[3]), agent |-> pass[t].owner])
           \/ UNCHANGED <<graph, linked>>
  BY DEF AddLink
<1> DEFINE p == [pass[t] EXCEPT !.links = @ \ {l}]
<1>3. SoundPass(p)
  <2>1. p \in PassType /\ p.pc = "links" /\ p.pairs = pass[t].pairs /\ p.owner = pass[t].owner
        /\ p.links = pass[t].links \ {l} /\ p.ids = pass[t].ids
    BY <1>1 DEF PassType
  <2> QED
    BY <1>1, <2>1 DEF SoundPass
<1>4. Becomes(t, p)
  BY <1>2
<1> HIDE DEF p
<1>5. CASE /\ linked < MaxEdges /\ linked' = linked + 1
           /\ PutEdge(linked + 1,
                      [src |-> pass[t].ids[l[1]], tgt |-> pass[t].ids[l[2]], rel |-> l[3],
                       weight |-> LinkWeight(l[3]), agent |-> pass[t].owner])
  <2>1. PICK row \in EdgeRow : PutEdge(linked + 1, row)
    BY <1>1, <1>5, LinkIs
  <2>2. linked + 1 \in Edges /\ linked' \in 0..MaxEdges /\ linked <= linked' /\ 1..linked \cup {linked + 1} \subseteq 1..linked'
    BY <1>1, <1>5 DEF Edges
  <2>3. /\ GraphTypeOK' /\ nodes' = nodes
        /\ \A f \in Edges : f # linked + 1 => edges'[f] = edges[f]
    BY <2>1, <2>2, PutType
  <2>4. StoreFits'
    BY <1>1, <2>2, <2>3 DEF TypeInv, StoreFits, Live
  <2> QED
    BY <1>1, <1>3, <1>4, <2>2, <2>3, <2>4, CallerMoves
<1>6. CASE UNCHANGED <<graph, linked>>
  <2>1. GraphTypeOK' /\ StoreFits'
    BY <1>1, <1>6 DEF TypeInv, TypeOK, StoreFits, GraphTypeOK, graph
  <2> QED
    BY <1>1, <1>3, <1>4, <1>6, <2>1, CallerMoves
<1> QED
  BY <1>2, <1>5, <1>6

LEMMA PlanLinksMoves ==
    ASSUME TypeInv, NEW t \in Tasks, PlanLinks(t)
    PROVE  TypeInv'
<1>1. /\ pass[t].pc = "nodes" /\ Len(pass[t].ids) = ChunkCount /\ Quiet /\ Rest
      /\ SoundPass(pass[t]) /\ pass[t] \in PassType /\ CallFits(t) /\ ChunkCount \in Nat /\ SeedCount \in Nat
  BY PassSound, GraphEvolutionAssumption DEF PlanLinks, SoundPass, WorkFits
<1>2. ~Busy(t) /\ pass[t].owner \in Owners
  BY <1>1 DEF CallFits, SoundPass
<1>3. PICK S \in SUBSET {l \in Sharing : l[2] > l[1] + 1} :
         Becomes(t, [pass[t] EXCEPT !.pc = "links", !.links = Following \cup S])
  BY DEF PlanLinks
<1> DEFINE links == Following \cup S
<1>4. \A l \in links : /\ l[1] \in 1..ChunkCount /\ l[2] \in 1..ChunkCount
                       /\ l \in Indices \X Indices \X Relations
  <2>1. \A l \in Sharing : /\ l[1] \in 1..ChunkCount /\ l[2] \in 1..ChunkCount
                          /\ l \in Indices \X Indices \X Relations
    BY <1>1, GraphEvolutionAssumption DEF Indices, Sharing, Following
  <2>2. \A l \in Following : /\ l[1] \in 1..ChunkCount /\ l[2] \in 1..ChunkCount
                           /\ l \in Indices \X Indices \X Relations
    BY <1>1, GraphEvolutionAssumption DEF Indices, Sharing, Following
  <2> QED
    BY <1>3, <2>1, <2>2
<1> DEFINE p == [pass[t] EXCEPT !.pc = "links", !.links = links]
<1>5. Becomes(t, p)
  BY <1>3
<1> HIDE DEF links
<1>6. SoundPass(p)
  <2>1. p \in PassType /\ p.pc = "links" /\ p.pairs = pass[t].pairs /\ p.owner = pass[t].owner
        /\ p.links = links /\ p.ids = pass[t].ids
    <3>1. links \in SUBSET (Indices \X Indices \X Relations)
      BY <1>4
    <3> QED
      BY <1>1, <3>1 DEF PassType, Phases
  <2> QED
    BY <1>1, <1>2, <1>4, <2>1 DEF SoundPass
<1>7. UNCHANGED <<backend, alone, minted, linked>> /\ starts' \in 0..MaxStarts
  BY <1>1 DEF Rest, TypeInv, TypeOK
<1> HIDE DEF p
<1> QED
  BY <1>1, <1>2, <1>5, <1>6, <1>7, PlanMoves

LEMMA PlanSeedLinksMoves ==
    ASSUME TypeInv, NEW t \in Tasks, PlanSeedLinks(t), ~Busy(t)
    PROVE  TypeInv'
<1>1. /\ pass[t].pc = "seedNodes" /\ Quiet /\ Rest
      /\ SoundPass(pass[t]) /\ pass[t] \in PassType /\ ChunkCount \in Nat /\ SeedCount \in Nat
  BY PassSound, GraphEvolutionAssumption DEF PlanSeedLinks, SoundPass
<1> DEFINE made == 1..Len(pass[t].ids)
           links == {<<l[1], l[2], "seeded">> : l \in SeedLinks \cap (made \X made)}
           p == [pass[t] EXCEPT !.pc = "links", !.count = 0, !.links = links]
<1>2. \A l \in links : /\ l[1] \in made /\ l[2] \in made
                       /\ l \in Indices \X Indices \X Relations
  BY <1>1, GraphEvolutionAssumption DEF Indices
<1>3. Becomes(t, p)
  BY DEF PlanSeedLinks
<1> HIDE DEF links
<1>4. SoundPass(p)
  <2>1. p \in PassType /\ p.pc = "links" /\ p.pairs = pass[t].pairs /\ p.owner = pass[t].owner
        /\ p.links = links /\ p.ids = pass[t].ids
    BY <1>1, <1>2 DEF PassType, Phases
  <2> QED
    BY <1>1, <1>2, <2>1 DEF SoundPass
<1>5. UNCHANGED <<backend, alone, minted, linked>> /\ starts' \in 0..MaxStarts
  BY <1>1 DEF Rest, TypeInv, TypeOK
<1> HIDE DEF p
<1> QED
  BY <1>1, <1>3, <1>4, <1>5, PlanMoves

(* A request on the whole store or on one node: at once, or as a method of     *)
(* CozoDB on its way.                                                       *)
LEMMA RequestMoves ==
    ASSUME TypeInv, NEW t \in Tasks, NEW p, SoundPass(p), Start(t, p),
           UNCHANGED <<backend, alone, minted, linked>>,
           \/ /\ AtOnce
              /\ \/ \E n \in Nodes : SqlDelete(n) \/ SqlDeleteFails(n) \/ \E i \in {1, 2} : SqlUpdate(n, i)
                 \/ SqlClear \/ SqlClearFails \/ UNCHANGED graph
           \/ /\ p.pc \in {"client", "seedNodes"} /\ Begin(t, ClearCall)
           \/ \E n \in minted : /\ p.pc = "client" /\ n \in Nodes
                                /\ Begin(t, DeleteCall(n)) \/ Begin(t, UpdateCall(n))
    PROVE  TypeInv'
<1>1. /\ ~Busy(t) /\ Becomes(t, p) /\ starts' \in 0..MaxStarts /\ minted \subseteq Nodes /\ linked \in 0..MaxEdges
  BY StartIs DEF TypeInv, TypeOK
<1>2. ASSUME AtOnce,
             \/ \E n \in Nodes : SqlDelete(n) \/ SqlDeleteFails(n) \/ \E i \in {1, 2} : SqlUpdate(n, i)
             \/ SqlClear \/ SqlClearFails \/ UNCHANGED graph
      PROVE  TypeInv'
  <2>1. GraphTypeOK' /\ StoreFits'
    BY <1>2, SqlTypes
  <2> QED
    BY <1>1, <1>2, <2>1, CallerMoves DEF AtOnce
<1>3. ASSUME NEW c, NEW phase, NEW s, NEW a, Enters(c, phase, s, a), Begin(t, c), {s, a} \ {NoNode} \subseteq minted,
             \/ phase = "clearEdges" /\ p.pc \in {"client", "seedNodes"}
             \/ phase = "deleteEdges" /\ p.pc = "client" /\ a \in Nodes
             \/ phase = "updateRead" /\ p.pc = "client" /\ s \in Nodes
      PROVE  TypeInv'
  <2>1. call'[t] = c /\ pass'[t] = p /\ backend' = "cozo"
    BY <1>1, <1>3 DEF Becomes, Begin, TypeInv, TypeOK
  <2>2. CallFits(t)'
    BY <1>3, <2>1 DEF Enters, CallFits, Busy, Merging, Reweighs
  <2> QED
    BY <1>1, <1>3, <2>2, BeginMoves DEF Enters
<1>4. CASE p.pc \in {"client", "seedNodes"} /\ Begin(t, ClearCall)
  BY <1>3, <1>4, ClearCallIs
<1>5. ASSUME NEW n \in minted, p.pc = "client", n \in Nodes, Begin(t, DeleteCall(n)) \/ Begin(t, UpdateCall(n))
      PROVE  TypeInv'
  BY <1>3, <1>5, ClientCallsAre
<1> QED
  BY <1>2, <1>4, <1>5

LEMMA StartSeedMoves ==
    ASSUME TypeInv, NEW t \in Tasks, StartSeed(t)
    PROVE  TypeInv'
<1> DEFINE p == [Off EXCEPT !.pc = "seedNodes", !.owner = Shared]
<1>1. p \in PassType /\ p.pc = "seedNodes" /\ p.pairs = {} /\ p.owner \in Owners
  BY OffSound DEF PassType, Phases, Owners
<1>2. SoundPass(p)
  BY <1>1 DEF SoundPass
<1> QED
  BY <1>1, <1>2, RequestMoves DEF StartSeed

LEMMA ClientMoves ==
    ASSUME TypeInv, NEW t \in Tasks,
           ClientClear(t) \/ \E n \in Nodes : ClientDelete(t, n) \/ ClientUpdate(t, n)
    PROVE  TypeInv'
<1> DEFINE p == [Off EXCEPT !.pc = "client"]
<1>1. p \in PassType /\ p.pc = "client" /\ p.pairs = {}
  BY OffSound DEF PassType, Phases
<1>2. SoundPass(p) /\ SoundPass(Off)
  BY <1>1, OffSound DEF SoundPass
<1>3. CASE ClientClear(t)
  BY <1>1, <1>2, <1>3, RequestMoves DEF ClientClear
<1>4. ASSUME NEW n \in Nodes, ClientDelete(t, n)
      PROVE  TypeInv'
  <2>1. n \in minted
    BY <1>4 DEF ClientDelete, TypeInv, StoreFits
  <2> QED
    BY <1>1, <1>2, <1>4, <2>1, RequestMoves DEF ClientDelete
<1>5. ASSUME NEW n \in Nodes, ClientUpdate(t, n)
      PROVE  TypeInv'
  <2>1. n \in minted
    BY <1>5 DEF ClientUpdate
  <2> QED
    BY <1>1, <1>2, <1>5, <2>1, RequestMoves DEF ClientUpdate
<1> QED
  BY <1>3, <1>4, <1>5

(* The disjuncts of Next, of one caller.                                      *)
Acts(t) ==
    \/ Script(t)
    \/ \E a \in Agents : StartEvolve(t, a) \/ StartBuild(t, a)
    \/ MergePair(t) \/ ListNodes(t) \/ EdgesOf(t) \/ SetWeights(t) \/ Finish(t)
    \/ BuildNode(t) \/ PlanLinks(t) \/ AddLink(t) \/ LinksDone(t)
    \/ StartSeed(t) \/ SeedNode(t) \/ PlanSeedLinks(t)
    \/ \E n \in Nodes : ClientDelete(t, n) \/ ClientUpdate(t, n)
    \/ ClientClear(t)

LEMMA ActsNext == Next <=> \E t \in Tasks : Acts(t)
  BY DEF Next, Acts

LEMMA TypeStep == TypeInv /\ [Next]_vars => TypeInv'
<1> SUFFICES ASSUME TypeInv, [Next]_vars PROVE TypeInv'
  OBVIOUS
<1>1. ASSUME NEW t \in Tasks, Acts(t)
      PROVE  TypeInv'
  <2>1. CASE Script(t)
    BY <2>1, ScriptMoves
  <2>2. ASSUME NEW a \in Agents, StartEvolve(t, a) \/ StartBuild(t, a)
        PROVE  TypeInv'
    BY <2>2, EvolveMoves, StartBuildMoves
  <2>3. CASE MergePair(t) \/ ListNodes(t) \/ EdgesOf(t) \/ SetWeights(t) \/ Finish(t)
    BY <2>3, MergePairMoves, ListNodesMoves, EdgesOfMoves, SetWeightsMoves, FinishMoves
  <2>4. CASE LinksDone(t)
    <3>1. ~Busy(t)
      BY <2>4 DEF LinksDone, TypeInv, WorkFits, CallFits
    <3> QED
      BY <2>4, <3>1, LinksDoneMoves
  <2>5. CASE BuildNode(t) \/ PlanLinks(t) \/ AddLink(t)
    BY <2>5, BuildNodeMoves, PlanLinksMoves, AddLinkMoves
  <2>6. CASE StartSeed(t) \/ SeedNode(t) \/ PlanSeedLinks(t)
    BY <2>6, StartSeedMoves, SeedNodeMoves, PlanSeedLinksMoves DEF PlanSeedLinks
  <2>7. CASE ClientClear(t) \/ \E n \in Nodes : ClientDelete(t, n) \/ ClientUpdate(t, n)
    BY <2>7, ClientMoves
  <2> QED
    BY <1>1, <2>1, <2>2, <2>3, <2>4, <2>5, <2>6, <2>7 DEF Acts
<1>2. CASE UNCHANGED vars
  <2> USE <1>2 DEF vars
  <2>1. TypeOK' /\ StoreFits'
    BY DEF TypeInv, TypeOK, GraphTypeOK, StoreFits
  <2>2. ASSUME NEW t \in Tasks PROVE WorkFits(t)'
    BY DEF TypeInv, WorkFits, CallFits, PassFits, IdsFit, Busy
  <2> QED
    BY <2>1, <2>2 DEF TypeInv
<1> QED
  BY <1>1, <1>2, ActsNext

----------------------------------------------------------------------------
(* What a CozoDB method that runs alone has done so far.                      *)

LEMMA RedirectsNothing ==
    ASSUME NEW r \in EdgeRow, NEW s, NEW a, r.src # a, r.tgt # a
    PROVE  Redirect(r, s, a) = r
  BY DEF Redirect, EdgeRow

LEMMA RestoreBegins ==
    ASSUME NEW s \in Nodes, NEW a \in Nodes,
           NEW E \in [Edges -> EdgeRow \cup {NoEdge}], NEW F, F = Without(E, Incident(E, a)),
           NEW saved, saved = Without(E, Live(E) \ Incident(E, a))
    PROVE  RestoredTo(E, F, saved, {Triple(F[e]) : e \in Incident(F, s)}, s, a)
<1>1. /\ Live(F) = Live(E) \ Incident(E, a) /\ \A e \in Live(F) : F[e] = E[e]
      /\ \A e \in Live(F) : e \in Edges /\ E[e] \in EdgeRow /\ E[e].src # a /\ E[e].tgt # a
  BY DEF Live, Incident, Without
<1>2. \A e \in Live(F) : F[e] = Redirect(E[e], s, a)
  BY <1>1, RedirectsNothing
<1>3. Live(saved) = Incident(E, a) /\ \A e \in Live(saved) : saved[e] = E[e] /\ e \in Live(E)
  BY DEF Live, Incident, Without
<1>4. \A e \in Live(E) \ Live(saved) : e \in Live(F) /\ F[e] = Redirect(E[e], s, a)
  BY <1>1, <1>2, <1>3
<1>5. \A x \in {Triple(F[e]) : e \in Incident(F, s)} : \E f \in Live(F) : Triple(F[f]) = x
  BY DEF Incident
<1> QED
  BY <1>1, <1>2, <1>3, <1>4, <1>5 DEF RestoredTo

(* One saved edge r, redirected: put back into F, or not needed there.        *)
PutsBack(F, saved, seen, e, r, G, left, known) ==
    /\ e \in Live(saved)
    /\ G = IF IsLoop(r) \/ Triple(r) \in seen THEN F ELSE [F EXCEPT ![e] = r]
    /\ left = [saved EXCEPT ![e] = NoEdge]
    /\ known = IF IsLoop(r) THEN seen ELSE seen \cup {Triple(r)}

LEMMA RestoreGoesOn ==
    ASSUME NEW E \in [Edges -> EdgeRow \cup {NoEdge}], NEW F \in [Edges -> EdgeRow \cup {NoEdge}],
           NEW saved \in [Edges -> EdgeRow \cup {NoEdge}], NEW seen, NEW s \in Nodes, NEW a \in Nodes,
           RestoredTo(E, F, saved, seen, s, a), NEW e, NEW G, NEW left, NEW known,
           PutsBack(F, saved, seen, e, Redirect(saved[e], s, a), G, left, known)
    PROVE  RestoredTo(E, G, left, known, s, a)
<1>0. PICK r : r = Redirect(saved[e], s, a)
  OBVIOUS
<1> USE <1>0 DEF PutsBack
<1>1. /\ \A f \in Live(F) : f \in Live(E) /\ F[f] = Redirect(E[f], s, a)
      /\ \A f \in Live(saved) : f \in Live(E) /\ f \notin Live(F) /\ saved[f] = E[f]
      /\ \A f \in Live(E) \ Live(saved) :
            ~IsLoop(Redirect(E[f], s, a)) =>
               \E g \in Live(F) : Triple(F[g]) = Triple(Redirect(E[f], s, a))
      /\ \A x \in seen : \E f \in Live(F) : Triple(F[f]) = x
  BY DEF RestoredTo
<1>2. e \in Live(E) /\ e \notin Live(F) /\ e \in Edges /\ saved[e] = E[e] /\ saved[e] \in EdgeRow
  BY <1>1 DEF Live
<1>3. r \in EdgeRow /\ r # NoEdge /\ r = Redirect(E[e], s, a)
  BY <1>2, RedirectType, NoRows
<1>4. Live(left) = Live(saved) \ {e} /\ \A f \in Live(left) : left[f] = saved[f]
  BY <1>2 DEF Live
<1>5. \A f \in Live(F) : f \in Live(G) /\ G[f] = F[f]
  BY <1>2 DEF Live
<1>6. Live(G) \subseteq Live(F) \cup {e} /\ (e \in Live(G) => G[e] = r)
  BY <1>2 DEF Live
<1>7. ~IsLoop(r) => \E g \in Live(G) : Triple(G[g]) = Triple(r)
  <2>1. CASE Triple(r) \in seen
    BY <1>1, <1>5, <2>1
  <2>2. CASE Triple(r) \notin seen /\ ~IsLoop(r)
    <3>1. e \in Live(G) /\ G[e] = r
      BY <1>2, <1>3, <2>2 DEF Live
    <3> QED
      BY <3>1
  <2> QED
    BY <2>1, <2>2
<1>8. \A f \in Live(G) : f \in Live(E) /\ G[f] = Redirect(E[f], s, a)
  BY <1>1, <1>2, <1>3, <1>5, <1>6
<1>9. \A f \in Live(left) : f \in Live(E) /\ f \notin Live(G) /\ left[f] = E[f]
  BY <1>1, <1>4, <1>6
<1>10. \A f \in Live(E) \ Live(left) :
          ~IsLoop(Redirect(E[f], s, a)) =>
             \E g \in Live(G) : Triple(G[g]) = Triple(Redirect(E[f], s, a))
  <2> SUFFICES ASSUME NEW f \in Live(E) \ Live(left), ~IsLoop(Redirect(E[f], s, a))
               PROVE  \E g \in Live(G) : Triple(G[g]) = Triple(Redirect(E[f], s, a))
    OBVIOUS
  <2>1. CASE f = e
    BY <1>3, <1>7, <2>1
  <2>2. CASE f # e
    <3>1. f \in Live(E) \ Live(saved)
      BY <1>4, <2>2
    <3>2. PICK g \in Live(F) : Triple(F[g]) = Triple(Redirect(E[f], s, a))
      BY <1>1, <3>1
    <3> QED
      BY <1>5, <3>2
  <2> QED
    BY <2>1, <2>2
<1>11. \A x \in known : \E f \in Live(G) : Triple(G[f]) = x
  BY <1>1, <1>5, <1>7
<1> QED
  BY <1>8, <1>9, <1>10, <1>11 DEF RestoredTo

LEMMA RestoreEnds ==
    ASSUME NEW E, NEW F \in [Edges -> EdgeRow \cup {NoEdge}], NEW saved, NEW seen, NEW s, NEW a,
           RestoredTo(E, F, saved, seen, s, a), Live(saved) = {}
    PROVE  MergedEdges(E, F, s, a)
  BY DEF RestoredTo, MergedEdges

LEMMA ReweightedGoesOn ==
    ASSUME NEW E \in [Edges -> EdgeRow \cup {NoEdge}], NEW F, Reweighted(E, F),
           NEW e \in Live(F), NEW v \in 1..MaxWeight
    PROVE  Reweighted(E, [F EXCEPT ![e] = [F[e] EXCEPT !.weight = v]])
<1>1. PICK w \in [Edges -> 0..MaxWeight] :
         F = [f \in Edges |-> IF E[f] = NoEdge \/ w[f] = 0 THEN E[f] ELSE [E[f] EXCEPT !.weight = w[f]]]
  BY DEF Reweighted
<1> DEFINE x == [w EXCEPT ![e] = v]
<1>2. e \in Edges /\ x \in [Edges -> 0..MaxWeight] /\ x[e] # 0 /\ E[e] # NoEdge /\ E[e] \in EdgeRow
  BY <1>1, KnowledgeGraphAssumption DEF Live
<1>3. [F[e] EXCEPT !.weight = v] = [E[e] EXCEPT !.weight = x[e]]
  BY <1>1, <1>2 DEF EdgeRow
<1>4. [F EXCEPT ![e] = [F[e] EXCEPT !.weight = v]] =
         [f \in Edges |-> IF E[f] = NoEdge \/ x[f] = 0 THEN E[f] ELSE [E[f] EXCEPT !.weight = x[f]]]
  BY <1>1, <1>2, <1>3
<1> QED
  BY <1>2, <1>4 DEF Reweighted

(* Callers whose method goes on, and what a single script adds to it.         *)
Stands(t) == EdgesDone(t) /\ NodesDone(t)

LEMMA MergeStands ==
    ASSUME TypeInv, NEW t \in Tasks, Stands(t), Busy(t), before' = before,
           \/ MergeRead(t) \/ MergeRemove(t) \/ MergeSeen(t) \/ MergePut(t) \/ MergePutDone(t)
           \/ PropsRead(t) \/ PropsPut(t)
    PROVE  Stands(t)'
<1> USE DEF graph
<1>1. PICK E, N : E = before.edges /\ N = before.nodes
  OBVIOUS
<1>2. /\ E \in [Edges -> EdgeRow \cup {NoEdge}] /\ N \in [Nodes -> NodeRow \cup {NoNode}]
      /\ nodes \in [Nodes -> NodeRow \cup {NoNode}] /\ edges \in [Edges -> EdgeRow \cup {NoEdge}]
      /\ call \in [Tasks -> CallType] /\ call[t] \in CallType
  BY <1>1 DEF TypeInv, TypeOK, GraphTypeOK
<1>3. PICK s \in Nodes, a \in Nodes : s = call[t].s /\ a = call[t].a
  <2>1. call[t].pc \in Merging /\ CallFits(t)
    BY DEF TypeInv, WorkFits, MergeRead, MergeRemove, MergeSeen, MergePut, MergePutDone, PropsRead, PropsPut, Merging
  <2> QED
    BY <2>1 DEF CallFits
<1>4. nodes = N
  BY <1>1 DEF Stands, NodesDone, MergeRead, MergeRemove, MergeSeen, MergePut, MergePutDone, PropsRead, PropsPut
<1>5. CASE MergeRead(t)
  <2>1. edges = E
    BY <1>1, <1>5 DEF Stands, EdgesDone, MergeRead
  <2>2. /\ call'[t].pc = "mergeRemove" /\ call'[t].a = a /\ edges' = edges /\ nodes' = nodes
        /\ call'[t].saved = Without(E, Live(E) \ Incident(E, a))
    BY <1>2, <1>3, <1>5, <2>1 DEF MergeRead, CallType
  <2> QED
    BY <1>1, <1>4, <2>1, <2>2 DEF Stands, EdgesDone, NodesDone, Weighing, Busy
<1>6. CASE MergeRemove(t)
  <2>1. edges = E /\ call[t].saved = Without(E, Live(E) \ Incident(E, a))
    BY <1>1, <1>3, <1>6 DEF Stands, EdgesDone, MergeRemove
  <2>2. /\ call'[t].pc = "mergeSeen" /\ call'[t].a = a /\ edges' = Without(E, Incident(E, a)) /\ nodes' = nodes
        /\ call'[t].saved = call[t].saved
    BY <1>2, <1>3, <1>6, <2>1 DEF MergeRemove, Goto, CallType
  <2> QED
    BY <1>1, <1>4, <2>1, <2>2 DEF Stands, EdgesDone, NodesDone, Weighing, Busy
<1>7. CASE MergeSeen(t)
  <2>1. edges = Without(E, Incident(E, a)) /\ call[t].saved = Without(E, Live(E) \ Incident(E, a))
    BY <1>1, <1>3, <1>7 DEF Stands, EdgesDone, MergeSeen
  <2>2. /\ call'[t].pc = "mergePut" /\ call'[t].a = a /\ call'[t].s = s /\ edges' = edges /\ nodes' = nodes
        /\ call'[t].saved = call[t].saved /\ call'[t].seen = {Triple(edges[e]) : e \in Incident(edges, s)}
    BY <1>2, <1>3, <1>7 DEF MergeSeen, CallType
  <2>3. RestoredTo(E, edges, call[t].saved, {Triple(edges[e]) : e \in Incident(edges, s)}, s, a)
    BY <1>2, <2>1, RestoreBegins
  <2>4. Restored(t)'
    BY <1>1, <2>2, <2>3 DEF Restored
  <2> QED
    BY <1>1, <1>4, <2>2, <2>4 DEF Stands, EdgesDone, NodesDone, Weighing, Busy
<1>8. CASE MergePut(t)
  <2>1. PICK e \in Live(call[t].saved) :
           LET r == Redirect(call[t].saved[e], call[t].s, call[t].a)
           IN  /\ call' = [call EXCEPT ![t].saved[e] = NoEdge,
                              ![t].seen = IF IsLoop(r) THEN @ ELSE @ \cup {Triple(r)}]
               /\ edges' = IF IsLoop(r) \/ Triple(r) \in call[t].seen THEN edges
                           ELSE [edges EXCEPT ![e] = r]
    BY <1>8 DEF MergePut
  <2>2. PICK saved, seen, r : saved = call[t].saved /\ seen = call[t].seen /\ r = Redirect(saved[e], s, a)
    OBVIOUS
  <2>3. PICK left, known : /\ left = [saved EXCEPT ![e] = NoEdge]
                           /\ known = IF IsLoop(r) THEN seen ELSE seen \cup {Triple(r)}
    OBVIOUS
  <2>4. /\ call'[t].pc = "mergePut" /\ call'[t].a = a /\ call'[t].s = s
        /\ call'[t].saved = left /\ call'[t].seen = known
        /\ edges' = IF IsLoop(r) \/ Triple(r) \in seen THEN edges ELSE [edges EXCEPT ![e] = r]
        /\ nodes' = nodes
    BY <1>2, <1>3, <1>8, <2>1, <2>2, <2>3 DEF MergePut, CallType
  <2>5. RestoredTo(E, edges, saved, seen, s, a)
    BY <1>1, <1>3, <1>8, <2>2 DEF Stands, EdgesDone, Restored, MergePut
  <2>6. saved \in [Edges -> EdgeRow \cup {NoEdge}] /\ e \in Live(saved)
    BY <1>2, <2>2 DEF CallType
  <2>9. PICK F, G : F = edges /\ G = edges'
    OBVIOUS
  <2>10. PutsBack(F, saved, seen, e, Redirect(saved[e], s, a), G, left, known)
    BY <2>2, <2>3, <2>4, <2>6, <2>9 DEF PutsBack
  <2>7. RestoredTo(E, G, left, known, s, a)
    BY <1>2, <2>5, <2>6, <2>9, <2>10, RestoreGoesOn
  <2>8. Restored(t)'
    BY <1>1, <2>4, <2>7, <2>9 DEF Restored
  <2> QED
    BY <1>1, <1>4, <2>4, <2>8 DEF Stands, EdgesDone, NodesDone, Weighing, Busy
<1>9. CASE MergePutDone(t)
  <2>1. /\ call'[t].pc = "propsRead" /\ call'[t].a = a /\ call'[t].s = s /\ edges' = edges /\ nodes' = nodes
        /\ call'[t].saved = call[t].saved
    BY <1>2, <1>3, <1>9 DEF MergePutDone, Goto, CallType
  <2>2. MergedEdges(E, edges, s, a)
    BY <1>1, <1>2, <1>3, <1>9, RestoreEnds DEF Stands, EdgesDone, Restored, MergePutDone
  <2> QED
    BY <1>1, <1>4, <2>1, <2>2 DEF Stands, EdgesDone, NodesDone, Weighing, Busy
<1>10. CASE PropsRead(t)
  <2>1. /\ call'[t].pc = (IF nodes[s] = NoNode THEN "mergeDrop" ELSE "propsPut")
        /\ call'[t].a = a /\ call'[t].s = s /\ edges' = edges /\ nodes' = nodes
        /\ call'[t].row = nodes[s]
    BY <1>2, <1>3, <1>10 DEF PropsRead, CallType
  <2>2. MergedEdges(E, edges, s, a)
    BY <1>1, <1>3, <1>10 DEF Stands, EdgesDone, PropsRead
  <2>3. EdgesDone(t)'
    BY <1>1, <2>1, <2>2 DEF EdgesDone, Weighing
  <2>4. NodesDone(t)'
    <3>1. nodes[s] = NoNode =>
             nodes = [N EXCEPT ![s] = IF @ = NoNode THEN NoNode ELSE [@ EXCEPT !.props = call'[t].props]]
      BY <1>2, <1>4
    <3> QED
      BY <1>1, <1>4, <2>1, <3>1 DEF NodesDone, Busy
  <2> QED
    BY <2>3, <2>4 DEF Stands
<1>11. CASE PropsPut(t)
  <2>1. /\ call'[t].pc = "mergeDrop" /\ call'[t].a = a /\ call'[t].s = s /\ edges' = edges
        /\ call'[t].props = call[t].props /\ call[t].pc = "propsPut"
        /\ nodes' = [nodes EXCEPT ![s] = [call[t].row EXCEPT !.props = call[t].props]]
    BY <1>2, <1>3, <1>11 DEF PropsPut, Goto, CallType
  <2>2. MergedEdges(E, edges, s, a) /\ call[t].row = N[s] /\ N[s] # NoNode
    BY <1>1, <1>3, <1>4, <2>1 DEF Stands, EdgesDone, NodesDone, TypeInv, WorkFits, CallFits
  <2>3. EdgesDone(t)'
    BY <1>1, <2>1, <2>2 DEF EdgesDone, Weighing
  <2>4. NodesDone(t)'
    <3>1. nodes' = [N EXCEPT ![s] = IF @ = NoNode THEN NoNode ELSE [@ EXCEPT !.props = call'[t].props]]
      BY <1>2, <1>4, <2>1, <2>2
    <3> QED
      BY <1>1, <2>1, <3>1 DEF NodesDone, Busy
  <2> QED
    BY <2>3, <2>4 DEF Stands
<1> QED
  BY <1>5, <1>6, <1>7, <1>8, <1>9, <1>10, <1>11

LEMMA OtherStands ==
    ASSUME TypeInv, NEW t \in Tasks, Stands(t), before' = before,
           \/ RemoveIncident(t) \/ UpdateRead(t) \/ ClearEdges(t) \/ WeightRead(t) \/ WeightPut(t)
    PROVE  Stands(t)'
<1> USE DEF graph
<1>1. PICK E, N : E = before.edges /\ N = before.nodes
  OBVIOUS
<1>2. /\ E \in [Edges -> EdgeRow \cup {NoEdge}] /\ N \in [Nodes -> NodeRow \cup {NoNode}]
      /\ nodes \in [Nodes -> NodeRow \cup {NoNode}] /\ edges \in [Edges -> EdgeRow \cup {NoEdge}]
      /\ call \in [Tasks -> CallType] /\ call[t] \in CallType /\ Reweighs(call[t])
  BY <1>1 DEF TypeInv, TypeOK, GraphTypeOK, WorkFits, CallFits
<1>3. nodes = N
  BY <1>1 DEF Stands, NodesDone, Busy, RemoveIncident, UpdateRead, ClearEdges, WeightRead, WeightPut
<1>4. CASE RemoveIncident(t)
  <2>1. edges = E
    BY <1>1, <1>4 DEF Stands, EdgesDone, RemoveIncident
  <2>2. /\ call'[t].pc = "deleteNode" /\ call'[t].a = call[t].a /\ nodes' = nodes
        /\ edges' = Without(E, Incident(E, call[t].a))
    BY <1>2, <1>4, <2>1 DEF RemoveIncident, Goto, CallType
  <2> QED
    BY <1>1, <1>3, <2>2 DEF Stands, EdgesDone, NodesDone, Weighing, Busy
<1>5. CASE UpdateRead(t)
  <2>1. edges = E
    BY <1>1, <1>5 DEF Stands, EdgesDone, UpdateRead
  <2>2. \/ call'[t].pc = "none"
        \/ /\ call'[t].pc = "updatePut" /\ call'[t].s = call[t].s /\ call'[t].row = nodes[call[t].s]
    BY <1>2, <1>5, NoCallIs DEF UpdateRead, CallType
  <2> QED
    BY <1>1, <1>3, <1>5, <2>1, <2>2 DEF UpdateRead, Stands, EdgesDone, NodesDone, Weighing, Busy
<1>6. CASE ClearEdges(t)
  <2>1. edges = E
    BY <1>1, <1>6 DEF Stands, EdgesDone, ClearEdges
  <2>2. call'[t].pc = "clearNodes" /\ nodes' = nodes /\ edges' = Without(E, Edges)
    BY <1>2, <1>6, <2>1 DEF ClearEdges, Goto, CallType
  <2> QED
    BY <1>1, <1>3, <2>2 DEF Stands, EdgesDone, NodesDone, Weighing, Busy
<1>7. CASE WeightRead(t)
  <2>1. PICK e \in Updates(t) :
           call' = [call EXCEPT ![t] = IF edges[e] = NoEdge THEN [@ EXCEPT !.weights[e] = 0]
                                       ELSE [@ EXCEPT !.pc = "weightPut", !.saved[e] = edges[e]]]
    BY <1>7 DEF WeightRead
  <2>2. /\ e \in Edges /\ Reweighted(E, edges) /\ Live(call[t].saved) = {}
        /\ edges' = edges /\ nodes' = nodes /\ call[t].pc = "weightRead"
    BY <1>1, <1>2, <1>7 DEF WeightRead, Updates, Stands, EdgesDone, Weighing, Reweighs
  <2>3. \/ call'[t].pc = "weightRead"
        \/ call'[t].pc = "weightPut" /\ call'[t].saved = [call[t].saved EXCEPT ![e] = edges[e]]
    BY <1>2, <2>1, <2>2 DEF CallType
  <2>4. \A f \in Live(call'[t].saved) : call'[t].pc = "weightPut" => call'[t].saved[f] = edges[f]
    BY <1>2, <2>2, <2>3 DEF CallType, Live
  <2> QED
    BY <1>1, <1>3, <2>2, <2>3, <2>4 DEF Stands, EdgesDone, NodesDone, Weighing, Busy
<1>8. CASE WeightPut(t)
  <2>1. PICK e \in Live(call[t].saved) :
          /\ edges' = [edges EXCEPT ![e] = [call[t].saved[e] EXCEPT !.weight = call[t].weights[e]]]
          /\ call' = [call EXCEPT ![t].pc = "weightRead", ![t].saved[e] = NoEdge, ![t].weights[e] = 0]
    BY <1>8 DEF WeightPut
  <2>2. PICK v, F : v = call[t].weights[e] /\ F = edges
    OBVIOUS
  <2>3. /\ call[t].saved[e] = F[e] /\ e \in Live(F) /\ v \in 1..MaxWeight /\ Reweighted(E, F)
    <3>1. call[t].pc = "weightPut" /\ Live(call[t].saved) = {e} /\ call[t].weights[e] # 0 /\ e \in Edges
      BY <1>2, <1>8, <2>1 DEF WeightPut, Reweighs, Live
    <3>2. call[t].saved[e] = F[e] /\ Reweighted(E, F) /\ call[t].saved[e] # NoEdge
      BY <1>1, <2>1, <2>2, <3>1 DEF Stands, EdgesDone, Weighing, Live
    <3>3. call[t].weights \in [Edges -> 0..MaxWeight] /\ MaxWeight \in Nat
      BY <1>2, KnowledgeGraphAssumption DEF CallType
    <3> QED
      BY <2>2, <3>1, <3>2, <3>3 DEF Live
  <2>4. Reweighted(E, [F EXCEPT ![e] = [F[e] EXCEPT !.weight = v]])
    BY <1>2, <2>3, ReweightedGoesOn
  <2>5. Reweighted(E, edges') /\ call'[t].pc = "weightRead" /\ nodes' = nodes
    BY <1>2, <1>8, <2>1, <2>2, <2>3, <2>4 DEF WeightPut, CallType
  <2> QED
    BY <1>1, <1>3, <2>5 DEF Stands, EdgesDone, NodesDone, Weighing, Busy
<1> QED
  BY <1>4, <1>5, <1>6, <1>7, <1>8

(* A method that is to begin has done nothing.                               *)
Opens(c) == c.pc \in {"mergeRead", "weightRead", "deleteEdges", "updateRead", "clearEdges"}

LEMMA OpeningStands ==
    ASSUME TypeInv, NEW t \in Tasks, NEW c, Opens(c), Begin(t, c)
    PROVE  Stands(t)'
<1>1. call'[t] = c /\ nodes' = before'.nodes /\ edges' = before'.edges
  BY DEF Begin, graph, TypeInv, TypeOK
<1>2. c.pc = "weightRead" => Reweighted(edges, edges)
  <2>1. [e \in Edges |-> 0] \in [Edges -> 0..MaxWeight] /\ edges \in [Edges -> EdgeRow \cup {NoEdge}]
    BY KnowledgeGraphAssumption DEF TypeInv, TypeOK, GraphTypeOK
  <2>2. edges = [e \in Edges |-> IF edges[e] = NoEdge \/ [f \in Edges |-> 0][e] = 0 THEN edges[e]
                                 ELSE [edges[e] EXCEPT !.weight = [f \in Edges |-> 0][e]]]
    BY <2>1
  <2> QED
    BY <2>1, <2>2 DEF Reweighted
<1>3. edges' = edges /\ before'.edges = edges
  BY DEF Begin, graph
<1>4. EdgesDone(t)'
  BY <1>1, <1>2, <1>3 DEF EdgesDone, Opens, Weighing
<1>5. NodesDone(t)'
  BY <1>1 DEF NodesDone, Opens
<1> QED
  BY <1>4, <1>5 DEF Stands

----------------------------------------------------------------------------
(* What the callers do to the graph when CozoDB methods run alone.            *)

LEMMA SqlDoes ==
    ASSUME TypeInv
    PROVE  /\ \A s, a \in Nodes, p \in [Keys -> Nodes \cup {NoNode}] :
                 s # a /\ SqlMerge(s, a, p) => GraphNext
           /\ \A n \in Nodes : SqlDelete(n) => GraphNext
           /\ \A n \in Nodes : SqlDeleteFails(n) => GraphNext
           /\ \A n \in Nodes, i \in {1, 2} : SqlUpdate(n, i) => GraphNext \/ UNCHANGED graph
           /\ \A w \in [Edges -> 0..MaxWeight] : SqlSetWeights(w) => GraphNext
           /\ SqlClear => GraphNext
           /\ SqlClearFails => GraphNext
<1>1. nodes \in [Nodes -> NodeRow \cup {NoNode}] /\ edges \in [Edges -> EdgeRow \cup {NoEdge}]
  BY DEF TypeInv, TypeOK, GraphTypeOK
<1>2. ASSUME NEW s \in Nodes, NEW a \in Nodes, NEW p \in [Keys -> Nodes \cup {NoNode}], s # a, SqlMerge(s, a, p)
      PROVE  GraphNext
  <2>1. MergedEdges(edges, edges', s, a)
    BY <1>1, <1>2, SqlMergeMerges DEF SqlMerge
  <2>2. MergeNodes(s, a)
    BY <1>2, <2>1 DEF MergeNodes, SqlMerge
  <2> QED
    BY <1>2, <2>2 DEF GraphNext
<1>3. ASSUME NEW n \in Nodes, SqlDelete(n)
      PROVE  GraphNext
  BY <1>3 DEF SqlDelete, DeleteNode, GraphNext
<1>4. ASSUME NEW n \in Nodes, SqlDeleteFails(n)
      PROVE  GraphNext
  <2>1. Incident(edges, n) \in SUBSET Edges
    BY DEF Incident, Live
  <2> QED
    BY <1>4, <2>1 DEF SqlDeleteFails, DeleteEdges, GraphNext
<1>5. ASSUME NEW n \in Nodes, NEW i \in {1, 2}, SqlUpdate(n, i)
      PROVE  GraphNext \/ UNCHANGED graph
  <2>1. CASE nodes[n] = NoNode
    BY <1>1, <1>5, <2>1 DEF SqlUpdate, graph
  <2>2. CASE nodes[n] # NoNode
    <3>1. nodes' = [nodes EXCEPT ![n].imp = i] /\ edges' = edges
      BY <1>1, <1>5, <2>2 DEF SqlUpdate
    <3>2. UpdateNode(n)
      BY <2>2, <3>1 DEF UpdateNode
    <3> QED
      BY <3>2 DEF GraphNext
  <2> QED
    BY <2>1, <2>2
<1>6. ASSUME NEW w \in [Edges -> 0..MaxWeight], SqlSetWeights(w)
      PROVE  GraphNext
  <2>1. edges' = [e \in Edges |-> IF edges[e] = NoEdge \/ w[e] = 0 THEN edges[e]
                                  ELSE [edges[e] EXCEPT !.weight = w[e]]]
    BY <1>6 DEF SqlSetWeights
  <2>2. UpdateWeights
    BY <1>6, <2>1 DEF SqlSetWeights, UpdateWeights
  <2> QED
    BY <2>2 DEF GraphNext
<1>7. SqlClear => GraphNext
  BY DEF SqlClear, Clear, GraphNext
<1>8. SqlClearFails => GraphNext
  BY DEF SqlClearFails, DeleteEdges, GraphNext
<1> QED
  BY <1>2, <1>3, <1>4, <1>5, <1>6, <1>7, <1>8

LEMMA PutDoes ==
    ASSUME TypeInv
    PROVE  /\ \A row \in NodeRow : minted # Nodes /\ PutNode(Fresh, row) => GraphNext
           /\ \A row \in EdgeRow : linked < MaxEdges /\ PutEdge(linked + 1, row) => GraphNext
<1>1. /\ nodes \in [Nodes -> NodeRow \cup {NoNode}] /\ edges \in [Edges -> EdgeRow \cup {NoEdge}]
      /\ linked \in Nat /\ MaxEdges \in Nat /\ Live(edges) \subseteq 1..linked
  BY KnowledgeGraphAssumption DEF TypeInv, TypeOK, GraphTypeOK, StoreFits
<1>2. ASSUME NEW row \in NodeRow, minted # Nodes, PutNode(Fresh, row)
      PROVE  GraphNext
  <2>1. PICK n \in Nodes : n = Fresh /\ nodes[n] = NoNode
    BY <1>2, FreshIs
  <2>2. nodes' = [nodes EXCEPT ![n] = row] /\ edges' = edges
    BY <1>2, <2>1 DEF PutNode, SqlPutNode, CozoPutNode
  <2>3. AddNode(n)
    BY <1>1, <2>1, <2>2 DEF AddNode
  <2> QED
    BY <2>3 DEF GraphNext
<1>3. ASSUME NEW row \in EdgeRow, linked < MaxEdges, PutEdge(linked + 1, row)
      PROVE  GraphNext
  <2>1. PICK e \in Edges : e = linked + 1
    BY <1>1, <1>3 DEF Edges
  <2>2. edges[e] = NoEdge
    BY <1>1, <2>1 DEF Live
  <2>3. edges' = [edges EXCEPT ![e] = row] /\ nodes' = nodes
    BY <1>3, <2>1 DEF PutEdge, SqlPutEdge, CozoPutEdge
  <2>4. AddEdge(e)
    BY <1>1, <2>2, <2>3 DEF AddEdge
  <2> QED
    BY <2>4 DEF GraphNext
<1> QED
  BY <1>2, <1>3

(* One of four: nothing, a script of a CozoDB method, the beginning of one, or  *)
(* an operation at once.                                                     *)
Works(t) ==
    /\ alone' = alone
    /\ \/ Quiet
       \/ CozoStep(t) /\ before' = before
       \/ Ready(t) /\ \E c : Opens(c) /\ Begin(t, c)
       \/ Ready(t) /\ GraphNext /\ AtOnce

LEMMA RequestWorks ==
    ASSUME TypeInv, NEW t \in Tasks, Ready(t), UNCHANGED alone,
           \/ AtOnce /\ (GraphNext \/ UNCHANGED graph)
           \/ \E c : Opens(c) /\ Begin(t, c)
    PROVE  Works(t)
  BY DEF Works, AtOnce, Quiet, graph

LEMMA MergePairWorks ==
    ASSUME TypeInv, NEW t \in Tasks, MergePair(t)
    PROVE  Works(t)
<1>1. Ready(t) /\ UNCHANGED alone /\ SoundPass(pass[t]) /\ pass[t] \in PassType
  BY PassSound DEF MergePair, Rest, SoundPass
<1>2. PICK p \in pass[t].pairs :
        \/ SqlMerge(p[1], p[2], p[3]) /\ AtOnce
        \/ Begin(t, MergeCall(p[1], p[2], p[3]))
        \/ Quiet
  BY DEF MergePair
<1>3. PICK s \in Nodes, a \in Nodes, props \in [Keys -> Nodes \cup {NoNode}] :
         s = p[1] /\ a = p[2] /\ props = p[3] /\ s # a
  BY <1>1 DEF SoundPass, PassType
<1>4. CASE SqlMerge(s, a, props) /\ AtOnce
  BY <1>1, <1>3, <1>4, SqlDoes, RequestWorks
<1>5. CASE Begin(t, MergeCall(s, a, props))
  <2>1. Opens(MergeCall(s, a, props))
    BY MergeCallIs DEF Enters, Opens
  <2> QED
    BY <1>1, <1>5, <2>1, RequestWorks
<1>6. CASE Quiet
  BY <1>1, <1>6 DEF Works
<1> QED
  BY <1>2, <1>3, <1>4, <1>5, <1>6

LEMMA SetWeightsWorks ==
    ASSUME TypeInv, NEW t \in Tasks, SetWeights(t)
    PROVE  Works(t)
<1>1. Ready(t) /\ UNCHANGED alone /\ pass[t] \in PassType
  BY PassSound DEF SetWeights, Rest, SoundPass
<1>2. PICK w \in [Edges -> 0..MaxWeight] : w = pass[t].weights
  BY <1>1 DEF PassType
<1>3. \/ SqlSetWeights(w) /\ AtOnce
      \/ Begin(t, WeightsCall(w))
      \/ Quiet
  BY <1>2 DEF SetWeights
<1>4. CASE SqlSetWeights(w) /\ AtOnce
  BY <1>1, <1>4, SqlDoes, RequestWorks
<1>5. CASE Begin(t, WeightsCall(w))
  <2>1. Opens(WeightsCall(w))
    BY WeightsCallIs DEF Enters, Opens
  <2> QED
    BY <1>1, <1>5, <2>1, RequestWorks
<1>6. CASE Quiet
  BY <1>1, <1>6 DEF Works
<1> QED
  BY <1>3, <1>4, <1>5, <1>6

LEMMA NodeWorks ==
    ASSUME TypeInv, NEW t \in Tasks, BuildNode(t) \/ SeedNode(t)
    PROVE  Works(t)
<1>1. Ready(t) /\ UNCHANGED <<alone, call, before>> /\ minted # Nodes
  BY DEF BuildNode, SeedNode
<1>2. pass[t].pc \in {"nodes", "seedNodes"} => pass[t].owner \in Owners
  BY PassSound DEF SoundPass
<1>3. Shared \in Owners
  BY DEF Owners
<1>4. CASE UNCHANGED graph
  BY <1>1, <1>4, RequestWorks DEF AtOnce
<1>5. CASE BuildNode(t) /\ PutNode(Fresh, Row(pass[t].owner, 1, ChunkKeys))
  <2>1. Row(pass[t].owner, 1, ChunkKeys) \in NodeRow
    BY <1>1, <1>2, <1>5, RowIs DEF BuildNode
  <2> QED
    BY <1>1, <1>5, <2>1, PutDoes, RequestWorks DEF AtOnce
<1>6. CASE SeedNode(t) /\ PutNode(Fresh, Row(Shared, 2, SeedKeys))
  <2>1. Row(Shared, 2, SeedKeys) \in NodeRow
    BY <1>1, <1>3, RowIs
  <2> QED
    BY <1>1, <1>6, <2>1, PutDoes, RequestWorks DEF AtOnce
<1> QED
  BY <1>4, <1>5, <1>6 DEF BuildNode, SeedNode

LEMMA AddLinkWorks ==
    ASSUME TypeInv, NEW t \in Tasks, AddLink(t)
    PROVE  Works(t)
<1>1. Ready(t) /\ UNCHANGED <<alone, call, before>> /\ pass[t].pc = "links"
  BY DEF AddLink
<1>2. CASE UNCHANGED graph
  BY <1>1, <1>2, RequestWorks DEF AtOnce
<1>3. CASE ~UNCHANGED graph
  <2>1. PICK l \in pass[t].links :
           /\ linked < MaxEdges
           /\ PutEdge(linked + 1,
                      [src |-> pass[t].ids[l[1]], tgt |-> pass[t].ids[l[2]], rel |-> l[3],
                       weight |-> LinkWeight(l[3]), agent |-> pass[t].owner])
    BY <1>3 DEF AddLink
  <2>2. PICK row \in EdgeRow : PutEdge(linked + 1, row)
    BY <1>1, <2>1, LinkIs
  <2> QED
    BY <1>1, <2>1, <2>2, PutDoes, RequestWorks DEF AtOnce
<1> QED
  BY <1>2, <1>3

LEMMA ClientWorks ==
    ASSUME TypeInv, NEW t \in Tasks,
           \/ \E n \in Nodes : ClientDelete(t, n) \/ ClientUpdate(t, n)
           \/ ClientClear(t) \/ StartSeed(t)
    PROVE  Works(t)
<1>1. Ready(t) /\ UNCHANGED alone
  BY DEF ClientDelete, ClientUpdate, ClientClear, StartSeed, Start, MayStart
<1>2. \/ AtOnce /\ (GraphNext \/ UNCHANGED graph)
      \/ Begin(t, ClearCall)
      \/ \E n \in Nodes : Begin(t, DeleteCall(n)) \/ Begin(t, UpdateCall(n))
  <2>1. CASE \E n \in Nodes : ClientDelete(t, n)
    BY <2>1, SqlDoes DEF ClientDelete
  <2>2. CASE \E n \in Nodes : ClientUpdate(t, n)
    BY <2>2, SqlDoes DEF ClientUpdate
  <2>3. CASE ClientClear(t)
    BY <2>3, SqlDoes DEF ClientClear
  <2>4. CASE StartSeed(t)
    BY <2>4, SqlDoes DEF StartSeed
  <2> QED
    BY <2>1, <2>2, <2>3, <2>4
<1>3. /\ Opens(ClearCall)
      /\ \A n \in Nodes : Opens(DeleteCall(n)) /\ Opens(UpdateCall(n))
  BY ClearCallIs, ClientCallsAre DEF Enters, Opens
<1> QED
  BY <1>1, <1>2, <1>3, RequestWorks

LEMMA ScriptWorks ==
    ASSUME TypeInv, alone, NEW t \in Tasks, Script(t)
    PROVE  CozoStep(t) /\ before' = before /\ alone' = alone
<1>1. Busy(t) => backend = "cozo"
  BY DEF TypeInv, WorkFits, CallFits
<1> QED
  BY <1>1 DEF Script, Fails, ScriptFails, Rest

LEMMA ActsWork ==
    ASSUME TypeInv, alone, NEW t \in Tasks, Acts(t)
    PROVE  Works(t)
<1>1. CASE Script(t)
  BY <1>1, ScriptWorks DEF Works
<1>2. CASE \E a \in Agents : StartEvolve(t, a) \/ StartBuild(t, a)
  BY <1>2 DEF StartEvolve, StartBuild, Works
<1>3. CASE ListNodes(t) \/ EdgesOf(t) \/ Finish(t) \/ PlanLinks(t) \/ LinksDone(t) \/ PlanSeedLinks(t)
  BY <1>3 DEF ListNodes, EdgesOf, Finish, PlanLinks, LinksDone, PlanSeedLinks, Rest, Works
<1>4. CASE MergePair(t) \/ SetWeights(t)
  BY <1>4, MergePairWorks, SetWeightsWorks
<1>5. CASE BuildNode(t) \/ SeedNode(t) \/ AddLink(t)
  BY <1>5, NodeWorks, AddLinkWorks
<1>6. CASE \/ \E n \in Nodes : ClientDelete(t, n) \/ ClientUpdate(t, n)
           \/ ClientClear(t) \/ StartSeed(t)
  BY <1>6, ClientWorks
<1> QED
  BY <1>1, <1>2, <1>3, <1>4, <1>5, <1>6 DEF Acts

(* While a method of CozoDB runs alone, nothing but its scripts touches the    *)
(* graph.                                                                   *)
LEMMA ScriptsAlone ==
    ASSUME TypeInv, alone, AloneInv, NEW t \in Tasks, CozoStep(t)
    PROVE  /\ Busy(t) /\ backend = "cozo" /\ Stands(t)
           /\ \A u \in Tasks \ {t} : ~Busy(u)
<1>1. Busy(t)
  BY DEF CozoStep, Busy, MergeRead, MergeRemove, MergeSeen, MergePut, MergePutDone, PropsRead, PropsPut,
         MergeDrop, RemoveIncident, RemoveNode, UpdateRead, UpdatePut, ClearEdges, ClearNodes,
         WeightRead, WeightPut, WeightsDone
<1> QED
  BY <1>1 DEF AloneInv, Stands, TypeInv, WorkFits, CallFits

(* A script leaves what stands, or ends its method.                           *)
LEMMA ScriptStands ==
    ASSUME TypeInv, alone, AloneInv, NEW t \in Tasks, CozoStep(t), before' = before
    PROVE  Stands(t)'
<1>1. Stands(t) /\ Busy(t)
  BY ScriptsAlone
<1>2. ASSUME Return(t)
      PROVE  Stands(t)'
  <2>1. call'[t].pc = "none"
    BY <1>2, NoCallIs DEF Return, TypeInv, TypeOK
  <2> QED
    BY <2>1 DEF Stands, EdgesDone, NodesDone, Weighing, Busy
<1>3. CASE \/ MergeRead(t) \/ MergeRemove(t) \/ MergeSeen(t) \/ MergePut(t) \/ MergePutDone(t)
           \/ PropsRead(t) \/ PropsPut(t)
  BY <1>1, <1>3, MergeStands
<1>4. CASE RemoveIncident(t) \/ UpdateRead(t) \/ ClearEdges(t) \/ WeightRead(t) \/ WeightPut(t)
  BY <1>1, <1>4, OtherStands
<1> QED
  BY <1>2, <1>3, <1>4 DEF CozoStep, MergeDrop, RemoveNode, UpdatePut, ClearNodes, WeightsDone

LEMMA ScriptsOwnCall ==
    ASSUME TypeInv, NEW t \in Tasks, CozoStep(t), NEW u \in Tasks, u # t
    PROVE  call'[u] = call[u]
  BY DEF CozoStep, TypeInv, TypeOK, Return, Goto, MergeRead, MergeRemove, MergeSeen, MergePut, MergePutDone,
         PropsRead, PropsPut, MergeDrop, RemoveIncident, RemoveNode, UpdateRead, UpdatePut, ClearEdges,
         ClearNodes, WeightRead, WeightPut, WeightsDone

LEMMA QuietAlone ==
    ASSUME alone' = alone, AloneInv, Quiet
    PROVE  AloneInv'
<1>1. ASSUME NEW t \in Tasks
      PROVE  (Busy(t)' <=> Busy(t)) /\ (EdgesDone(t)' <=> EdgesDone(t)) /\ (NodesDone(t)' <=> NodesDone(t))
  BY DEF Quiet, Busy, EdgesDone, NodesDone, Restored
<1> QED
  BY <1>1 DEF AloneInv

LEMMA AloneStep == TypeInv /\ AloneInv /\ [Next]_vars => AloneInv'
<1> SUFFICES ASSUME TypeInv, AloneInv, [Next]_vars PROVE AloneInv'
  OBVIOUS
<1>1. CASE UNCHANGED vars
  BY <1>1, QuietAlone DEF vars, Quiet
<1>2. ASSUME NEW t \in Tasks, Acts(t), ~alone
      PROVE  AloneInv'
  <2>1. alone' = alone
    BY <1>2 DEF Acts, Script, StartEvolve, StartBuild, MergePair, ListNodes, EdgesOf, SetWeights, Finish,
         BuildNode, PlanLinks, AddLink, LinksDone, StartSeed, SeedNode, PlanSeedLinks, ClientDelete,
         ClientUpdate, ClientClear, Rest
  <2> QED
    BY <1>2, <2>1 DEF AloneInv
<1>3. ASSUME NEW t \in Tasks, alone, Works(t)
      PROVE  AloneInv'
  <2>1. CASE Quiet
    BY <1>3, <2>1, QuietAlone DEF Works
  <2>2. CASE CozoStep(t) /\ before' = before
    <3>1. Stands(t)'
      BY <1>3, <2>2, ScriptStands
    <3>2. \A u \in Tasks \ {t} : ~Busy(u) /\ call'[u] = call[u]
      BY <1>3, <2>2, ScriptsAlone, ScriptsOwnCall
    <3> QED
      BY <3>1, <3>2 DEF AloneInv, Stands, Busy
  <2>3. ASSUME Ready(t), NEW c, Opens(c), Begin(t, c)
        PROVE  AloneInv'
    <3>1. Stands(t)'
      BY <2>3, OpeningStands
    <3>2. \A u \in Tasks \ {t} : ~Busy(u) /\ call'[u] = call[u]
      BY <1>3, <2>3 DEF Ready, Begin, TypeInv, TypeOK
    <3> QED
      BY <3>1, <3>2 DEF AloneInv, Stands, Busy
  <2>4. CASE Ready(t) /\ AtOnce
    <3>1. \A u \in Tasks : ~Busy(u)
      BY <1>3, <2>4 DEF Ready, TypeInv, WorkFits, CallFits
    <3> QED
      BY <2>4, <3>1 DEF AtOnce, AloneInv, Busy
  <2> QED
    BY <1>3, <2>1, <2>2, <2>3, <2>4 DEF Works
<1> QED
  BY <1>1, <1>2, <1>3, ActsNext, ActsWork

----------------------------------------------------------------------------
(* Either backend implements the store's promise.                             *)

LEMMA SameTerms ==
    /\ KG!Edges = Edges /\ KG!EdgeRow = EdgeRow /\ KG!NodeRow = NodeRow
    /\ \A E : KG!Live(E) = Live(E)
    /\ \A E, n : KG!Incident(E, n) = Incident(E, n)
    /\ \A E, S : KG!Without(E, S) = Without(E, S)
    /\ \A E, F, s, a : KG!MergedEdges(E, F, s, a) <=> MergedEdges(E, F, s, a)
<1>1. /\ KG!Edges = Edges /\ KG!EdgeRow = EdgeRow /\ KG!NodeRow = NodeRow
      /\ \A E, S : KG!Without(E, S) = Without(E, S)
      /\ \A r, s, a : KG!Redirect(r, s, a) = Redirect(r, s, a)
  BY DEF KG!Edges, Edges, KG!EdgeRow, EdgeRow, KG!NodeRow, NodeRow, KG!Owners, Owners, KG!Without, Without,
         KG!Redirect, Redirect
<1>2. \A E : KG!Live(E) = Live(E)
  BY <1>1 DEF KG!Live, Live
<1>3. \A E, n : KG!Incident(E, n) = Incident(E, n)
  BY <1>1, <1>2 DEF KG!Incident, Incident
<1>4. \A E, F, s, a : KG!MergedEdges(E, F, s, a) <=> MergedEdges(E, F, s, a)
  BY <1>1, <1>2 DEF KG!MergedEdges, MergedEdges, KG!IsLoop, IsLoop, KG!Triple, Triple
<1> QED
  BY <1>1, <1>2, <1>3, <1>4

(* What the operations make of nodes N and edges E.                           *)
NodesMerged(N, E, M, F, s, a, p) ==
    /\ M = [n \in Nodes |-> IF n = a THEN NoNode
                            ELSE IF n = s /\ N[n] # NoNode THEN [N[n] EXCEPT !.props = p]
                                 ELSE N[n]]
    /\ MergedEdges(E, F, s, a)
NodeDeleted(N, E, M, F, n) == M = [N EXCEPT ![n] = NoNode] /\ F = Without(E, Incident(E, n))
NodeUpdated(N, E, M, F, n, i) == N[n] # NoNode /\ M = [N EXCEPT ![n].imp = i] /\ F = E
NodeAdded(N, E, M, F, n, row) == N[n] = NoNode /\ n \in DOMAIN N /\ M = [N EXCEPT ![n] = row] /\ F = E
EdgeAdded(N, E, M, F, e, row) == E[e] = NoEdge /\ e \in DOMAIN E /\ F = [E EXCEPT ![e] = row] /\ M = N

(* A step that takes the promised graph from N and E to M and F.              *)
Maps(N, E, M, F) ==
    /\ Promised = [nodes |-> N, edges |-> E]
    /\ Promised' = [nodes |-> M, edges |-> F]

LEMMA MapsTo ==
    ASSUME NEW N, NEW E, NEW M, NEW F, Maps(N, E, M, F)
    PROVE  /\ \A s, a \in Nodes, p \in [Keys -> Nodes \cup {NoNode}] :
                 s # a /\ NodesMerged(N, E, M, F, s, a, p) => KG!GraphNext
           /\ \A n \in Nodes : NodeDeleted(N, E, M, F, n) => KG!GraphNext
           /\ \A n \in Nodes, i \in {1, 2} : NodeUpdated(N, E, M, F, n, i) => KG!GraphNext
           /\ \A S \in SUBSET Edges : F = Without(E, S) /\ M = N => KG!GraphNext
           /\ M = [n \in Nodes |-> NoNode] /\ F = Without(E, Edges) => KG!GraphNext
           /\ Reweighted(E, F) /\ M = N => KG!GraphNext
           /\ \A n \in Nodes, row \in NodeRow : NodeAdded(N, E, M, F, n, row) => KG!GraphNext
           /\ \A e \in Edges, row \in EdgeRow : EdgeAdded(N, E, M, F, e, row) => KG!GraphNext
           /\ M = N /\ F = E => UNCHANGED KG!graph
<1>1. /\ Promised.nodes = N /\ Promised.edges = E /\ (Promised.nodes)' = M /\ (Promised.edges)' = F
  BY DEF Maps
<1>2. ASSUME NEW s \in Nodes, NEW a \in Nodes, NEW p \in [Keys -> Nodes \cup {NoNode}],
             s # a, NodesMerged(N, E, M, F, s, a, p)
      PROVE  KG!GraphNext
  <2>1. KG!MergeNodes(s, a)
    BY <1>1, <1>2, SameTerms DEF KG!MergeNodes, NodesMerged
  <2> QED
    BY <1>2, <2>1 DEF KG!GraphNext
<1>3. ASSUME NEW n \in Nodes, NodeDeleted(N, E, M, F, n)
      PROVE  KG!GraphNext
  <2>1. KG!DeleteNode(n)
    BY <1>1, <1>3, SameTerms DEF KG!DeleteNode, NodeDeleted
  <2> QED
    BY <2>1 DEF KG!GraphNext
<1>4. ASSUME NEW n \in Nodes, NEW i \in {1, 2}, NodeUpdated(N, E, M, F, n, i)
      PROVE  KG!GraphNext
  <2>1. KG!UpdateNode(n)
    BY <1>1, <1>4 DEF KG!UpdateNode, NodeUpdated
  <2> QED
    BY <2>1 DEF KG!GraphNext
<1>5. ASSUME NEW S \in SUBSET Edges, F = Without(E, S), M = N
      PROVE  KG!GraphNext
  <2>1. KG!DeleteEdges
    BY <1>1, <1>5, SameTerms DEF KG!DeleteEdges
  <2> QED
    BY <2>1 DEF KG!GraphNext
<1>6. ASSUME M = [n \in Nodes |-> NoNode], F = Without(E, Edges)
      PROVE  KG!GraphNext
  <2>1. KG!Clear
    BY <1>1, <1>6, SameTerms DEF KG!Clear
  <2> QED
    BY <2>1 DEF KG!GraphNext
<1>7. ASSUME Reweighted(E, F), M = N
      PROVE  KG!GraphNext
  <2>1. PICK w \in [Edges -> 0..MaxWeight] :
           F = [e \in Edges |-> IF E[e] = NoEdge \/ w[e] = 0 THEN E[e] ELSE [E[e] EXCEPT !.weight = w[e]]]
    BY <1>7 DEF Reweighted
  <2>2. KG!UpdateWeights
    <3>1. KG!Edges = Edges
      BY SameTerms
    <3>2. UNCHANGED Promised.nodes
      BY <1>1, <1>7
    <3>3. (Promised.edges)' = [e \in Edges |-> IF (Promised.edges)[e] = NoEdge \/ w[e] = 0 THEN (Promised.edges)[e]
                                              ELSE [(Promised.edges)[e] EXCEPT !.weight = w[e]]]
      BY <1>1, <2>1
    <3>4. \E x \in [Edges -> 0..MaxWeight] :
             (Promised.edges)' = [e \in Edges |-> IF (Promised.edges)[e] = NoEdge \/ x[e] = 0
                                                 THEN (Promised.edges)[e]
                                                 ELSE [(Promised.edges)[e] EXCEPT !.weight = x[e]]]
      BY <3>3
    <3> QED
      BY <3>1, <3>2, <3>4, Zenon DEF KG!UpdateWeights
  <2> QED
    BY <2>2 DEF KG!GraphNext
<1>8. ASSUME NEW n \in Nodes, NEW row \in NodeRow, NodeAdded(N, E, M, F, n, row)
      PROVE  KG!GraphNext
  <2>1. M[n] = row
    BY <1>8 DEF NodeAdded
  <2>2. KG!AddNode(n)
    BY <1>1, <1>8, <2>1, SameTerms DEF KG!AddNode, NodeAdded
  <2> QED
    BY <2>2 DEF KG!GraphNext
<1>9. ASSUME NEW e \in Edges, NEW row \in EdgeRow, EdgeAdded(N, E, M, F, e, row)
      PROVE  KG!GraphNext
  <2>1. F[e] = row
    BY <1>9 DEF EdgeAdded
  <2>2. KG!AddEdge(e)
    BY <1>1, <1>9, <2>1, SameTerms DEF KG!AddEdge, EdgeAdded
  <2> QED
    BY <2>2, SameTerms DEF KG!GraphNext
<1>10. ASSUME M = N, F = E
       PROVE  UNCHANGED KG!graph
  BY <1>1, <1>10 DEF KG!graph
<1> QED
  BY <1>2, <1>3, <1>4, <1>5, <1>6, <1>7, <1>8, <1>9, <1>10

LEMMA OperationMaps ==
    ASSUME GraphTypeOK, GraphNext, Maps(nodes, edges, nodes', edges')
    PROVE  [KG!GraphNext]_(KG!graph)
<1>1. PICK N, E, M, F : N = nodes /\ E = edges /\ M = nodes' /\ F = edges'
  OBVIOUS
<1>2. /\ Maps(N, E, M, F)
      /\ N \in [Nodes -> NodeRow \cup {NoNode}] /\ E \in [Edges -> EdgeRow \cup {NoEdge}]
  BY <1>1 DEF GraphTypeOK
<1>3. ASSUME NEW n \in Nodes, AddNode(n)
      PROVE  KG!GraphNext
  <2>1. PICK row \in NodeRow : NodeAdded(N, E, M, F, n, row)
    BY <1>1, <1>2, <1>3 DEF AddNode, NodeAdded
  <2> QED
    BY <1>2, <2>1, MapsTo
<1>4. ASSUME NEW n \in Nodes, DeleteNode(n)
      PROVE  KG!GraphNext
  <2>1. NodeDeleted(N, E, M, F, n)
    BY <1>1, <1>4 DEF DeleteNode, NodeDeleted
  <2> QED
    BY <1>2, <2>1, MapsTo
<1>5. ASSUME NEW n \in Nodes, UpdateNode(n)
      PROVE  KG!GraphNext
  <2>1. PICK i \in {1, 2} : NodeUpdated(N, E, M, F, n, i)
    BY <1>1, <1>5 DEF UpdateNode, NodeUpdated
  <2> QED
    BY <1>2, <2>1, MapsTo
<1>6. ASSUME NEW e \in Edges, AddEdge(e)
      PROVE  KG!GraphNext
  <2>1. PICK row \in EdgeRow : EdgeAdded(N, E, M, F, e, row)
    BY <1>1, <1>2, <1>6 DEF AddEdge, EdgeAdded
  <2> QED
    BY <1>2, <2>1, MapsTo
<1>7. ASSUME NEW s \in Nodes, NEW a \in Nodes, s # a, MergeNodes(s, a)
      PROVE  KG!GraphNext
  <2>1. PICK p \in [Keys -> Nodes \cup {NoNode}] : NodesMerged(N, E, M, F, s, a, p)
    BY <1>1, <1>7 DEF MergeNodes, NodesMerged
  <2> QED
    BY <1>2, <1>7, <2>1, MapsTo
<1>8. ASSUME DeleteEdges
      PROVE  KG!GraphNext
  <2>1. PICK S \in SUBSET Edges : F = Without(E, S) /\ M = N
    BY <1>1, <1>8 DEF DeleteEdges
  <2> QED
    BY <1>2, <2>1, MapsTo
<1>9. ASSUME UpdateWeights
      PROVE  KG!GraphNext
  <2>1. Reweighted(E, F) /\ M = N
    BY <1>1, <1>9 DEF UpdateWeights, Reweighted
  <2> QED
    BY <1>2, <2>1, MapsTo
<1>10. ASSUME Clear
       PROVE  KG!GraphNext
  <2>1. M = [n \in Nodes |-> NoNode] /\ F = Without(E, Edges)
    BY <1>1, <1>10 DEF Clear
  <2> QED
    BY <1>2, <2>1, MapsTo
<1> QED
  BY <1>3, <1>4, <1>5, <1>6, <1>7, <1>8, <1>9, <1>10 DEF GraphNext

(* The last script of a method completes what the method stands for.          *)
LEMMA ScriptMaps ==
    ASSUME TypeInv, alone, AloneInv, alone' = alone, NEW t \in Tasks, CozoStep(t), before' = before
    PROVE  [KG!GraphNext]_(KG!graph)
<1>1. /\ Busy(t) /\ EdgesDone(t) /\ NodesDone(t) /\ \A u \in Tasks \ {t} : ~Busy(u) /\ call'[u] = call[u]
      /\ Promised = before
  BY ScriptsAlone, ScriptsOwnCall DEF Stands, Promised
<1>2. PICK N, E, M, F : N = before.nodes /\ E = before.edges /\ M = nodes' /\ F = edges'
  OBVIOUS
<1>3. /\ before = [nodes |-> N, edges |-> E] /\ CallFits(t) /\ call[t] \in CallType
      /\ N \in [Nodes -> NodeRow \cup {NoNode}] /\ E \in [Edges -> EdgeRow \cup {NoEdge}]
  BY <1>2 DEF TypeInv, TypeOK, WorkFits
<1>4. CASE Busy(t)'
  <2>1. Promised' = before
    BY <1>4 DEF Promised
  <2>2. Maps(N, E, N, E)
    BY <1>1, <1>3, <2>1 DEF Maps
  <2> QED
    BY <2>2, MapsTo
<1>5. CASE ~Busy(t)'
  <2>1. \A u \in Tasks : ~Busy(u)'
    BY <1>1, <1>5 DEF Busy
  <2>2. Maps(N, E, M, F)
    BY <1>1, <1>2, <1>3, <2>1 DEF Maps, Promised
  <2>3. CASE MergeDrop(t)
    <3>1. PICK s \in Nodes, a \in Nodes, p \in [Keys -> Nodes \cup {NoNode}] :
             s = call[t].s /\ a = call[t].a /\ p = call[t].props /\ s # a
      BY <1>3, <2>3 DEF MergeDrop, CallFits, Merging, CallType
    <3>2. /\ edges = F /\ MergedEdges(E, F, s, a)
          /\ nodes = [N EXCEPT ![s] = IF @ = NoNode THEN NoNode ELSE [@ EXCEPT !.props = p]]
          /\ M = [nodes EXCEPT ![a] = NoNode]
      BY <1>1, <1>2, <2>3, <3>1 DEF MergeDrop, EdgesDone, NodesDone
    <3>3. NodesMerged(N, E, M, F, s, a, p)
      <4>1. DOMAIN N = Nodes
        BY <1>3
      <4>2. nodes = [n \in Nodes |-> IF n = s /\ N[n] # NoNode THEN [N[n] EXCEPT !.props = p]
                                     ELSE N[n]]
        <5> DEFINE row == [N[s] EXCEPT !.props = p]
                   kept == IF N[s] = NoNode THEN NoNode ELSE row
        <5>1. nodes = [N EXCEPT ![s] = kept]
          BY <3>2
        <5>2. nodes = [n \in Nodes |-> IF n = s THEN kept ELSE N[n]]
          <6> HIDE DEF kept
          <6> QED
            BY <4>1, <5>1
        <5>3. ASSUME NEW n \in Nodes
              PROVE  (IF n = s THEN kept ELSE N[n])
                        = (IF n = s /\ N[n] # NoNode THEN [N[n] EXCEPT !.props = p] ELSE N[n])
          OBVIOUS
        <5> QED
          BY <5>2, <5>3
      <4> QED
        BY <3>1, <3>2, <4>2 DEF NodesMerged
    <3> QED
      BY <2>2, <3>1, <3>3, MapsTo
  <2>4. CASE RemoveNode(t)
    <3>1. PICK n \in Nodes : n = call[t].a
      BY <1>3, <2>4 DEF RemoveNode, CallFits
    <3>2. nodes = N /\ F = Without(E, Incident(E, n)) /\ M = [nodes EXCEPT ![n] = NoNode]
      BY <1>1, <1>2, <2>4, <3>1 DEF RemoveNode, EdgesDone, NodesDone
    <3>3. NodeDeleted(N, E, M, F, n)
      BY <3>2 DEF NodeDeleted
    <3> QED
      BY <2>2, <3>3, MapsTo
  <2>5. ASSUME NEW imp \in {1, 2}, UpdatePut(t, imp)
        PROVE  [KG!GraphNext]_(KG!graph)
    <3>1. PICK n \in Nodes : n = call[t].s /\ call[t].row # NoNode
      BY <1>3, <2>5 DEF UpdatePut, CallFits
    <3>2. nodes = N /\ F = E /\ call[t].row = N[n] /\ M = [N EXCEPT ![n] = [N[n] EXCEPT !.imp = imp]]
      BY <1>1, <1>2, <2>5, <3>1 DEF UpdatePut, EdgesDone, NodesDone
    <3>3. NodeUpdated(N, E, M, F, n, imp)
      BY <3>1, <3>2 DEF NodeUpdated
    <3> QED
      BY <2>2, <3>3, MapsTo
  <2>6. CASE UpdateRead(t)
    <3>1. M = N /\ F = E
      BY <1>1, <1>2, <2>6 DEF UpdateRead, EdgesDone, NodesDone, graph
    <3> QED
      BY <2>2, <3>1, MapsTo
  <2>7. CASE ClearNodes(t)
    <3>1. M = [n \in Nodes |-> NoNode] /\ F = Without(E, Edges)
      BY <1>1, <1>2, <2>7 DEF ClearNodes, EdgesDone
    <3> QED
      BY <2>2, <3>1, MapsTo
  <2>8. CASE WeightsDone(t)
    <3>1. M = N /\ Reweighted(E, F)
      BY <1>1, <1>2, <2>8 DEF WeightsDone, EdgesDone, NodesDone, Weighing, graph
    <3> QED
      BY <2>2, <3>1, MapsTo
  <2>9. call'[t].pc = "none"
    BY <1>5 DEF Busy
  <2>10. call \in [Tasks -> CallType]
    BY DEF TypeInv, TypeOK
  <2>11. ~MergeRead(t) /\ ~MergeSeen(t) /\ ~PropsRead(t)
    BY <2>9, <2>10 DEF MergeRead, MergeSeen, PropsRead, CallType
  <2>12. \A phase : Goto(t, phase) => phase = "none"
    BY <2>9, <2>10 DEF Goto, CallType
  <2>13. ~MergeRemove(t) /\ ~MergePutDone(t) /\ ~PropsPut(t) /\ ~RemoveIncident(t) /\ ~ClearEdges(t)
    BY <2>12 DEF MergeRemove, MergePutDone, PropsPut, RemoveIncident, ClearEdges
  <2>14. ~MergePut(t)
    BY <1>3, <2>9, <2>10 DEF MergePut, CallType
  <2>15. ~WeightRead(t)
    BY <1>3, <2>9, <2>10 DEF WeightRead, CallType
  <2>16. ~WeightPut(t)
    <3> SUFFICES ASSUME WeightPut(t) PROVE FALSE
      OBVIOUS
    <3>1. PICK e \in Live(call[t].saved) :
             call' = [call EXCEPT ![t].pc = "weightRead", ![t].saved[e] = NoEdge, ![t].weights[e] = 0]
      BY DEF WeightPut
    <3>2. call'[t].pc = "weightRead"
      BY <1>3, <2>10, <3>1 DEF CallType
    <3> QED
      BY <2>9, <3>2
  <2> QED
    BY <2>3, <2>4, <2>5, <2>6, <2>7, <2>8, <2>11, <2>13, <2>14, <2>15, <2>16
       DEF CozoStep
<1> QED
  BY <1>4, <1>5

LEMMA PromiseBegins == Init => KG!GraphInit
<1> SUFFICES ASSUME Init PROVE KG!GraphInit
  OBVIOUS
<1>1. TypeInv
  BY InitTypes
<1>2. \A t \in Tasks : ~Busy(t)
  BY NoCallIs DEF Init, Busy
<1>3. /\ Promised.nodes \in [Nodes -> NodeRow \cup {NoNode}]
      /\ Promised.edges \in [Edges -> EdgeRow \cup {NoEdge}]
  BY <1>1, <1>2 DEF Promised, TypeInv, TypeOK, GraphTypeOK
<1> QED
  BY <1>3, SameTerms DEF KG!GraphInit, KG!GraphTypeOK

LEMMA PromiseKept == TypeInv /\ AloneInv /\ [Next]_vars => [KG!GraphNext]_(KG!graph)
<1> SUFFICES ASSUME TypeInv, AloneInv, [Next]_vars PROVE [KG!GraphNext]_(KG!graph)
  OBVIOUS
<1>1. alone' = alone
  BY ActsNext DEF vars, Acts, Script, StartEvolve, StartBuild, MergePair, ListNodes, EdgesOf, SetWeights, Finish,
     BuildNode, PlanLinks, AddLink, LinksDone, StartSeed, SeedNode, PlanSeedLinks, ClientDelete,
     ClientUpdate, ClientClear, Rest
<1>2. ASSUME Promised' = Promised
      PROVE  [KG!GraphNext]_(KG!graph)
  BY <1>2 DEF KG!graph
<1>3. CASE ~alone
  BY <1>1, <1>2, <1>3 DEF Promised
<1>4. ASSUME Quiet
      PROVE  [KG!GraphNext]_(KG!graph)
  <2>1. Promised' = Promised
    BY <1>1, <1>4 DEF Quiet, Promised, Busy
  <2> QED
    BY <1>2, <2>1
<1>5. ASSUME alone, NEW t \in Tasks, Works(t)
      PROVE  [KG!GraphNext]_(KG!graph)
  <2>1. CASE Quiet
    BY <1>4, <2>1
  <2>2. CASE CozoStep(t) /\ before' = before
    BY <1>1, <1>5, <2>2, ScriptMaps
  <2>3. Ready(t) => Promised = [nodes |-> nodes, edges |-> edges] /\ \A u \in Tasks : ~Busy(u)
    BY <1>5 DEF Ready, Promised, TypeInv, WorkFits, CallFits
  <2>4. ASSUME Ready(t), NEW c, Opens(c), Begin(t, c)
        PROVE  [KG!GraphNext]_(KG!graph)
    <3>1. Busy(t)'
      BY <2>4 DEF Begin, Busy, Opens, TypeInv, TypeOK
    <3>2. Promised' = Promised
      BY <1>1, <1>5, <2>3, <2>4, <3>1 DEF Promised, Begin
    <3> QED
      BY <1>2, <3>2
  <2>5. CASE Ready(t) /\ GraphNext /\ AtOnce
    <3>1. \A u \in Tasks : ~Busy(u)'
      BY <2>3, <2>5 DEF AtOnce, Busy
    <3>2. Maps(nodes, edges, nodes', edges')
      BY <1>1, <1>5, <2>3, <2>5, <3>1 DEF Maps, Promised
    <3> QED
      BY <2>5, <3>2, OperationMaps DEF TypeInv, TypeOK
  <2> QED
    BY <1>5, <2>1, <2>2, <2>4, <2>5 DEF Works
<1>6. CASE UNCHANGED vars
  BY <1>4, <1>6 DEF vars, Quiet
<1> QED
  BY <1>3, <1>5, <1>6, ActsNext, ActsWork

LEMMA AloneBegins == Init => AloneInv
  BY NoCallIs DEF Init, AloneInv, Busy

(* Every variable of GraphEvolution keeps its type, and no evolution pass      *)
(* merges more than MaxMerges pairs (max_merge_per_run).                     *)
THEOREM GraphEvolutionTyped == Spec => []TypeOK
<1>1. Init => TypeInv
  BY InitTypes
<1>2. TypeInv /\ [Next]_vars => TypeInv'
  BY TypeStep
<1>3. TypeInv => TypeOK
  BY DEF TypeInv
<1> QED
  BY <1>1, <1>2, <1>3, PTL DEF Spec

(* Either backend is the graph KnowledgeGraphStore promises: each method of    *)
(* SqliteGraphStore is one of its operations, and so are the scripts of each   *)
(* method of CozoGraphStore, taken together, when no other one runs meanwhile. *)
THEOREM StoresImplementGraph == Spec => ImplementsGraph
<1>1. Init => TypeInv /\ AloneInv /\ KG!GraphInit
  BY InitTypes, AloneBegins, PromiseBegins
<1>2. TypeInv /\ AloneInv /\ [Next]_vars => TypeInv' /\ AloneInv'
  BY TypeStep, AloneStep
<1>3. TypeInv /\ AloneInv /\ [Next]_vars => [KG!GraphNext]_(KG!graph)
  BY PromiseKept
<1> QED
  BY <1>1, <1>2, <1>3, PTL DEF Spec, ImplementsGraph, KG!GraphSpec

----------------------------------------------------------------------------
(* Whose nodes a step touches.                                               *)

(* A row with the agent of a row of node n.                                   *)
SameAgent(r, n) == r = NoNode \/ \E q \in Copies(n) : r.agent = q.agent

(* What t leaves of the nodes given out, and takes along of one it is about,   *)
(* has the agents they had.                                                  *)
RowsKept(t) ==
    /\ \A n \in minted : SameAgent(nodes'[n], n)
    /\ \A n \in Nodes : call'[t].s = n => n \in minted /\ SameAgent(call'[t].row, n)
    /\ \A u \in Tasks \ {t} : call'[u] = call[u]

LEMMA NodeKept ==
    ASSUME NEW n \in Nodes
    PROVE  /\ \A m \in Nodes : SameAgent(nodes[m], m)
           /\ SameAgent(NoNode, n)
           /\ \A t \in Tasks : call[t].s = n => SameAgent(call[t].row, n)
  BY DEF SameAgent, Copies

LEMMA EditKept ==
    ASSUME NEW n \in Nodes, NEW r \in NodeRow, SameAgent(r, n)
    PROVE  /\ \A i \in {1, 2} : SameAgent([r EXCEPT !.imp = i], n)
           /\ \A p \in [Keys -> Nodes \cup {NoNode}] : SameAgent([r EXCEPT !.props = p], n)
<1>1. PICK q \in Copies(n) : r.agent = q.agent
  BY NoRows DEF SameAgent
<1>2. /\ \A i \in {1, 2} : [r EXCEPT !.imp = i].agent = r.agent
      /\ \A p \in [Keys -> Nodes \cup {NoNode}] : [r EXCEPT !.props = p].agent = r.agent
  BY WithType
<1> QED
  BY <1>1, <1>2 DEF SameAgent

(* Nothing is known yet of a node whose id was not given out.                 *)
LEMMA UnknownNodes ==
    ASSUME TypeInv, NEW n \in Nodes, n \notin minted
    PROVE  nodes[n] = NoNode /\ \A t \in Tasks : call[t].s # n
  BY NoRows DEF TypeInv, StoreFits, WorkFits, IdsFit

LEMMA AgentsKept ==
    ASSUME TypeInv, NEW t \in Tasks, RowsKept(t), NEW n \in Nodes
    PROVE  /\ n \in minted => AgentsOf(n)' \subseteq AgentsOf(n)
           /\ n \notin minted => \A g, h \in AgentsOf(n)' : g = h
<1>1. ASSUME n \in minted, NEW r \in Copies(n)'
      PROVE  \E q \in Copies(n) : r.agent = q.agent
  <2>1. r # NoNode /\ (r = nodes'[n] \/ \E u \in Tasks : call'[u].s = n /\ r = call'[u].row)
    BY <1>1 DEF Copies
  <2>2. CASE r = nodes'[n]
    BY <1>1, <2>1, <2>2 DEF RowsKept, SameAgent
  <2>3. ASSUME NEW u \in Tasks, call'[u].s = n, r = call'[u].row
        PROVE  \E q \in Copies(n) : r.agent = q.agent
    <3>1. SameAgent(r, n)
      BY <2>3, NodeKept DEF RowsKept
    <3> QED
      BY <2>1, <3>1 DEF SameAgent
  <2> QED
    BY <2>1, <2>2, <2>3
<1>2. ASSUME n \notin minted, NEW r \in Copies(n)'
      PROVE  r = nodes'[n]
  <2>1. \A u \in Tasks : call'[u].s # n
    BY <1>2, UnknownNodes DEF RowsKept
  <2> QED
    BY <1>2, <2>1 DEF Copies
<1> QED
  BY <1>1, <1>2 DEF AgentsOf

(* The scripts of a CozoDB method.                                           *)
LEMMA ScriptRows ==
    ASSUME TypeInv, NEW t \in Tasks, CozoStep(t)
    PROVE  RowsKept(t)
<1>1. /\ GraphTypeOK /\ call \in [Tasks -> CallType] /\ call[t] \in CallType /\ CallFits(t) /\ IdsFit(t)
      /\ nodes \in [Nodes -> NodeRow \cup {NoNode}] /\ minted \subseteq Nodes
  BY DEF TypeInv, TypeOK, WorkFits, GraphTypeOK
<1>2. /\ \A u \in Tasks \ {t} : call'[u] = call[u]
      /\ call'[t].s = call[t].s \/ call'[t] = NoCall
  BY <1>1, ScriptTypes DEF GoesOn
<1>3. NoCall.s = NoNode /\ NoNode \notin Nodes
  BY NoCallIs, NoRows DEF Enters
<1>4. ASSUME NEW n \in Nodes, call'[t].s = n
      PROVE  n \in minted /\ n = call[t].s
  BY <1>1, <1>2, <1>3, <1>4 DEF IdsFit
<1>5. ASSUME call'[t].row = call[t].row \/ call'[t].row = nodes[call[t].s] \/ call'[t] = NoCall,
             \A n \in minted : SameAgent(nodes'[n], n)
      PROVE  RowsKept(t)
  <2>1. ASSUME NEW n \in Nodes, call'[t].s = n
        PROVE  SameAgent(call'[t].row, n)
    BY <1>3, <1>4, <1>5, <2>1, NodeKept
  <2> QED
    BY <1>2, <1>4, <1>5, <2>1 DEF RowsKept
<1>6. ASSUME nodes' = nodes
      PROVE  \A n \in minted : SameAgent(nodes'[n], n)
  BY <1>1, <1>6, NodeKept
<1>7. ASSUME NEW m \in Nodes, nodes' = [nodes EXCEPT ![m] = NoNode]
      PROVE  \A n \in minted : SameAgent(nodes'[n], n)
  BY <1>1, <1>7, NodeKept
<1>8. ASSUME NEW p, Goto(t, p)
      PROVE  call'[t].row = call[t].row
  BY <1>1, <1>8 DEF Goto, CallType
<1>9. Return(t) => call'[t] = NoCall
  BY <1>1 DEF Return
<1>10. CASE MergeRead(t) \/ MergeSeen(t)
  <2>1. call'[t].row = call[t].row
    BY <1>1, <1>10 DEF MergeRead, MergeSeen, CallType
  <2> QED
    BY <1>5, <1>6, <1>10, <2>1 DEF MergeRead, MergeSeen, graph
<1>11. CASE MergeRemove(t) \/ MergePutDone(t) \/ RemoveIncident(t) \/ ClearEdges(t)
  BY <1>5, <1>6, <1>8, <1>11 DEF MergeRemove, MergePutDone, RemoveIncident, ClearEdges, graph
<1>12. CASE MergePut(t)
  <2>1. call'[t].row = call[t].row
    BY <1>1, <1>12 DEF MergePut, CallType
  <2> QED
    BY <1>5, <1>6, <1>12, <2>1 DEF MergePut
<1>13. CASE PropsRead(t)
  <2>1. call'[t].row = nodes[call[t].s]
    BY <1>1, <1>13 DEF PropsRead, CallType
  <2> QED
    BY <1>5, <1>6, <1>13, <2>1 DEF PropsRead, graph
<1>14. CASE PropsPut(t)
  <2>1. PICK s \in Nodes, r \in NodeRow, p \in [Keys -> Nodes \cup {NoNode}] :
           s = call[t].s /\ r = call[t].row /\ p = call[t].props
    BY <1>1, <1>14 DEF PropsPut, CallFits, CallType, Merging
  <2>2. SameAgent([r EXCEPT !.props = p], s)
    BY <2>1, NodeKept, EditKept
  <2>3. \A n \in minted : SameAgent(nodes'[n], n)
    BY <1>1, <1>14, <2>1, <2>2, NodeKept DEF PropsPut
  <2> QED
    BY <1>5, <1>8, <1>14, <2>3 DEF PropsPut
<1>15. CASE MergeDrop(t) \/ RemoveNode(t)
  <2>1. call[t].a \in Nodes
    BY <1>1, <1>15 DEF MergeDrop, RemoveNode, CallFits, Merging
  <2> QED
    BY <1>5, <1>7, <1>9, <1>15, <2>1 DEF MergeDrop, RemoveNode
<1>16. CASE UpdateRead(t)
  <2>1. call'[t].row = nodes[call[t].s] \/ call'[t] = NoCall
    BY <1>1, <1>16 DEF UpdateRead, CallType
  <2> QED
    BY <1>5, <1>6, <1>16, <2>1 DEF UpdateRead, graph
<1>17. ASSUME NEW imp \in {1, 2}, UpdatePut(t, imp)
       PROVE  RowsKept(t)
  <2>1. PICK s \in Nodes, r \in NodeRow : s = call[t].s /\ r = call[t].row
    BY <1>1, <1>17 DEF UpdatePut, CallFits, CallType
  <2>2. SameAgent([r EXCEPT !.imp = imp], s)
    BY <2>1, NodeKept, EditKept
  <2>3. \A n \in minted : SameAgent(nodes'[n], n)
    BY <1>1, <1>17, <2>1, <2>2, NodeKept DEF UpdatePut
  <2> QED
    BY <1>5, <1>9, <1>17, <2>3 DEF UpdatePut
<1>18. CASE ClearNodes(t)
  <2>1. \A n \in minted : SameAgent(nodes'[n], n)
    BY <1>1, <1>18, NodeKept DEF ClearNodes
  <2> QED
    BY <1>5, <1>9, <1>18, <2>1 DEF ClearNodes
<1>19. CASE WeightRead(t)
  <2>1. call'[t].row = call[t].row
    BY <1>1, <1>19 DEF WeightRead, CallType
  <2> QED
    BY <1>5, <1>6, <1>19, <2>1 DEF WeightRead, graph
<1>20. CASE WeightPut(t)
  <2>1. PICK e \in Live(call[t].saved) :
           call' = [call EXCEPT ![t].pc = "weightRead", ![t].saved[e] = NoEdge, ![t].weights[e] = 0]
    BY <1>20 DEF WeightPut
  <2>2. call'[t].row = call[t].row
    BY <1>1, <2>1 DEF CallType
  <2> QED
    BY <1>5, <1>6, <1>20, <2>2 DEF WeightPut
<1>21. CASE WeightsDone(t)
  BY <1>5, <1>6, <1>9, <1>21 DEF WeightsDone, graph
<1> QED
  BY <1>10, <1>11, <1>12, <1>13, <1>14, <1>15, <1>16, <1>17, <1>18, <1>19, <1>20, <1>21 DEF CozoStep

LEMMA CallsKept ==
    ASSUME TypeInv, NEW t \in Tasks, UNCHANGED call, \A n \in minted : SameAgent(nodes'[n], n)
    PROVE  RowsKept(t)
<1>1. ASSUME NEW n \in Nodes, call[t].s = n
      PROVE  n \in minted /\ SameAgent(call[t].row, n)
  BY <1>1, NodeKept, UnknownNodes
<1> QED
  BY <1>1 DEF RowsKept

LEMMA StillKept ==
    ASSUME TypeInv, NEW t \in Tasks, UNCHANGED <<nodes, call>>
    PROVE  RowsKept(t)
<1>1. \A n \in minted : SameAgent(nodes'[n], n)
  BY NodeKept DEF TypeInv, TypeOK
<1> QED
  BY <1>1, CallsKept

LEMMA BeginRows ==
    ASSUME TypeInv, NEW t \in Tasks, NEW c, NEW phase, NEW s, NEW a, Enters(c, phase, s, a), Begin(t, c),
           s \in Nodes => s \in minted
    PROVE  RowsKept(t)
<1>1. call'[t] = c /\ nodes' = nodes /\ \A u \in Tasks \ {t} : call'[u] = call[u]
  BY DEF Begin, graph, TypeInv, TypeOK
<1>2. \A n \in minted : SameAgent(nodes'[n], n)
  BY <1>1, NodeKept DEF TypeInv, TypeOK
<1>3. \A n \in Nodes : SameAgent(c.row, n)
  BY NodeKept DEF Enters
<1> QED
  BY <1>1, <1>2, <1>3 DEF RowsKept, Enters

LEMMA SqlRows ==
    ASSUME TypeInv,
           \/ \E s, a \in Nodes, props \in [Keys -> Nodes \cup {NoNode}] : SqlMerge(s, a, props)
           \/ \E n \in Nodes : SqlDelete(n) \/ SqlDeleteFails(n) \/ \E i \in {1, 2} : SqlUpdate(n, i)
           \/ \E w \in [Edges -> 0..MaxWeight] : SqlSetWeights(w)
           \/ SqlClear \/ SqlClearFails \/ UNCHANGED graph
    PROVE  \A n \in minted : SameAgent(nodes'[n], n)
<1>1. nodes \in [Nodes -> NodeRow \cup {NoNode}] /\ minted \subseteq Nodes
  BY DEF TypeInv, TypeOK, GraphTypeOK
<1>2. ASSUME NEW s \in Nodes, NEW a \in Nodes, NEW props \in [Keys -> Nodes \cup {NoNode}], SqlMerge(s, a, props),
             NEW n \in minted
      PROVE  SameAgent(nodes'[n], n)
  <2>1. n \in Nodes /\ SameAgent(nodes[n], n) /\ SameAgent(NoNode, n)
    BY <1>1, NodeKept
  <2>2. CASE n = s /\ n # a /\ nodes[n] # NoNode
    <3>1. PICK r \in NodeRow : r = nodes[n]
      BY <1>1, <2>1, <2>2
    <3>2. nodes'[n] = [r EXCEPT !.props = props]
      BY <1>2, <2>1, <2>2, <3>1 DEF SqlMerge
    <3>3. \A p \in [Keys -> Nodes \cup {NoNode}] : SameAgent([r EXCEPT !.props = p], n)
      BY <2>1, <3>1, EditKept
    <3> QED
      BY <3>2, <3>3
  <2>3. CASE ~(n = s /\ n # a /\ nodes[n] # NoNode)
    <3>1. nodes'[n] = nodes[n] \/ nodes'[n] = NoNode
      BY <1>2, <2>1, <2>3 DEF SqlMerge
    <3> QED
      BY <2>1, <3>1
  <2> QED
    BY <2>2, <2>3
<1>3. ASSUME NEW m \in Nodes, NEW i \in {1, 2}, SqlUpdate(m, i), NEW n \in minted
      PROVE  SameAgent(nodes'[n], n)
  <2>1. n \in Nodes /\ SameAgent(nodes[n], n)
    BY <1>1, NodeKept
  <2>2. CASE n = m /\ nodes[n] # NoNode
    <3>1. PICK r \in NodeRow : r = nodes[n]
      BY <1>1, <2>1, <2>2
    <3>2. nodes'[n] = [r EXCEPT !.imp = i]
      BY <1>1, <1>3, <2>1, <2>2, <3>1 DEF SqlUpdate
    <3>3. \A j \in {1, 2} : SameAgent([r EXCEPT !.imp = j], n)
      BY <2>1, <3>1, EditKept
    <3> QED
      BY <3>2, <3>3
  <2>3. CASE ~(n = m /\ nodes[n] # NoNode)
    <3>1. nodes'[n] = nodes[n]
      BY <1>1, <1>3, <2>1, <2>3 DEF SqlUpdate
    <3> QED
      BY <2>1, <3>1
  <2> QED
    BY <2>2, <2>3
<1>4. ASSUME NEW m \in Nodes, SqlDelete(m) \/ SqlDeleteFails(m), NEW n \in minted
      PROVE  SameAgent(nodes'[n], n)
  BY <1>1, <1>4, NodeKept DEF SqlDelete, SqlDeleteFails
<1>5. ASSUME SqlClear \/ SqlClearFails \/ UNCHANGED graph \/ \E w \in [Edges -> 0..MaxWeight] : SqlSetWeights(w),
             NEW n \in minted
      PROVE  SameAgent(nodes'[n], n)
  BY <1>1, <1>5, NodeKept DEF SqlClear, SqlClearFails, SqlSetWeights, graph
<1> QED
  BY <1>2, <1>3, <1>4, <1>5

LEMMA RequestRows ==
    ASSUME TypeInv, NEW t \in Tasks,
           \/ \E n \in Nodes : ClientDelete(t, n) \/ ClientUpdate(t, n)
           \/ ClientClear(t) \/ StartSeed(t)
    PROVE  RowsKept(t)
<1>1. \/ /\ UNCHANGED call
         /\ \/ \E n \in Nodes : SqlDelete(n) \/ SqlDeleteFails(n) \/ \E i \in {1, 2} : SqlUpdate(n, i)
            \/ SqlClear \/ SqlClearFails \/ UNCHANGED graph
      \/ Begin(t, ClearCall)
      \/ \E n \in minted : n \in Nodes /\ (Begin(t, DeleteCall(n)) \/ Begin(t, UpdateCall(n)))
  <2>1. minted \subseteq Nodes
    BY DEF TypeInv, TypeOK
  <2>2. CASE \E n \in Nodes : ClientDelete(t, n)
    <3>1. PICK n \in Nodes : ClientDelete(t, n)
      BY <2>2
    <3>2. n \in minted
      BY <3>1 DEF ClientDelete, TypeInv, StoreFits
    <3> QED
      BY <3>1, <3>2 DEF ClientDelete, AtOnce
  <2>3. CASE \E n \in Nodes : ClientUpdate(t, n)
    BY <2>3 DEF ClientUpdate, AtOnce
  <2>4. CASE ClientClear(t)
    BY <2>4 DEF ClientClear, AtOnce
  <2>5. CASE StartSeed(t)
    BY <2>5 DEF StartSeed, AtOnce
  <2> QED
    BY <2>2, <2>3, <2>4, <2>5
<1>2. ASSUME UNCHANGED call,
             \/ \E n \in Nodes : SqlDelete(n) \/ SqlDeleteFails(n) \/ \E i \in {1, 2} : SqlUpdate(n, i)
             \/ SqlClear \/ SqlClearFails \/ UNCHANGED graph
      PROVE  RowsKept(t)
  BY <1>2, SqlRows, CallsKept
<1>3. CASE Begin(t, ClearCall)
  BY <1>3, ClearCallIs, BeginRows, NoRows
<1>4. ASSUME NEW n \in minted, n \in Nodes, Begin(t, DeleteCall(n)) \/ Begin(t, UpdateCall(n))
      PROVE  RowsKept(t)
  BY <1>4, ClientCallsAre, BeginRows, NoRows
<1> QED
  BY <1>1, <1>2, <1>3, <1>4

LEMMA MergePairIs ==
    ASSUME TypeInv, NEW t \in Tasks, MergePair(t)
    PROVE  \E s, a \in Nodes, props \in [Keys -> Nodes \cup {NoNode}] :
              /\ {s, a} \subseteq minted /\ {s, a} \subseteq About(t)
              /\ pass'[t].owner = pass[t].owner /\ pass'[t].pairs \subseteq pass[t].pairs
              /\ \/ UNCHANGED call /\ SqlMerge(s, a, props)
                 \/ Begin(t, MergeCall(s, a, props))
                 \/ Quiet
<1>1. SoundPass(pass[t]) /\ pass[t] \in PassType /\ pass \in [Tasks -> PassType]
  BY PassSound DEF SoundPass, TypeInv, TypeOK
<1>2. PICK p \in pass[t].pairs :
        \/ /\ Becomes(t, [pass[t] EXCEPT !.pairs = @ \ {p}, !.count = @ + 1])
           /\ \/ SqlMerge(p[1], p[2], p[3]) /\ AtOnce
              \/ Begin(t, MergeCall(p[1], p[2], p[3]))
        \/ Becomes(t, [pass[t] EXCEPT !.pairs = @ \ {p}]) /\ Quiet
  BY DEF MergePair
<1>3. pass'[t].owner = pass[t].owner /\ pass'[t].pairs \subseteq pass[t].pairs
  <2>1. PICK q, n : q = pass[t] /\ n = q.count + 1
    OBVIOUS
  <2>2. pass'[t] = [q EXCEPT !.pairs = @ \ {p}, !.count = n] \/ pass'[t] = [q EXCEPT !.pairs = @ \ {p}]
    BY <1>1, <1>2, <2>1 DEF Becomes
  <2>3. q \in PassType
    BY <1>1, <2>1
  <2> QED
    BY <2>1, <2>2, <2>3 DEF PassType
<1>4. PICK s \in Nodes, a \in Nodes, props \in [Keys -> Nodes \cup {NoNode}] :
         s = p[1] /\ a = p[2] /\ props = p[3]
  BY <1>1 DEF PassType
<1>5. {s, a} \subseteq minted /\ {s, a} \subseteq About(t)
  BY <1>1, <1>4 DEF SoundPass, About
<1>6. \/ UNCHANGED call /\ SqlMerge(s, a, props)
      \/ Begin(t, MergeCall(s, a, props))
      \/ Quiet
  BY <1>2, <1>4 DEF AtOnce
<1> QED
  BY <1>3, <1>5, <1>6

LEMMA ActRows ==
    ASSUME TypeInv, NEW t \in Tasks, Acts(t)
    PROVE  RowsKept(t)
<1>1. ASSUME Quiet PROVE RowsKept(t)
  BY <1>1, StillKept DEF Quiet
<1>2. CASE Script(t)
  <2>1. CASE CozoStep(t)
    BY <2>1, ScriptRows
  <2>2. CASE ScriptFails(t)
    <3>1. call'[t] = NoCall /\ nodes' = nodes /\ \A u \in Tasks \ {t} : call'[u] = call[u]
      BY <2>2 DEF ScriptFails, Return, graph, TypeInv, TypeOK
    <3>2. \A n \in minted : SameAgent(nodes'[n], n)
      BY <3>1, NodeKept DEF TypeInv, TypeOK
    <3> QED
      BY <3>1, <3>2, NoCallIs, NoRows DEF RowsKept, Enters
  <2> QED
    BY <1>2, <2>1, <2>2 DEF Script
<1>3. CASE \/ \E a \in Agents : StartEvolve(t, a) \/ StartBuild(t, a)
           \/ ListNodes(t) \/ EdgesOf(t) \/ Finish(t) \/ PlanLinks(t) \/ LinksDone(t) \/ PlanSeedLinks(t)
  BY <1>1, <1>3 DEF StartEvolve, StartBuild, ListNodes, EdgesOf, Finish, PlanLinks, LinksDone, PlanSeedLinks
<1>4. CASE MergePair(t)
  <2>1. PICK s \in Nodes, a \in Nodes, props \in [Keys -> Nodes \cup {NoNode}] :
           /\ {s, a} \subseteq minted
           /\ \/ UNCHANGED call /\ SqlMerge(s, a, props)
              \/ Begin(t, MergeCall(s, a, props))
              \/ Quiet
    BY <1>4, MergePairIs
  <2>2. CASE UNCHANGED call /\ SqlMerge(s, a, props)
    BY <2>2, SqlRows, CallsKept
  <2>3. CASE Begin(t, MergeCall(s, a, props))
    <3>1. Enters(MergeCall(s, a, props), "mergeRead", s, a)
      BY MergeCallIs
    <3> QED
      BY <2>1, <2>3, <3>1, BeginRows
  <2> QED
    BY <1>1, <2>1, <2>2, <2>3
<1>5. CASE SetWeights(t)
  <2>1. PICK w \in [Edges -> 0..MaxWeight] : w = pass[t].weights
    BY PassSound DEF SoundPass, PassType
  <2>2. CASE Begin(t, WeightsCall(w))
    BY <2>2, WeightsCallIs, BeginRows, NoRows
  <2> QED
    BY <1>1, <1>5, <2>1, <2>2, StillKept DEF SetWeights, SqlSetWeights, AtOnce
<1>6. CASE BuildNode(t) \/ SeedNode(t)
  <2>1. minted # Nodes /\ UNCHANGED call
    BY <1>6 DEF BuildNode, SeedNode
  <2>2. \A n \in minted : nodes'[n] = nodes[n]
    <3>1. Fresh \notin minted /\ nodes \in [Nodes -> NodeRow \cup {NoNode}] /\ minted \subseteq Nodes
      BY <2>1, FreshIs DEF TypeInv, TypeOK, GraphTypeOK
    <3> QED
      BY <1>6, <3>1 DEF BuildNode, SeedNode, PutNode, SqlPutNode, CozoPutNode, graph
  <2>3. \A n \in minted : SameAgent(nodes'[n], n)
    BY <2>2, NodeKept DEF TypeInv, TypeOK
  <2> QED
    BY <2>1, <2>3, CallsKept
<1>7. CASE AddLink(t)
  BY <1>7, StillKept DEF AddLink, PutEdge, SqlPutEdge, CozoPutEdge, graph
<1>8. CASE \/ \E n \in Nodes : ClientDelete(t, n) \/ ClientUpdate(t, n)
           \/ ClientClear(t) \/ StartSeed(t)
  BY <1>8, RequestRows
<1> QED
  BY <1>2, <1>3, <1>4, <1>5, <1>6, <1>7, <1>8 DEF Acts

LEMMA OtherPasses ==
    ASSUME TypeInv, NEW t \in Tasks, Acts(t), NEW u \in Tasks, u # t
    PROVE  pass'[u] = pass[u] /\ call'[u] = call[u]
<1>1. \A p : Becomes(t, p) => pass'[u] = pass[u]
  BY DEF Becomes, TypeInv, TypeOK
<1>2. pass'[u] = pass[u]
  BY <1>1 DEF Acts, Script, StartEvolve, StartBuild, MergePair, ListNodes, EdgesOf, SetWeights, Finish,
     BuildNode, PlanLinks, AddLink, LinksDone, StartSeed, SeedNode, PlanSeedLinks, ClientDelete,
     ClientUpdate, ClientClear, Start
<1> QED
  BY <1>2, ActRows DEF RowsKept

(* A script touches the nodes its method is about; one that sets weights none. *)
LEMMA ScriptTouches ==
    ASSUME TypeInv, NEW t \in Tasks, CozoStep(t)
    PROVE  /\ call[t].pc \in Weighing => nodes' = nodes
           /\ call[t].pc \in Merging => \A n \in Nodes : nodes'[n] # nodes[n] => n \in {call[t].s, call[t].a}
<1>1. nodes \in [Nodes -> NodeRow \cup {NoNode}]
  BY DEF TypeInv, TypeOK, GraphTypeOK
<1>2. CASE \/ MergeRead(t) \/ MergeRemove(t) \/ MergeSeen(t) \/ MergePut(t) \/ MergePutDone(t)
           \/ PropsRead(t) \/ RemoveIncident(t) \/ UpdateRead(t) \/ ClearEdges(t)
           \/ WeightRead(t) \/ WeightPut(t) \/ WeightsDone(t)
  <2>1. nodes' = nodes
    BY <1>2 DEF graph, MergeRead, MergeRemove, MergeSeen, MergePut, MergePutDone, PropsRead, RemoveIncident,
       UpdateRead, ClearEdges, WeightRead, WeightPut, WeightsDone
  <2> QED
    BY <2>1
<1>3. CASE PropsPut(t) \/ MergeDrop(t)
  BY <1>1, <1>3 DEF PropsPut, MergeDrop, Weighing
<1>4. CASE RemoveNode(t) \/ ClearNodes(t) \/ \E imp \in {1, 2} : UpdatePut(t, imp)
  BY <1>4 DEF RemoveNode, ClearNodes, UpdatePut, Weighing, Merging
<1> QED
  BY <1>2, <1>3, <1>4 DEF CozoStep

(* An evolution pass changes nodes only when it merges, those it is about.     *)
LEMMA PassTouches ==
    ASSUME TypeInv, NEW t \in Tasks, Acts(t), pass[t].pc \in {"merge", "strengthen", "weigh"},
           NEW n \in Nodes, nodes'[n] # nodes[n]
    PROVE  pass[t].pc = "merge" /\ n \in About(t)
<1>1. ~Quiet
  BY DEF Quiet
<1>2. CASE Script(t)
  <2>1. CozoStep(t)
    BY <1>2 DEF Script, ScriptFails, graph
  <2>2. Busy(t) /\ CallFits(t)
    BY <2>1, ScriptTypes DEF TypeInv, TypeOK, WorkFits
  <2>3. CASE pass[t].pc = "merge"
    BY <2>1, <2>2, <2>3, ScriptTouches DEF CallFits, About
  <2>4. CASE pass[t].pc # "merge"
    BY <2>1, <2>2, <2>4, ScriptTouches DEF CallFits
  <2> QED
    BY <2>3, <2>4
<1>3. CASE MergePair(t)
  <2>1. PICK s \in Nodes, a \in Nodes, props \in [Keys -> Nodes \cup {NoNode}] :
           /\ {s, a} \subseteq About(t)
           /\ \/ SqlMerge(s, a, props)
              \/ Begin(t, MergeCall(s, a, props))
              \/ Quiet
    BY <1>3, MergePairIs
  <2>2. SqlMerge(s, a, props)
    BY <1>1, <2>1 DEF Begin, graph
  <2>3. n \in {s, a}
    BY <2>2 DEF SqlMerge
  <2> QED
    BY <1>3, <2>1, <2>3 DEF MergePair
<1>4. ~SetWeights(t)
  BY <1>1 DEF SetWeights, SqlSetWeights, Begin, graph
<1>5. ~ListNodes(t) /\ ~EdgesOf(t) /\ ~Finish(t) /\ ~PlanLinks(t) /\ ~LinksDone(t) /\ ~PlanSeedLinks(t)
  BY <1>1 DEF ListNodes, EdgesOf, Finish, PlanLinks, LinksDone, PlanSeedLinks
<1>6. \A p : ~Start(t, p)
  BY DEF Start, MayStart
<1>7. ~BuildNode(t) /\ ~SeedNode(t) /\ ~AddLink(t)
  BY DEF BuildNode, SeedNode, AddLink
<1>8. /\ ~StartSeed(t) /\ ~ClientClear(t)
      /\ \A a \in Agents : ~StartEvolve(t, a) /\ ~StartBuild(t, a)
      /\ \A m \in Nodes : ~ClientDelete(t, m) /\ ~ClientUpdate(t, m)
  BY <1>6 DEF StartSeed, ClientClear, StartEvolve, MayStart, StartBuild, ClientDelete, ClientUpdate
<1> QED
  BY <1>2, <1>3, <1>4, <1>5, <1>7, <1>8 DEF Acts

(* A merging pass is about no more nodes than before, or starts with nodes its *)
(* agent sees.                                                              *)
LEMMA PassAbout ==
    ASSUME TypeInv, NEW t \in Tasks, Acts(t), pass'[t].pc = "merge"
    PROVE  \/ /\ pass[t].pc = "merge" /\ pass'[t].owner = pass[t].owner
              /\ About(t)' \subseteq About(t)
           \/ /\ UNCHANGED <<nodes, call>>
              /\ \A n \in About(t)' : nodes[n] # NoNode /\ Sees(pass'[t].owner, nodes[n].agent)
<1>1. /\ pass \in [Tasks -> PassType] /\ pass[t] \in PassType /\ call \in [Tasks -> CallType] /\ CallFits(t)
      /\ minted \subseteq Nodes
  BY DEF TypeInv, TypeOK, WorkFits
<1>2. \A p : Becomes(t, p) => pass'[t] = p
  BY <1>1 DEF Becomes
<1>3. CASE Script(t)
  <2>1. CASE CozoStep(t) /\ UNCHANGED pass
    <3>1. Busy(t) /\ (call'[t] = NoCall \/ (call'[t].s = call[t].s /\ call'[t].a = call[t].a))
      BY <1>1, <2>1, ScriptTypes DEF TypeInv, TypeOK, GoesOn
    <3>2. About(t)' \subseteq About(t)
      BY <2>1, <3>1, NoCallIs DEF About, Busy
    <3> QED
      BY <2>1, <3>2
  <2>2. CASE ScriptFails(t) /\ Becomes(t, IF pass[t].pc = "merge" THEN [pass[t] EXCEPT !.count = @ - 1]
                                          ELSE IF pass[t].pc = "weigh" THEN Off ELSE pass[t])
    <3>1. pass[t].pc = "merge"
      BY <1>2, <2>2, OffSound
    <3>2. pass'[t] = [pass[t] EXCEPT !.count = @ - 1] /\ call'[t] = NoCall
      BY <1>1, <1>2, <2>2, <3>1 DEF ScriptFails, Return
    <3>3. pass'[t].owner = pass[t].owner /\ pass'[t].pairs = pass[t].pairs
      <4>1. PICK q, k : q = pass[t] /\ k = q.count - 1
        OBVIOUS
      <4>2. pass'[t] = [q EXCEPT !.count = k] /\ q \in PassType
        BY <1>1, <3>2, <4>1
      <4> QED
        BY <4>1, <4>2 DEF PassType
    <3>4. About(t)' \subseteq About(t)
      BY <3>2, <3>3, NoCallIs DEF About, Busy
    <3> QED
      BY <3>1, <3>3, <3>4
  <2> QED
    BY <1>3, <2>1, <2>2 DEF Script
<1>4. CASE MergePair(t)
  <2>1. PICK s \in Nodes, a \in Nodes, props \in [Keys -> Nodes \cup {NoNode}] :
           /\ {s, a} \subseteq About(t)
           /\ pass'[t].owner = pass[t].owner /\ pass'[t].pairs \subseteq pass[t].pairs
           /\ UNCHANGED call \/ Begin(t, MergeCall(s, a, props))
    BY <1>4, MergePairIs DEF Quiet
  <2>2. pass[t].pc = "merge"
    BY <1>4 DEF MergePair
  <2>3. ASSUME NEW n \in About(t)'
        PROVE  n \in About(t)
    <3>1. n \in Nodes /\ ((Busy(t)' /\ n \in {call'[t].s, call'[t].a}) \/ \E p \in pass'[t].pairs : n \in {p[1], p[2]})
      BY DEF About
    <3>2. CASE \E p \in pass'[t].pairs : n \in {p[1], p[2]}
      BY <2>1, <3>1, <3>2 DEF About
    <3>3. CASE Busy(t)' /\ n \in {call'[t].s, call'[t].a} /\ UNCHANGED call
      BY <3>1, <3>3 DEF About, Busy
    <3>4. CASE Busy(t)' /\ n \in {call'[t].s, call'[t].a} /\ Begin(t, MergeCall(s, a, props))
      <4>1. call'[t].s = s /\ call'[t].a = a
        BY <1>1, <3>4, MergeCallIs DEF Begin, Enters
      <4> QED
        BY <2>1, <3>4, <4>1
    <3> QED
      BY <2>1, <3>1, <3>2, <3>3, <3>4
  <2> QED
    BY <2>1, <2>2, <2>3
<1>5. ASSUME NEW a \in Agents, StartEvolve(t, a)
      PROVE  /\ UNCHANGED <<nodes, call>>
             /\ \A n \in About(t)' : nodes[n] # NoNode /\ Sees(pass'[t].owner, nodes[n].agent)
  <2>1. PICK found : /\ found \subseteq Candidates(a)
                     /\ Start(t, [Off EXCEPT !.pc = "merge", !.owner = a, !.pairs = found])
    <3>1. \A f \in [1..(2 * MaxMerges) -> Candidates(a) \cup {<<>>}] : Range(f) \ {<<>>} \subseteq Candidates(a)
      BY DEF Range
    <3> QED
      BY <1>5, <3>1 DEF StartEvolve
  <2>2. ~Busy(t) /\ pass'[t] = [Off EXCEPT !.pc = "merge", !.owner = a, !.pairs = found]
    BY <1>2, <2>1, StartIs
  <2>3. pass'[t].owner = a /\ pass'[t].pairs = found
    BY <2>2, OffSound DEF PassType
  <2>4. UNCHANGED <<nodes, call>>
    BY <1>5 DEF StartEvolve, Quiet
  <2>5. \A n \in About(t)' : \E p \in found : n \in {p[1], p[2]}
    BY <2>2, <2>3, <2>4 DEF About, Busy
  <2>6. \A p \in found : \A n \in {p[1], p[2]} : nodes[n] # NoNode /\ Sees(a, nodes[n].agent)
    BY <2>1 DEF Candidates, Similar, SqlSimilar, CozoSimilar, Loadable, CozoVisible
  <2> QED
    BY <2>3, <2>4, <2>5, <2>6
<1>6. pass'[t].pc # "merge" \/ Script(t) \/ MergePair(t) \/ \E a \in Agents : StartEvolve(t, a)
  <2>1. Off.pc = "off" /\ Off \in PassType
    BY OffSound
  <2>2. \A a \in Agents : StartBuild(t, a) => pass'[t].pc = "nodes"
    BY <1>2, <2>1 DEF StartBuild, Start, PassType
  <2>3. ListNodes(t) => pass'[t].pc # "merge"
    BY <1>2, <2>1 DEF ListNodes, PassType
  <2>4. EdgesOf(t) => pass'[t].pc # "merge"
    BY <1>1, <1>2, <2>1 DEF EdgesOf, PassType
  <2>5. SetWeights(t) => pass'[t].pc # "merge"
    BY <1>2, <2>1 DEF SetWeights, PassType
  <2>6. Finish(t) \/ LinksDone(t) => pass'[t].pc # "merge"
    BY <1>2, <2>1 DEF Finish, LinksDone
  <2>7. BuildNode(t) \/ PlanLinks(t) => pass'[t].pc # "merge"
    BY <1>1, <1>2 DEF BuildNode, PlanLinks, PassType
  <2>8. AddLink(t) => pass'[t].pc # "merge"
    BY <1>1, <1>2 DEF AddLink, PassType
  <2>9. StartSeed(t) => pass'[t].pc # "merge"
    BY <1>2, <2>1 DEF StartSeed, Start, PassType
  <2>10. SeedNode(t) => pass'[t].pc # "merge"
    BY <1>1, <1>2 DEF SeedNode, PassType
  <2>11. PlanSeedLinks(t) => pass'[t].pc # "merge"
    BY <1>1, <1>2 DEF PlanSeedLinks, PassType
  <2>12. ASSUME ClientClear(t) \/ \E n \in Nodes : ClientDelete(t, n) \/ ClientUpdate(t, n)
         PROVE  pass'[t].pc # "merge"
    BY <1>2, <2>1, <2>12 DEF ClientClear, ClientDelete, ClientUpdate, Start, PassType
  <2> QED
    BY <2>2, <2>3, <2>4, <2>5, <2>6, <2>7, <2>8, <2>9, <2>10, <2>11, <2>12 DEF Acts
<1> QED
  BY <1>3, <1>4, <1>5, <1>6

LEMMA AboutMinted ==
    ASSUME TypeInv, NEW t \in Tasks, NEW n \in About(t)
    PROVE  n \in Nodes /\ n \in minted
  BY NoRows DEF TypeInv, WorkFits, IdsFit, About

LEMMA OwnBegins == Init => OwnInv
<1> SUFFICES ASSUME Init PROVE OwnInv
  OBVIOUS
<1>1. NoNode \notin Nodes /\ NoCall.s = NoNode
  BY NoRows, NoCallIs DEF Enters
<1>2. \A n \in Nodes : Copies(n) \subseteq {nodes[n]}
  BY <1>1 DEF Init, Copies
<1>3. \A t \in Tasks : pass[t].pc # "merge"
  BY OffSound DEF Init
<1> QED
  BY <1>2, <1>3 DEF OwnInv, AgentsOf

LEMMA OwnStep == TypeInv /\ TypeInv' /\ OwnInv /\ [Next]_vars => OwnInv'
<1> SUFFICES ASSUME TypeInv, TypeInv', OwnInv, [Next]_vars PROVE OwnInv'
  OBVIOUS
<1>1. CASE UNCHANGED vars
  <2>1. \A n \in Nodes : AgentsOf(n)' = AgentsOf(n)
    BY <1>1 DEF vars, AgentsOf, Copies
  <2>2. \A t \in Tasks : About(t)' = About(t) /\ pass'[t] = pass[t] /\ \A n \in About(t) : n \in Nodes
    BY <1>1 DEF vars, About, Busy
  <2> QED
    BY <2>1, <2>2 DEF OwnInv
<1>2. ASSUME NEW t \in Tasks, Acts(t)
      PROVE  OwnInv'
  <2>1. \A n \in Nodes : /\ n \in minted => AgentsOf(n)' \subseteq AgentsOf(n)
                         /\ n \notin minted => \A g, h \in AgentsOf(n)' : g = h
    BY <1>2, ActRows, AgentsKept
  <2>2. ASSUME NEW n \in Nodes, NEW g \in AgentsOf(n)', NEW h \in AgentsOf(n)'
        PROVE  g = h
    BY <2>1, <2>2 DEF OwnInv
  <2>3. ASSUME NEW u \in Tasks, pass'[u].pc = "merge", NEW n \in About(u)', NEW g \in AgentsOf(n)'
        PROVE  Sees(pass'[u].owner, g)
    <3>1. CASE u # t
      <4>1. pass'[u] = pass[u] /\ call'[u] = call[u]
        BY <1>2, <3>1, OtherPasses
      <4>2. n \in About(u)
        BY <4>1 DEF About, Busy
      <4>3. g \in AgentsOf(n)
        BY <2>1, <4>2, AboutMinted
      <4> QED
        BY <2>3, <4>1, <4>2, <4>3 DEF OwnInv
    <3>2. CASE u = t /\ pass[t].pc = "merge" /\ pass'[t].owner = pass[t].owner /\ About(t)' \subseteq About(t)
      <4>1. n \in About(t)
        BY <3>2
      <4>2. g \in AgentsOf(n)
        BY <2>1, <4>1, AboutMinted
      <4> QED
        BY <3>2, <4>1, <4>2 DEF OwnInv
    <3>3. CASE /\ u = t /\ UNCHANGED <<nodes, call>>
               /\ \A m \in About(t)' : nodes[m] # NoNode /\ Sees(pass'[t].owner, nodes[m].agent)
      <4>1. n \in Nodes
        BY DEF About
      <4>2. nodes[n] # NoNode /\ Sees(pass'[t].owner, nodes[n].agent)
        BY <3>3
      <4>3. nodes[n].agent \in AgentsOf(n)
        BY <4>2 DEF AgentsOf, Copies
      <4>4. AgentsOf(n)' = AgentsOf(n)
        BY <3>3 DEF AgentsOf, Copies
      <4>5. g = nodes[n].agent
        BY <4>1, <4>3, <4>4 DEF OwnInv
      <4> QED
        BY <3>3, <4>2, <4>5
    <3> QED
      BY <1>2, <2>3, <3>1, <3>2, <3>3, PassAbout
  <2> QED
    BY <2>2, <2>3 DEF OwnInv
<1> QED
  BY <1>1, <1>2, ActsNext

(* An evolution pass leaves the nodes of other agents alone (evolve() with an   *)
(* agent): a node never changes its agent, and what a pass merges it found     *)
(* among the nodes its agent sees, even when other calls run between.  Nothing *)
(* of the kind is claimed of edges.                                          *)
THEOREM PassesOwnTheirNodes == Spec => OthersUntouched
<1> DEFINE Step == \A t \in Tasks :
              pass[t].pc \in {"merge", "strengthen", "weigh"} /\ (pass'[t] # pass[t] \/ call'[t] # call[t]) =>
                 \A n \in Nodes : nodes[n] # NoNode /\ nodes'[n] # nodes[n] =>
                                    Sees(pass[t].owner, nodes[n].agent)
<1>1. Init => TypeInv /\ OwnInv
  BY InitTypes, OwnBegins
<1>2. TypeInv /\ OwnInv /\ [Next]_vars => TypeInv' /\ OwnInv'
  BY TypeStep, OwnStep
<1>3. TypeInv /\ OwnInv /\ [Next]_vars => [Step]_vars
  <2> SUFFICES ASSUME TypeInv, OwnInv, Next,
                      NEW t \in Tasks, pass[t].pc \in {"merge", "strengthen", "weigh"},
                      pass'[t] # pass[t] \/ call'[t] # call[t],
                      NEW n \in Nodes, nodes[n] # NoNode, nodes'[n] # nodes[n]
               PROVE  Sees(pass[t].owner, nodes[n].agent)
    OBVIOUS
  <2>1. Acts(t)
    BY ActsNext, OtherPasses
  <2>2. pass[t].pc = "merge" /\ n \in About(t)
    BY <2>1, PassTouches
  <2>3. nodes[n].agent \in AgentsOf(n)
    BY DEF AgentsOf, Copies
  <2> QED
    BY <2>2, <2>3 DEF OwnInv
<1> QED
  BY <1>1, <1>2, <1>3, PTL DEF Spec, OthersUntouched

----------------------------------------------------------------------------
(* The two traversals, one and two hops away.                                 *)

Level0(start) == [visited |-> {start}, frontier |-> {start}]

LEMMA LevelsAre ==
    ASSUME NEW N, NEW E, NEW start, NEW a, NEW hops \in {1, 2}
    PROVE  /\ SqlLevels(N, E, start, hops, a)[0] = Level0(start)
           /\ SqlLevels(N, E, start, hops, a)[1] = SqlNextLevel(N, E, Level0(start), a)
           /\ hops = 2 => SqlLevels(N, E, start, hops, a)[2] =
                             SqlNextLevel(N, E, SqlNextLevel(N, E, Level0(start), a), a)
<1> DEFINE Goes(f) == f = [d \in 0..hops |-> IF d = 0 THEN Level0(start) ELSE SqlNextLevel(N, E, f[d - 1], a)]
           one == SqlNextLevel(N, E, Level0(start), a)
           two == SqlNextLevel(N, E, one, a)
           g == [d \in 0..hops |-> IF d = 0 THEN Level0(start) ELSE IF d = 1 THEN one ELSE two]
<1>1. SqlLevels(N, E, start, hops, a) = CHOOSE f : Goes(f)
  BY DEF SqlLevels, Level0
<1>2. Goes(g)
  <2>1. \A d \in 0..hops : d # 0 /\ d # 1 => d = 2
    OBVIOUS
  <2>2. \A d \in 0..hops : d # 0 => d - 1 \in 0..hops
    OBVIOUS
  <2>3. \A d \in 0..hops : (IF d = 0 THEN Level0(start) ELSE IF d = 1 THEN one ELSE two)
                             = (IF d = 0 THEN Level0(start) ELSE SqlNextLevel(N, E, g[d - 1], a))
    <3>1. SUFFICES ASSUME NEW d \in 0..hops, d # 0
                   PROVE  (IF d = 1 THEN one ELSE two) = SqlNextLevel(N, E, g[d - 1], a)
      OBVIOUS
    <3>2. CASE d = 1
      <4>1. g[d - 1] = Level0(start)
        BY <3>2
      <4> QED
        BY <3>2, <4>1
    <3>3. CASE d = 2
      <4>1. g[d - 1] = one
        BY <3>3
      <4> QED
        BY <3>3, <4>1
    <3> QED
      BY <2>1, <3>1, <3>2, <3>3
  <2> HIDE DEF one, two
  <2> QED
    BY <2>3
<1> HIDE DEF Goes, g
<1>3. Goes(SqlLevels(N, E, start, hops, a))
  BY <1>1, <1>2, Zenon
<1>4. PICK f : f = SqlLevels(N, E, start, hops, a) /\ Goes(f)
  BY <1>3
<1>5. f = [d \in 0..hops |-> IF d = 0 THEN Level0(start) ELSE SqlNextLevel(N, E, f[d - 1], a)]
  BY <1>4 DEF Goes
<1>6. f[0] = Level0(start)
  BY <1>5
<1>7. f[1] = one
  <2>1. f[1] = SqlNextLevel(N, E, f[1 - 1], a)
    BY <1>5
  <2> QED
    BY <1>6, <2>1
<1>8. hops = 2 => f[2] = two
  <2>1. hops = 2 => f[2] = SqlNextLevel(N, E, f[2 - 1], a)
    BY <1>5
  <2> QED
    BY <1>7, <2>1
<1> QED
  BY <1>4, <1>6, <1>7, <1>8

(* What each traversal finds, a hop at a time.                                *)
NextTo(N, E, start, a) == (Beyond(E, {start}, a) \ {start}) \cap Loadable(N, a)
ThereNext(N, E, start, a) ==
    (Beyond(E, NextTo(N, E, start, a), a) \ ({start} \cup Beyond(E, {start}, a))) \cap Loadable(N, a)

LEMMA SqlFinds ==
    ASSUME NEW N, NEW E, NEW start, NEW a, NEW hops \in {1, 2}
    PROVE  SqlTraverse(N, E, start, hops, a) =
              {n \in {start} : N[n] # NoNode} \cup NextTo(N, E, start, a)
                 \cup (IF hops = 2 THEN ThereNext(N, E, start, a) ELSE {})
<1> DEFINE f == SqlLevels(N, E, start, hops, a)
           one == SqlNextLevel(N, E, Level0(start), a)
<1>1. one.frontier = NextTo(N, E, start, a)
      /\ one.visited = {start} \cup Beyond(E, {start}, a)
  BY DEF SqlNextLevel, Level0, NextTo
<1>2. SqlNextLevel(N, E, one, a).frontier = ThereNext(N, E, start, a)
  <2> HIDE DEF one
  <2> QED
    BY <1>1 DEF SqlNextLevel, ThereNext
<1>3. f[1].frontier = NextTo(N, E, start, a) /\ (hops = 2 => f[2].frontier = ThereNext(N, E, start, a))
  BY <1>1, <1>2, LevelsAre
<1>4. UNION {f[d].frontier : d \in 1..hops} =
         NextTo(N, E, start, a) \cup (IF hops = 2 THEN ThereNext(N, E, start, a) ELSE {})
  <2> HIDE DEF f
  <2>1. CASE hops = 1
    <3>1. 1..hops = {1}
      BY <2>1
    <3> QED
      BY <1>3, <2>1, <3>1
  <2>2. CASE hops = 2
    <3>1. 1..hops = {1, 2}
      BY <2>2
    <3> QED
      BY <1>3, <2>2, <3>1
  <2> QED
    BY <2>1, <2>2
<1> QED
  BY <1>4 DEF SqlTraverse

LEMMA BeyondAre ==
    ASSUME NEW E, NEW a, NEW S
    PROVE  CozoBeyond(E, S, a) = Beyond(E, S, a)
  BY DEF CozoBeyond, Beyond

LEMMA JoinedIs ==
    ASSUME GraphTypeOK, NEW a, NEW x \in Nodes, NEW y \in Nodes
    PROVE  {x, y} \in Joined(a) <=> y \in Beyond(edges, {x}, a)
<1>1. ASSUME NEW p, NEW q
      PROVE  {p, q} = {x, y} <=> (p = x /\ q = y) \/ (p = y /\ q = x)
  OBVIOUS
<1>2. {x, y} \in Joined(a) <=>
         \E e \in Live(edges) : Sees(a, edges[e].agent) /\ {edges[e].src, edges[e].tgt} = {x, y}
  BY DEF Joined
<1> QED
  BY <1>1, <1>2 DEF Beyond

(* The ends of the paths of one hop, and of two.                              *)
Here(start) == IF nodes[start] # NoNode THEN {start} ELSE {}
Near(start, a) == {m \in Loadable(nodes, a) : {start, m} \in Joined(a)}
Far(start, a) ==
    {m \in Loadable(nodes, a) : \E x \in Loadable(nodes, a) : {start, x} \in Joined(a) /\ {x, m} \in Joined(a)}

LEMMA ReachedIs ==
    ASSUME NEW start, NEW a, NEW hops \in {1, 2}
    PROVE  ReachedBy(start, hops, a) =
              Here(start) \cup Near(start, a) \cup (IF hops = 2 THEN Far(start, a) ELSE {})
<1> DEFINE joined == Joined(a)
           visible == Loadable(nodes, a)
           paths == [1..hops -> visible]
           Along(p, k) == \A i \in 1..k : {IF i = 1 THEN start ELSE p[i - 1], p[i]} \in joined
           Ends == UNION {{p[k] : k \in {j \in 1..hops : Along(p, j)}} : p \in paths}
           near == Near(start, a)
           far == Far(start, a)
           both == near \cup (IF hops = 2 THEN far ELSE {})
<1>0. /\ \A m : m \in near <=> m \in visible /\ {start, m} \in joined
      /\ \A m : m \in far <=> m \in visible /\ \E x \in visible : {start, x} \in joined /\ {x, m} \in joined
  BY DEF Near, Far
<1> HIDE DEF joined, visible, near, far
<1>1. ASSUME NEW p
      PROVE  /\ Along(p, 1) <=> {start, p[1]} \in joined
             /\ Along(p, 2) <=> {start, p[1]} \in joined /\ {p[1], p[2]} \in joined
  <2>1. 1..1 = {1} /\ 1..2 = {1, 2} /\ 2 - 1 = 1
    OBVIOUS
  <2> QED
    BY <2>1
<1> HIDE DEF Along
<1>2. ASSUME NEW p \in paths, NEW k \in 1..hops, Along(p, k)
      PROVE  p[k] \in both
  <2>1. k = 1 \/ (k = 2 /\ hops = 2)
    OBVIOUS
  <2>2. p[1] \in visible /\ p[k] \in visible
    <3>1. 1 \in 1..hops
      OBVIOUS
    <3> QED
      BY <3>1
  <2> QED
    BY <1>0, <1>1, <1>2, <2>1, <2>2
<1>3. ASSUME NEW m \in near
      PROVE  m \in Ends
  <2>1. PICK p \in paths : p = [i \in 1..hops |-> m]
    BY <1>0
  <2>2. 1 \in 1..hops /\ p[1] = m
    BY <2>1
  <2>3. Along(p, 1)
    BY <1>0, <1>1, <1>3, <2>2
  <2> QED
    BY <2>2, <2>3
<1>4. ASSUME hops = 2, NEW m \in far
      PROVE  m \in Ends
  <2>1. PICK x \in visible : {start, x} \in joined /\ {x, m} \in joined /\ m \in visible
    BY <1>0
  <2>2. PICK p \in paths : p = [i \in 1..hops |-> IF i = 1 THEN x ELSE m]
    BY <2>1
  <2>3. 2 \in 1..hops /\ p[1] = x /\ p[2] = m
    BY <1>4, <2>2
  <2>4. Along(p, 2)
    BY <1>1, <2>1, <2>3
  <2> QED
    BY <2>3, <2>4
<1>5. Ends = both
  <2>1. Ends \subseteq both
    <3> HIDE DEF both, paths
    <3> QED
      BY <1>2
  <2> QED
    BY <1>3, <1>4, <2>1
<1>6. ReachedBy(start, hops, a) = Here(start) \cup Ends
  BY DEF ReachedBy, Along, joined, visible, Here
<1> HIDE DEF Ends
<1> QED
  BY <1>5, <1>6 DEF near, far

LEMMA TraversalsComplete ==
    ASSUME GraphTypeOK, NEW start \in Nodes, NEW a, NEW hops \in {1, 2}
    PROVE  SqlTraverse(nodes, edges, start, hops, a) = ReachedBy(start, hops, a)
<1> DEFINE L == Loadable(nodes, a)
           B(S) == Beyond(edges, S, a)
           one == NextTo(nodes, edges, start, a)
           two == ThereNext(nodes, edges, start, a)
           here == Here(start)
           near == Near(start, a)
           far == Far(start, a)
<1>1. L \subseteq Nodes /\ \A n \in L : nodes[n] # NoNode
  BY DEF Loadable
<1>2. near = B({start}) \cap L
  BY <1>1, JoinedIs DEF Near
<1>3. \A m : m \in far <=> m \in L /\ \E x \in L : x \in B({start}) /\ m \in B({x})
  BY <1>1, JoinedIs DEF Far
<1>4. one = (B({start}) \ {start}) \cap L
  BY DEF NextTo
<1>5. two = (B(one) \ ({start} \cup B({start}))) \cap L
  BY DEF ThereNext
<1>6. \A S, m : m \in B(S) <=> \E x \in S : m \in B({x})
  BY DEF Beyond
<1>0. here = IF nodes[start] # NoNode THEN {start} ELSE {}
  BY DEF Here
<1> HIDE DEF L, B, one, two, here, near, far
<1>7. here \cup near = here \cup one
  BY <1>0, <1>1, <1>2, <1>4
<1>8. ASSUME NEW m \in two
      PROVE  m \in far
  <2>1. m \in B(one) /\ m \in L
    BY <1>5
  <2>2. PICK x \in one : m \in B({x})
    BY <1>6, <2>1
  <2> QED
    BY <1>3, <1>4, <2>1, <2>2
<1>9. far \subseteq here \cup one \cup two
  <2> SUFFICES ASSUME NEW m \in far, m \notin here \cup one
               PROVE  m \in two
    OBVIOUS
  <2>1. PICK x \in L : x \in B({start}) /\ m \in B({x}) /\ m \in L
    BY <1>3
  <2>2. m # start /\ m \notin B({start})
    BY <1>0, <1>1, <1>4, <2>1
  <2>3. x \in one
    BY <1>4, <2>1, <2>2
  <2> QED
    BY <1>5, <1>6, <2>1, <2>2, <2>3
<1>10. SqlTraverse(nodes, edges, start, hops, a) = here \cup one \cup (IF hops = 2 THEN two ELSE {})
  <2>1. {n \in {start} : nodes[n] # NoNode} = here
    BY <1>0
  <2> QED
    BY <2>1, SqlFinds DEF one, two
<1>11. ReachedBy(start, hops, a) = here \cup near \cup (IF hops = 2 THEN far ELSE {})
  BY ReachedIs DEF here, near, far
<1> QED
  BY <1>7, <1>8, <1>9, <1>10, <1>11

LEMMA TraversalsMeet ==
    ASSUME GraphTypeOK, NEW a, NEW hops \in {1, 2}, NEW start \in Nodes
    PROVE  LET visible == Loadable(nodes, a)
               sql == SqlTraverse(nodes, edges, start, hops, a)
               cozo == CozoTraverse(nodes, edges, start, hops, a)
           IN  /\ sql \subseteq visible \cup {start}
               /\ sql \cap visible \subseteq cozo
               /\ UNION Joined(a) \subseteq visible => sql \cap visible = cozo
<1> DEFINE L == Loadable(nodes, a)
           B(S) == Beyond(edges, S, a)
           one == NextTo(nodes, edges, start, a)
           two == ThereNext(nodes, edges, start, a)
           sql == SqlTraverse(nodes, edges, start, hops, a)
           cozo == CozoTraverse(nodes, edges, start, hops, a)
<1>1. cozo = ({start} \cup B({start}) \cup (IF hops = 2 THEN B(B({start})) ELSE {})) \cap L
  <2>1. CozoVisible(nodes, a) = L
    BY DEF CozoVisible, Loadable
  <2>2. \A S : CozoBeyond(edges, S, a) = B(S)
    BY BeyondAre
  <2> QED
    BY <2>1, <2>2 DEF CozoTraverse
<1>2. /\ sql = {n \in {start} : nodes[n] # NoNode} \cup one \cup (IF hops = 2 THEN two ELSE {})
      /\ start \in L => nodes[start] # NoNode
  BY SqlFinds DEF Loadable
<1>4. one = (B({start}) \ {start}) \cap L
  BY DEF NextTo
<1>5. two = (B(one) \ ({start} \cup B({start}))) \cap L
  BY DEF ThereNext
<1>6. \A S, m : m \in B(S) <=> \E x \in S : m \in B({x})
  BY DEF Beyond
<1>7. \A S : B(S) \subseteq UNION Joined(a)
  BY DEF Beyond, Joined
<1>3. \A n, m : m \in B({n}) => n \in UNION Joined(a)
  BY DEF Beyond, Joined
<1> HIDE DEF L, B, one, two, sql, cozo
<1>8. sql \subseteq L \cup {start} /\ sql \cap L \subseteq cozo
  <2>1. one \subseteq B({start}) \cap L
    BY <1>4
  <2>2. ASSUME NEW m \in two
        PROVE  m \in B(B({start})) \cap L
    <3>1. m \in B(one) /\ m \in L
      BY <1>5
    <3> QED
      BY <1>6, <2>1, <3>1
  <2> QED
    BY <1>1, <1>2, <1>4, <1>5, <2>1, <2>2
<1>9. ASSUME UNION Joined(a) \subseteq L
      PROVE  cozo \subseteq sql \cap L
  <2>1. \A S : B(S) \subseteq L
    BY <1>7, <1>9
  <2>4. start \notin L => B({start}) = {} /\ B({}) = {}
    BY <1>3, <1>6, <1>9
  <2>2. B({start}) \subseteq {start} \cup one
    BY <1>4, <2>1
  <2>3. B(B({start})) \subseteq {start} \cup one \cup two
    <3> SUFFICES ASSUME NEW m \in B(B({start})), m # start, m \notin one
                 PROVE  m \in two
      OBVIOUS
    <3>1. PICK x \in B({start}) : m \in B({x})
      BY <1>6
    <3>2. m \notin B({start}) /\ m \in L
      BY <2>1, <2>2
    <3>3. x \in one
      BY <2>2, <3>1, <3>2
    <3> QED
      BY <1>5, <1>6, <3>1, <3>2, <3>3
  <2>5. CASE start \in L
    BY <1>1, <1>2, <2>2, <2>3, <2>5
  <2>6. CASE start \notin L
    BY <1>1, <2>4, <2>6
  <2> QED
    BY <2>5, <2>6
<1> QED
  BY <1>8, <1>9 DEF sql, cozo, L

(* SQLite's breadth-first search finds every node of every path of at most two  *)
(* hops and no other; it returns the node it starts at whoever may see it, and  *)
(* only that one.  CozoDB's two rules find what else it finds, with the edges   *)
(* between, and no more unless an edge the agent sees ends at a node it does    *)
(* not, which they go on through (traverse()).                                *)
THEOREM TraversalsFindPaths == Spec => []TraversalsAgree
<1>1. Init => TypeInv
  BY InitTypes
<1>2. TypeInv /\ [Next]_vars => TypeInv'
  BY TypeStep
<1>3. TypeInv => TraversalsAgree
  <2> SUFFICES ASSUME TypeInv PROVE TraversalsAgree
    OBVIOUS
  <2>1. TypeOK /\ GraphTypeOK /\ minted \subseteq Nodes
    BY DEF TypeInv, TypeOK
  <2>2. 1..2 = {1, 2}
    OBVIOUS
  <2>3. TraversalComplete
    BY <2>1, <2>2, TraversalsComplete DEF TraversalComplete
  <2>4. ASSUME NEW a \in Agents, NEW hops \in 1..2, NEW start \in Nodes
        PROVE  LET visible == Loadable(nodes, a)
                   sql == SqlTraverse(nodes, edges, start, hops, a)
                   cozo == CozoTraverse(nodes, edges, start, hops, a)
               IN  /\ sql \subseteq visible \cup {start}
                   /\ sql \cap visible \subseteq cozo
                   /\ UNION Joined(a) \subseteq visible => sql \cap visible = cozo
                   /\ \A e \in SqlTraversed(nodes, edges, start, hops, a) :
                         {edges[e].src, edges[e].tgt} \subseteq sql \cap visible => e \in CozoTraversed(edges, cozo)
    <3>1. PICK sql, cozo : sql = SqlTraverse(nodes, edges, start, hops, a)
                           /\ cozo = CozoTraverse(nodes, edges, start, hops, a)
      OBVIOUS
    <3>2. /\ sql \subseteq Loadable(nodes, a) \cup {start}
          /\ sql \cap Loadable(nodes, a) \subseteq cozo
          /\ UNION Joined(a) \subseteq Loadable(nodes, a) => sql \cap Loadable(nodes, a) = cozo
      BY <2>1, <2>2, <3>1, TraversalsMeet
    <3>3. \A e \in SqlTraversed(nodes, edges, start, hops, a) : e \in Live(edges)
      BY DEF SqlTraversed
    <3> QED
      BY <3>1, <3>2, <3>3 DEF CozoTraversed
  <2>5. BackendsAgree
    BY <2>4 DEF BackendsAgree
  <2> QED
    BY <2>1, <2>3, <2>5 DEF TraversalsAgree
<1> QED
  BY <1>1, <1>2, <1>3, PTL DEF Spec

----------------------------------------------------------------------------
(* SQLite's foreign keys.                                                     *)

LEMMA MergeAnchors ==
    ASSUME TypeInv, Anchored, NEW s \in Nodes, NEW a \in Nodes, s # a,
           NEW props \in [Keys -> Nodes \cup {NoNode}], SqlMerge(s, a, props)
    PROVE  Anchored'
<1>1. nodes \in [Nodes -> NodeRow \cup {NoNode}] /\ edges \in [Edges -> EdgeRow \cup {NoEdge}]
  BY DEF TypeInv, TypeOK, GraphTypeOK
<1>2. \A n \in Nodes : nodes[n] # NoNode /\ n # a => nodes'[n] # NoNode
  <2>1. \A n \in Nodes : nodes[n] # NoNode => [nodes[n] EXCEPT !.props = props] \in NodeRow
    BY <1>1, WithType
  <2> QED
    BY <1>1, <2>1, NoRows DEF SqlMerge
<1>3. MergedEdges(edges, edges', s, a)
  BY <1>1, SqlMergeMerges DEF SqlMerge
<1>4. ASSUME NEW e \in Live(edges')
      PROVE  nodes'[edges'[e].src] # NoNode /\ nodes'[edges'[e].tgt] # NoNode
  <2>1. e \in Live(edges) /\ edges'[e] = Redirect(edges[e], s, a)
    BY <1>3, <1>4 DEF MergedEdges
  <2>2. edges[e] \in EdgeRow /\ nodes[edges[e].src] # NoNode /\ nodes[edges[e].tgt] # NoNode
    BY <1>1, <2>1 DEF Anchored, SqlMayLink, Live
  <2>3. /\ edges'[e].src = IF edges[e].src = a THEN s ELSE edges[e].src
        /\ edges'[e].tgt = IF edges[e].tgt = a THEN s ELSE edges[e].tgt
    BY <2>1, <2>2 DEF Redirect, EdgeRow
  <2>4. edges[e].src \in Nodes /\ edges[e].tgt \in Nodes
    BY <2>2 DEF EdgeRow
  <2>5. a \in {edges[e].src, edges[e].tgt} => nodes[s] # NoNode
    BY <2>1 DEF SqlMerge, SqlMayMerge, Incident
  <2> QED
    BY <1>2, <2>2, <2>3, <2>4, <2>5
<1> QED
  BY <1>4 DEF Anchored, SqlMayLink

LEMMA StatementsAnchor ==
    ASSUME TypeInv, Anchored,
           \/ \E n \in Nodes : SqlDelete(n) \/ SqlDeleteFails(n) \/ \E i \in {1, 2} : SqlUpdate(n, i)
           \/ \E w \in [Edges -> 0..MaxWeight] : SqlSetWeights(w)
           \/ SqlClear \/ SqlClearFails \/ UNCHANGED graph
    PROVE  Anchored'
<1>1. nodes \in [Nodes -> NodeRow \cup {NoNode}] /\ edges \in [Edges -> EdgeRow \cup {NoEdge}]
  BY DEF TypeInv, TypeOK, GraphTypeOK
<1>2. \A e \in Live(edges) : edges[e].src \in Nodes /\ edges[e].tgt \in Nodes
  BY <1>1 DEF Live, EdgeRow
<1>3. \A S : Live(Without(edges, S)) = Live(edges) \ S
             /\ \A e \in Live(edges) \ S : Without(edges, S)[e] = edges[e]
  BY DEF Live, Without
<1>4. ASSUME NEW n \in Nodes, SqlDelete(n) \/ SqlDeleteFails(n)
      PROVE  Anchored'
  <2>1. Live(edges') = Live(edges) \ Incident(edges, n) /\ \A e \in Live(edges') : edges'[e] = edges[e]
    BY <1>3, <1>4 DEF SqlDelete, SqlDeleteFails
  <2>2. \A m \in Nodes : m # n => nodes'[m] = nodes[m]
    BY <1>1, <1>4 DEF SqlDelete, SqlDeleteFails
  <2>3. \A e \in Live(edges') : edges[e].src # n /\ edges[e].tgt # n
    BY <2>1 DEF Incident
  <2> QED
    BY <1>2, <2>1, <2>2, <2>3 DEF Anchored, SqlMayLink
<1>5. ASSUME NEW n \in Nodes, NEW i \in {1, 2}, SqlUpdate(n, i)
      PROVE  Anchored'
  <2>1. nodes[n] # NoNode => [nodes[n] EXCEPT !.imp = i] \in NodeRow
    BY <1>1, WithType
  <2>2. edges' = edges /\ \A m \in Nodes : nodes[m] # NoNode => nodes'[m] # NoNode
    BY <1>1, <1>5, <2>1, NoRows DEF SqlUpdate
  <2> QED
    BY <1>2, <2>2 DEF Anchored, SqlMayLink
<1>6. ASSUME NEW w \in [Edges -> 0..MaxWeight], SqlSetWeights(w)
      PROVE  Anchored'
  <2>1. nodes' = nodes
    BY <1>6 DEF SqlSetWeights
  <2>2. ASSUME NEW e \in Live(edges')
        PROVE  e \in Live(edges) /\ edges'[e].src = edges[e].src /\ edges'[e].tgt = edges[e].tgt
    <3>1. e \in Live(edges) /\ (edges'[e] = edges[e] \/ edges'[e] = [edges[e] EXCEPT !.weight = w[e]])
      BY <1>6, <2>2 DEF SqlSetWeights, Live
    <3>2. edges[e] \in EdgeRow
      BY <1>1, <3>1 DEF Live
    <3> QED
      BY <3>1, <3>2 DEF EdgeRow
  <2> QED
    BY <2>1, <2>2 DEF Anchored, SqlMayLink
<1>7. CASE SqlClear \/ SqlClearFails
  <2>1. Live(edges') = {}
    BY <1>3, <1>7 DEF SqlClear, SqlClearFails, Live
  <2> QED
    BY <2>1 DEF Anchored
<1>8. CASE UNCHANGED graph
  BY <1>8 DEF graph, Anchored, SqlMayLink
<1> QED
  BY <1>4, <1>5, <1>6, <1>7, <1>8

LEMMA PutsAnchor ==
    ASSUME TypeInv, Anchored, backend = "sqlite"
    PROVE  /\ \A row \in NodeRow : minted # Nodes /\ PutNode(Fresh, row) => Anchored'
           /\ \A row \in EdgeRow : linked < MaxEdges /\ PutEdge(linked + 1, row) => Anchored'
<1>1. /\ nodes \in [Nodes -> NodeRow \cup {NoNode}] /\ edges \in [Edges -> EdgeRow \cup {NoEdge}]
      /\ linked \in Nat /\ MaxEdges \in Nat
  BY KnowledgeGraphAssumption DEF TypeInv, TypeOK, GraphTypeOK
<1>2. \A e \in Live(edges) : edges[e].src \in Nodes /\ edges[e].tgt \in Nodes
  BY <1>1 DEF Live, EdgeRow
<1>3. ASSUME NEW row \in NodeRow, minted # Nodes, PutNode(Fresh, row)
      PROVE  Anchored'
  <2>1. edges' = edges /\ \A n \in Nodes : nodes[n] # NoNode => nodes'[n] # NoNode
    BY <1>1, <1>3, FreshIs, NoRows DEF PutNode, SqlPutNode
  <2> QED
    BY <1>2, <2>1 DEF Anchored, SqlMayLink
<1>4. ASSUME NEW row \in EdgeRow, linked < MaxEdges, PutEdge(linked + 1, row)
      PROVE  Anchored'
  <2>1. PICK e \in Edges : e = linked + 1
    BY <1>1, <1>4 DEF Edges
  <2>2. nodes' = nodes /\ edges' = [edges EXCEPT ![e] = row] /\ SqlMayLink(row.src, row.tgt)
    BY <1>4, <2>1 DEF PutEdge, SqlPutEdge
  <2>3. \A f \in Live(edges') : (f = e /\ edges'[f] = row) \/ (f \in Live(edges) /\ edges'[f] = edges[f])
    BY <1>1, <2>2 DEF Live
  <2> QED
    BY <2>2, <2>3 DEF Anchored, SqlMayLink
<1> QED
  BY <1>3, <1>4

LEMMA ActsAnchor ==
    ASSUME TypeInv, backend = "sqlite", Anchored, NEW t \in Tasks, Acts(t)
    PROVE  Anchored'
<1>1. ASSUME Quiet PROVE Anchored'
  BY <1>1, StatementsAnchor DEF Quiet, graph
<1>2. \A c : ~Begin(t, c)
  BY DEF Begin
<1>3. CASE Script(t)
  <2>1. Busy(t)
    BY <1>3, ScriptTypes DEF Script, ScriptFails, TypeInv, TypeOK, WorkFits
  <2> QED
    BY <2>1 DEF TypeInv, WorkFits, CallFits
<1>4. CASE \/ \E a \in Agents : StartEvolve(t, a) \/ StartBuild(t, a)
           \/ ListNodes(t) \/ EdgesOf(t) \/ Finish(t) \/ PlanLinks(t) \/ LinksDone(t) \/ PlanSeedLinks(t)
  BY <1>1, <1>4 DEF StartEvolve, StartBuild, ListNodes, EdgesOf, Finish, PlanLinks, LinksDone, PlanSeedLinks
<1>5. CASE MergePair(t)
  <2>1. SoundPass(pass[t]) /\ pass[t] \in PassType
    BY PassSound DEF SoundPass
  <2>2. PICK p \in pass[t].pairs : SqlMerge(p[1], p[2], p[3]) \/ Quiet
    BY <1>2, <1>5 DEF MergePair
  <2>3. PICK s \in Nodes, a \in Nodes, props \in [Keys -> Nodes \cup {NoNode}] :
           s = p[1] /\ a = p[2] /\ props = p[3] /\ s # a
    BY <2>1 DEF SoundPass, PassType
  <2> QED
    BY <1>1, <2>2, <2>3, MergeAnchors
<1>6. CASE SetWeights(t)
  <2>1. PICK w \in [Edges -> 0..MaxWeight] : w = pass[t].weights
    BY PassSound DEF SoundPass, PassType
  <2> QED
    BY <1>1, <1>2, <1>6, <2>1, StatementsAnchor DEF SetWeights
<1>7. CASE BuildNode(t) \/ SeedNode(t)
  <2>1. minted # Nodes /\ (BuildNode(t) => pass[t].owner \in Owners) /\ Shared \in Owners
    BY <1>7, PassSound DEF BuildNode, SeedNode, SoundPass, Owners
  <2>2. \/ UNCHANGED graph
        \/ BuildNode(t) /\ PutNode(Fresh, Row(pass[t].owner, 1, ChunkKeys))
        \/ PutNode(Fresh, Row(Shared, 2, SeedKeys))
    BY <1>7 DEF BuildNode, SeedNode
  <2> QED
    BY <2>1, <2>2, RowIs, PutsAnchor, StatementsAnchor
<1>8. CASE AddLink(t)
  <2>1. CASE UNCHANGED graph
    BY <2>1, StatementsAnchor
  <2>2. CASE ~UNCHANGED graph
    <3>1. PICK l \in pass[t].links :
             /\ linked < MaxEdges
             /\ PutEdge(linked + 1,
                        [src |-> pass[t].ids[l[1]], tgt |-> pass[t].ids[l[2]], rel |-> l[3],
                         weight |-> LinkWeight(l[3]), agent |-> pass[t].owner])
      BY <1>8, <2>2 DEF AddLink
    <3>2. pass[t].pc = "links"
      BY <1>8 DEF AddLink
    <3>3. PICK row \in EdgeRow : PutEdge(linked + 1, row)
      BY <3>1, <3>2, LinkIs
    <3> QED
      BY <3>1, <3>3, PutsAnchor
  <2> QED
    BY <2>1, <2>2
<1>9. CASE \/ \E n \in Nodes : ClientDelete(t, n) \/ ClientUpdate(t, n)
           \/ ClientClear(t) \/ StartSeed(t)
  <2>1. \/ \E n \in Nodes : SqlDelete(n) \/ SqlDeleteFails(n) \/ \E i \in {1, 2} : SqlUpdate(n, i)
        \/ SqlClear \/ SqlClearFails \/ UNCHANGED graph
    BY <1>2, <1>9 DEF ClientDelete, ClientUpdate, ClientClear, StartSeed
  <2> QED
    BY <2>1, StatementsAnchor
<1> QED
  BY <1>3, <1>4, <1>5, <1>6, <1>7, <1>8, <1>9 DEF Acts

LEMMA BackendStays == [Next]_vars => backend' = backend
  BY DEF Next, vars, Script, Rest, StartEvolve, StartBuild, MergePair, ListNodes, EdgesOf, SetWeights, Finish,
     BuildNode, PlanLinks, AddLink, LinksDone, StartSeed, SeedNode, PlanSeedLinks, ClientDelete,
     ClientUpdate, ClientClear

(* Whatever passes, ingestions, seeds, deletions and failing statements do in    *)
(* whatever order, SQLite never keeps an edge one of whose ends is gone          *)
(* (sqlite_store.rs: the references of kg_edges).                              *)
THEOREM LinksStayAnchored == Spec => []EdgesAreAnchored
<1>1. Init => TypeInv /\ EdgesAreAnchored
  BY InitTypes DEF Init, EdgesAreAnchored
<1>2. TypeInv /\ [Next]_vars => TypeInv'
  BY TypeStep
<1>3. TypeInv /\ EdgesAreAnchored /\ [Next]_vars => EdgesAreAnchored'
  <2> SUFFICES ASSUME TypeInv, [Next]_vars, Anchored, backend = "sqlite"
               PROVE  Anchored'
    BY BackendStays DEF EdgesAreAnchored
  <2>1. CASE Next
    BY <2>1, ActsNext, ActsAnchor
  <2>2. CASE UNCHANGED vars
    BY <2>2, StatementsAnchor DEF vars, graph
  <2> QED
    BY <2>1, <2>2
<1> QED
  BY <1>1, <1>2, <1>3, PTL DEF Spec

=============================================================================
