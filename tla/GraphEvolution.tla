--------------------------- MODULE GraphEvolution ---------------------------
(***************************************************************************)
(* Who works on the knowledge graph: evolution passes of consolidation     *)
(* cycles (graph_evolution.rs), ingestions that link their chunks           *)
(* (graph_builder.rs), the demo seed and clear (handlers/system.rs), and    *)
(* clients of the store's other methods.  Each makes one store call after   *)
(* the other on copies of what it has read.  The backend is chosen when the *)
(* process starts (AppState::new).                                          *)
(***************************************************************************)
EXTENDS SqliteGraph, CozoGraph, Sequences, FiniteSets, Functions

CONSTANTS
    Backends,       \* which of "sqlite" and "cozo" may be configured
    NoAgent,
    Alike,          \* pairs of nodes whose labels are similar enough
    MaxMerges,      \* max_merge_per_run
    ChunkCount,     \* chunks of an ingested document
    SeedCount,      \* nodes of the demo seed
    SeedLinks,      \* its edges, as pairs of indices
    ChunkKeys, SeedKeys,    \* property keys of a chunk's and of a seed node
    Modes,          \* which values alone may have
    Stored,         \* graphs an earlier run of the process may have left
    Clients,        \* which of "delete", "update" and "clear" clients ask for
    Faults,         \* the backends whose statements may fail
    Unlucky,        \* bound: the callers that meet such a failure
    MaxStarts       \* bound: passes, ingestions, seeds and client calls

ASSUME GraphEvolutionAssumption ==
    /\ Backends \subseteq {"sqlite", "cozo"} /\ Backends # {}
    /\ NoAgent \notin Owners
    /\ Alike \subseteq Nodes \X Nodes
    /\ {"follows", "shares_tag", "seeded"} \subseteq Relations
    /\ {MaxMerges, ChunkCount, SeedCount, MaxStarts} \subseteq Nat
    /\ SeedLinks \subseteq (1..SeedCount) \X (1..SeedCount)
    /\ ChunkKeys \subseteq Keys /\ SeedKeys \subseteq Keys
    /\ Modes \subseteq BOOLEAN
    /\ Clients \subseteq {"delete", "update", "clear"}
    /\ Faults \subseteq {"sqlite", "cozo"} /\ Unlucky \subseteq Tasks
    /\ Stored \subseteq [nodes : [Nodes -> NodeRow \cup {NoNode}], edges : [Edges -> EdgeRow \cup {NoEdge}]]
    /\ \A g \in Stored : \E last \in 0..MaxEdges : Live(g.edges) = 1..last

VARIABLES
    backend,        \* the store in use
    alone,          \* no CozoDB method runs beside another, no script fails
    pass,           \* pass[t]: what caller t is doing
    minted,         \* node ids given out
    linked,         \* edge ids given out: 1..linked
    starts,
    before          \* history: the graph when the running CozoDB call began

vars == <<nodes, edges, call, backend, alone, pass, minted, linked, starts, before>>

Phases == {"off", "merge", "strengthen", "weigh", "nodes", "links", "seedNodes", "client"}

(* owner: whom the work is for.  pairs: <<surviving, absorbed, properties>>.   *)
(* count: pairs merged, or nodes tried.  todo, imps: nodes to visit and the    *)
(* importance read.  ids: nodes made.  links: edges to make, as               *)
(* <<index, index, relation>>.                                              *)
Off == [pc |-> "off", owner |-> NoAgent, pairs |-> {}, count |-> 0, todo |-> {},
        imps |-> [n \in Nodes |-> 0], weights |-> [e \in Edges |-> 0], ids |-> <<>>, links |-> {}]

Indices == 1..(ChunkCount + SeedCount)

PassType == [pc : Phases, owner : Owners \cup {NoAgent},
             pairs : SUBSET (Nodes \X Nodes \X [Keys -> Nodes \cup {NoNode}]),
             count : Nat, todo : SUBSET Nodes, imps : [Nodes -> 0..2],
             weights : [Edges -> 0..MaxWeight], ids : Seq(Nodes),
             links : SUBSET (Indices \X Indices \X Relations)]

(* Every variable has its type, and a pass merges at most MaxMerges pairs.   *)
TypeOK ==
    /\ GraphTypeOK
    /\ call \in [Tasks -> CallType]
    /\ backend \in Backends /\ alone \in Modes
    /\ pass \in [Tasks -> PassType]
    /\ \A t \in Tasks : pass[t].pc = "merge" => pass[t].count <= MaxMerges
    /\ linked \in 0..MaxEdges
    /\ minted \subseteq Nodes
    /\ starts \in 0..MaxStarts
    /\ before \in [nodes : [Nodes -> NodeRow \cup {NoNode}], edges : [Edges -> EdgeRow \cup {NoEdge}]]

(* Every edge joins nodes that exist.                                        *)
Anchored == \A e \in Live(edges) : SqlMayLink(edges[e].src, edges[e].tgt)

Init ==
    /\ before \in Stored /\ nodes = before.nodes /\ edges = before.edges
    /\ call = [t \in Tasks |-> NoCall]
    /\ backend \in Backends
    /\ alone \in Modes /\ (backend = "sqlite" => alone)
    /\ pass = [t \in Tasks |-> Off]
    /\ minted = {n \in Nodes : nodes[n] # NoNode}
    /\ linked \in 0..MaxEdges /\ Live(edges) = 1..linked /\ starts = 0
    /\ backend = "sqlite" => Anchored

----------------------------------------------------------------------------

(* Caller t can make its next store call.                                   *)
Ready(t) ==
    /\ ~Busy(t)
    /\ backend = "cozo" /\ alone => \A u \in Tasks : ~Busy(u)

Becomes(t, p) == pass' = [pass EXCEPT ![t] = p]
Quiet == UNCHANGED <<nodes, edges, call, before>>
Rest == UNCHANGED <<backend, alone, minted, linked, starts>>

(* A statement caller t makes of the backend fails.                          *)
Fails(t) == t \in Unlucky /\ backend \in Faults /\ (backend = "cozo" => ~alone)

(* Begin a CozoDB method of several scripts.                                *)
Begin(t, c) ==
    /\ backend = "cozo"
    /\ call' = [call EXCEPT ![t] = c]
    /\ before' = [nodes |-> nodes, edges |-> edges]
    /\ UNCHANGED graph

(* A single statement or a whole SQLite method: no call is left running.     *)
AtOnce == UNCHANGED <<call, before>>

(* A script of CozoDB, or its failure, which a merging pass counts back.     *)
Script(t) ==
    /\ \/ CozoStep(t) /\ UNCHANGED pass
       \/ /\ Fails(t) /\ ScriptFails(t)
          /\ Becomes(t, IF pass[t].pc = "merge" THEN [pass[t] EXCEPT !.count = @ - 1]
                        ELSE IF pass[t].pc = "weigh" THEN Off ELSE pass[t])
    /\ UNCHANGED before /\ Rest

MayStart(t) == pass[t].pc = "off" /\ Ready(t) /\ starts < MaxStarts

Start(t, p) ==
    /\ MayStart(t)
    /\ starts' = starts + 1
    /\ Becomes(t, p)

----------------------------------------------------------------------------
(* An evolution pass: evolve(), then strengthen_edges().                     *)

MergedProps(s, a) == [k \in Keys |-> IF s.props[k] # NoNode THEN s.props[k] ELSE a.props[k]]

(* Mutant: the pairs are looked for among the nodes of all agents.           *)
SimilarOfAll(a) ==
    {p \in Nodes \X Nodes : p[1] # p[2] /\ p \in Alike /\ NoNode \notin {nodes[p[1]], nodes[p[2]]}}

Similar(a) == IF backend = "sqlite" THEN SqlSimilar(nodes, a, Alike)
              ELSE CozoSimilar(nodes, a, Alike)

(* The more important node of a pair survives; of two equal ones, the one    *)
(* the store happens to list first.                                         *)
Candidates(a) ==
    {<<p[1], p[2], MergedProps(nodes[p[1]], nodes[p[2]])>> :
        p \in {q \in Similar(a) : nodes[q[1]].imp >= nodes[q[2]].imp}}

(* find_similar_node_pairs returns every pair once, sorted by similarity and  *)
(* cut to twice max_merge_per_run.                                          *)
StartEvolve(t, a) ==
    /\ MayStart(t)
    /\ LET similar == Similar(a)
           lists == [1..(2 * MaxMerges) -> Candidates(a) \cup {<<>>}]
       IN  \E found \in {Range(f) \ {<<>>} : f \in lists} :
              /\ \A p, q \in found : p[1] = q[2] => p[2] # q[1]
              /\ \/ \A p \in similar : \E q \in found : {q[1], q[2]} = {p[1], p[2]}
                 \/ Cardinality(found) = 2 * MaxMerges
              /\ Start(t, [Off EXCEPT !.pc = "merge", !.owner = a, !.pairs = found])
    /\ Quiet /\ UNCHANGED <<backend, alone, minted, linked>>

MergePair(t) ==
    /\ pass[t].pc = "merge" /\ Ready(t)
    /\ pass[t].count < MaxMerges
    /\ \E p \in pass[t].pairs :
          \/ /\ Becomes(t, [pass[t] EXCEPT !.pairs = @ \ {p}, !.count = @ + 1])
             /\ \/ backend = "sqlite" /\ SqlMerge(p[1], p[2], p[3]) /\ AtOnce
                \/ Begin(t, MergeCall(p[1], p[2], p[3]))
          \/ /\ Fails(t) \/ (backend = "sqlite" /\ ~SqlMayMerge(p[1], p[2]))
             /\ Becomes(t, [pass[t] EXCEPT !.pairs = @ \ {p}])
             /\ Quiet
    /\ Rest

(* nodes_for_agent(agent, true).  Its error ends the pass.                   *)
ListNodes(t) ==
    /\ pass[t].pc = "merge" /\ Ready(t)
    /\ pass[t].pairs = {} \/ pass[t].count = MaxMerges
    /\ LET seen == IF backend = "sqlite" THEN Loadable(nodes, pass[t].owner)
                   ELSE CozoVisible(nodes, pass[t].owner)
       IN  \/ Becomes(t, [Off EXCEPT !.pc = "strengthen", !.owner = pass[t].owner, !.todo = seen,
                             !.imps = [n \in Nodes |-> IF n \in seen THEN nodes[n].imp ELSE 0]])
           \/ Fails(t) /\ Becomes(t, Off)
    /\ Quiet /\ Rest

Boost(w) == IF w < MaxWeight THEN w + 1 ELSE w

(* edges_of(n): the edges that start at n and join important nodes.          *)
EdgesOf(t) ==
    /\ pass[t].pc = "strengthen" /\ Ready(t)
    /\ \E n \in pass[t].todo :
          LET incident == IF backend = "sqlite" THEN Incident(edges, n) ELSE CozoEdgesOf(edges, n)
              boosted == {e \in incident : /\ edges[e].src = n
                                              /\ pass[t].imps[n] + pass[t].imps[edges[e].tgt] > 2
                                              /\ Boost(edges[e].weight) # edges[e].weight}
          IN  \/ Becomes(t, [pass[t] EXCEPT !.todo = @ \ {n},
                                !.weights = [e \in Edges |-> IF e \in boosted THEN Boost(edges[e].weight)
                                                             ELSE @[e]]])
              \/ Fails(t) /\ Becomes(t, Off)
    /\ Quiet /\ Rest

SetWeights(t) ==
    /\ pass[t].pc = "strengthen" /\ Ready(t)
    /\ pass[t].todo = {}
    /\ \/ /\ \A e \in Edges : pass[t].weights[e] = 0
          /\ Becomes(t, Off) /\ Quiet
       \/ /\ \E e \in Edges : pass[t].weights[e] # 0
          /\ \/ backend = "sqlite" /\ SqlSetWeights(pass[t].weights) /\ AtOnce /\ Becomes(t, Off)
             \/ /\ Begin(t, WeightsCall(pass[t].weights))
                /\ Becomes(t, [Off EXCEPT !.pc = "weigh", !.owner = pass[t].owner])
             \/ Fails(t) /\ Becomes(t, Off) /\ Quiet
    /\ Rest

(* The last call of a pass or of a client has returned.                      *)
Finish(t) ==
    /\ pass[t].pc \in {"weigh", "client"} /\ ~Busy(t)
    /\ Becomes(t, Off)
    /\ Quiet /\ Rest

----------------------------------------------------------------------------
(* GraphBuilder::build_from_chunks and the demo seed.                        *)

Fresh == CHOOSE n \in Nodes \ minted : TRUE
Row(owner, imp, keys) ==
    [agent |-> owner, imp |-> imp, props |-> [k \in Keys |-> IF k \in keys THEN Fresh ELSE NoNode]]

PutNode(n, row) == IF backend = "sqlite" THEN SqlPutNode(n, row) ELSE CozoPutNode(n, row)
PutEdge(e, row) == IF backend = "sqlite" THEN SqlPutEdge(e, row) ELSE CozoPutEdge(e, row)

StartBuild(t, a) ==
    /\ Start(t, [Off EXCEPT !.pc = "nodes", !.owner = a])
    /\ Quiet /\ UNCHANGED <<backend, alone, minted, linked>>

(* One node per chunk; a failure leaves its id in the list as a placeholder.  *)
BuildNode(t) ==
    /\ pass[t].pc = "nodes" /\ Ready(t)
    /\ Len(pass[t].ids) < ChunkCount /\ minted # Nodes
    /\ minted' = minted \cup {Fresh}
    /\ Becomes(t, [pass[t] EXCEPT !.ids = Append(@, Fresh)])
    /\ PutNode(Fresh, Row(pass[t].owner, 1, ChunkKeys)) \/ (Fails(t) /\ UNCHANGED graph)
    /\ UNCHANGED <<call, backend, alone, linked, starts, before>>

(* Consecutive chunks follow one another; others may share a tag.            *)
Following == {<<i, i + 1, "follows">> : i \in 1..(ChunkCount - 1)}
Sharing == {<<i, j, "shares_tag">> : i \in 1..ChunkCount, j \in 1..ChunkCount}

PlanLinks(t) ==
    /\ pass[t].pc = "nodes" /\ Len(pass[t].ids) = ChunkCount
    /\ \E S \in SUBSET {l \in Sharing : l[2] > l[1] + 1} :
          Becomes(t, [pass[t] EXCEPT !.pc = "links", !.links = Following \cup S])
    /\ Quiet /\ Rest

LinkWeight(rel) == IF rel = "shares_tag" THEN 1 ELSE MaxWeight

(* add_edge(), whose failure is logged.  A node may be missing: its insertion  *)
(* failed, or it was merged, deleted or cleared since.  CozoDB stores the      *)
(* edge all the same, SQLite refuses it.                                     *)
AddLink(t) ==
    /\ pass[t].pc = "links" /\ Ready(t)
    /\ \E l \in pass[t].links :
          LET src == pass[t].ids[l[1]]
              tgt == pass[t].ids[l[2]]
          IN  /\ Becomes(t, [pass[t] EXCEPT !.links = @ \ {l}])
              /\ \/ /\ linked < MaxEdges /\ linked' = linked + 1
                    /\ PutEdge(linked + 1, [src |-> src, tgt |-> tgt, rel |-> l[3],
                                            weight |-> LinkWeight(l[3]), agent |-> pass[t].owner])
                 \/ /\ Fails(t) \/ (backend = "sqlite" /\ ~SqlMayLink(src, tgt))
                    /\ UNCHANGED <<graph, linked>>
    /\ UNCHANGED <<call, before, backend, alone, minted, starts>>

LinksDone(t) ==
    /\ pass[t].pc = "links" /\ pass[t].links = {}
    /\ Becomes(t, Off)
    /\ Quiet /\ Rest

(* The seed clears the whole graph first, whatever the result.               *)
StartSeed(t) ==
    /\ Start(t, [Off EXCEPT !.pc = "seedNodes", !.owner = Shared])
    /\ \/ backend = "sqlite" /\ SqlClear /\ AtOnce
       \/ backend = "sqlite" /\ Fails(t) /\ (SqlClearFails \/ UNCHANGED graph) /\ AtOnce
       \/ Begin(t, ClearCall)
    /\ UNCHANGED <<backend, alone, minted, linked>>

(* A node that could not be added is left out: the later ones move up.       *)
SeedNode(t) ==
    /\ pass[t].pc = "seedNodes" /\ Ready(t)
    /\ pass[t].count < SeedCount /\ minted # Nodes
    /\ minted' = minted \cup {Fresh}
    /\ \/ /\ PutNode(Fresh, Row(Shared, 2, SeedKeys))
          /\ Becomes(t, [pass[t] EXCEPT !.count = @ + 1, !.ids = Append(@, Fresh)])
       \/ /\ Fails(t) /\ UNCHANGED graph
          /\ Becomes(t, [pass[t] EXCEPT !.count = @ + 1])
    /\ UNCHANGED <<call, backend, alone, linked, starts, before>>

PlanSeedLinks(t) ==
    /\ pass[t].pc = "seedNodes" /\ pass[t].count = SeedCount /\ ~Busy(t)
    /\ LET made == 1..Len(pass[t].ids)
       IN  Becomes(t, [pass[t] EXCEPT !.pc = "links", !.count = 0,
                          !.links = {<<l[1], l[2], "seeded">> : l \in SeedLinks \cap (made \X made)}])
    /\ Quiet /\ Rest

----------------------------------------------------------------------------
(* The other methods of the store.                                           *)

ClientDelete(t, n) ==
    /\ "delete" \in Clients /\ nodes[n] # NoNode
    /\ \/ /\ Start(t, Off)
          /\ backend = "sqlite" /\ AtOnce
          /\ SqlDelete(n) \/ (Fails(t) /\ SqlDeleteFails(n))
       \/ Start(t, [Off EXCEPT !.pc = "client"]) /\ Begin(t, DeleteCall(n))
    /\ UNCHANGED <<backend, alone, minted, linked>>

ClientUpdate(t, n) ==
    /\ "update" \in Clients /\ n \in minted
    /\ \/ Start(t, Off) /\ backend = "sqlite" /\ (\E i \in {1, 2} : SqlUpdate(n, i)) /\ AtOnce
       \/ Start(t, [Off EXCEPT !.pc = "client"]) /\ Begin(t, UpdateCall(n))
    /\ UNCHANGED <<backend, alone, minted, linked>>

ClientClear(t) ==
    /\ "clear" \in Clients
    /\ \/ /\ Start(t, Off)
          /\ backend = "sqlite" /\ AtOnce
          /\ SqlClear \/ (Fails(t) /\ SqlClearFails)
       \/ Start(t, [Off EXCEPT !.pc = "client"]) /\ Begin(t, ClearCall)
    /\ UNCHANGED <<backend, alone, minted, linked>>

Next ==
    \E t \in Tasks :
       \/ Script(t)
       \/ \E a \in Agents : StartEvolve(t, a) \/ StartBuild(t, a)
       \/ MergePair(t) \/ ListNodes(t) \/ EdgesOf(t) \/ SetWeights(t) \/ Finish(t)
       \/ BuildNode(t) \/ PlanLinks(t) \/ AddLink(t) \/ LinksDone(t)
       \/ StartSeed(t) \/ SeedNode(t) \/ PlanSeedLinks(t)
       \/ \E n \in Nodes : ClientDelete(t, n) \/ ClientUpdate(t, n)
       \/ ClientClear(t)

Spec == Init /\ [][Next]_vars

----------------------------------------------------------------------------
(* Properties.                                                               *)

(* The graph as the store's promise speaks of it: a CozoDB method that runs   *)
(* alone has happened when its last script has.  Nothing is promised of       *)
(* behaviours in which such methods overlap or fail halfway.                *)
Promised ==
    IF ~alone THEN [nodes |-> [n \in Nodes |-> NoNode], edges |-> [e \in Edges |-> NoEdge]]
    ELSE IF \E t \in Tasks : Busy(t) THEN before
    ELSE [nodes |-> nodes, edges |-> edges]

KG == INSTANCE KnowledgeGraph WITH nodes <- Promised.nodes, edges <- Promised.edges

(* Either backend does what KnowledgeGraphStore promises: its statements      *)
(* amount to the one step each method stands for.  So what every such graph   *)
(* keeps, theorem LinksSurviveMerges, merging similar nodes keeps in either.  *)
ImplementsGraph == KG!GraphSpec

(* A pass run for an agent changes and absorbs only nodes that agent sees     *)
(* (evolve(Some(agent))).  Of edges this is not so: edges_of takes no agent,  *)
(* so a pass reweights other agents' edges between nodes it sees, and         *)
(* SQLite's removal of duplicates looks at every edge there is.              *)
OthersUntouched ==
    [][\A t \in Tasks :
          pass[t].pc \in {"merge", "strengthen", "weigh"} /\ (pass'[t] # pass[t] \/ call'[t] # call[t]) =>
             \A n \in Nodes : nodes[n] # NoNode /\ nodes'[n] # nodes[n] =>
                                Sees(pass[t].owner, nodes[n].agent)]_vars

(* Whatever overlaps and whatever order nodes are linked, merged, deleted and  *)
(* cleared in, SQLite never keeps an edge whose end is gone: an ingestion      *)
(* whose nodes were taken away meanwhile and a merge into a node that another  *)
(* pass absorbed are refused as a whole (sqlite_store.rs:56, 613-625).        *)
EdgesAreAnchored == backend = "sqlite" => Anchored

(* merge_nodes: "if any step fails, nothing changes" (traits.rs:186).        *)
MergeIsAtomic ==
    [][\A t \in Tasks : call[t].s # NoNode /\ call[t].a # NoNode /\ call'[t] = NoCall =>
          \/ nodes'[call[t].a] = NoNode
          \/ nodes' = before.nodes /\ edges' = before.edges]_vars

(* Every path of at most hops visible edges through visible nodes, and only    *)
(* these, leads to what the SQLite traversal returns; the node it starts at    *)
(* is returned and gone on from whoever it belongs to.                       *)
Joined(a) == {{edges[e].src, edges[e].tgt} : e \in {f \in Live(edges) : Sees(a, edges[f].agent)}}
ReachedBy(start, hops, a) ==
    LET joined == Joined(a)
        visible == Loadable(nodes, a)
        paths == [1..hops -> visible]
        Along(p, k) == \A i \in 1..k : {IF i = 1 THEN start ELSE p[i - 1], p[i]} \in joined
    IN  (IF nodes[start] # NoNode THEN {start} ELSE {})
        \cup UNION {{p[k] : k \in {j \in 1..hops : Along(p, j)}} : p \in paths}

TraversalComplete ==
    backend = "sqlite" => \A start \in minted, hops \in 1..2, a \in Agents :
       SqlTraverse(nodes, edges, start, hops, a) = ReachedBy(start, hops, a)

(* Wherever a traversal starts, the two differ in two ways only.  SQLite       *)
(* returns the start even when the agent does not see it, and no other such    *)
(* node, although the trait scopes traversals to the agent (traits.rs:159).    *)
(* CozoDB goes on through nodes the agent does not see.  What else SQLite       *)
(* finds CozoDB finds too, the edges between included, and no more when the    *)
(* edges the agent sees end at nodes it sees.                               *)
BackendsAgree ==
    (\A t \in Tasks : ~Busy(t)) => \A a \in Agents, hops \in 1..2, start \in Nodes :
       LET visible == Loadable(nodes, a)
           sql == SqlTraverse(nodes, edges, start, hops, a)
           cozo == CozoTraverse(nodes, edges, start, hops, a)
       IN  /\ sql \subseteq visible \cup {start}
           /\ sql \cap visible \subseteq cozo
           /\ UNION Joined(a) \subseteq visible => sql \cap visible = cozo
           /\ \A e \in SqlTraversed(nodes, edges, start, hops, a) :
                 {edges[e].src, edges[e].tgt} \subseteq sql \cap visible => e \in CozoTraversed(edges, cozo)

(* SQLite's traversal finds what paths there are, and CozoDB's differs from it  *)
(* only in the start and in what lies behind nodes the agent does not see.    *)
TraversalsAgree == TypeOK /\ TraversalComplete /\ BackendsAgree

============================================================================
