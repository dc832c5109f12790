----------------------------- MODULE Retrieval -----------------------------
(***************************************************************************)
(* Ingestion and retrieval (umms-retriever; the ingest, search and seed     *)
(* handlers of umms-api).  A memory lives in the vector table, and what      *)
(* finds it lives in three other places that are written after it and        *)
(* never in one transaction: the BM25 index, the knowledge graph and the     *)
(* raw files.  Only the table follows a promotion, a demotion or a           *)
(* deletion.                                                                 *)
(*                                                                          *)
(* Every method of a store is one step, every await between two of them      *)
(* lets other tasks run.  Scores are abstracted: a search returns any         *)
(* choice a ranking could make.                                              *)
(***************************************************************************)
EXTENDS Integers, FiniteSets, FiniteSetsExt, Sequences

CONSTANTS
    Agents,
    Shared,         \* the scope of a memory every agent may see
    Private,
    NoRow,          \* no row with this id was ever inserted
    Gone,           \* the row with this id was deleted
    MaxRows,        \* bound: memory ids ever made
    MaxChunks,      \* bound: chunks of one document
    SeedRows,       \* the demo memories, as rows
    ClearFirst,     \* the agent with whom clear_all_data deletes the shared rows
    TopRecall, TopRerank, TopFinal, Hops, MaxDiffused,   \* RetrieverConfig
    Persistent,     \* is storage.bm25_dir set?
    Tasks,          \* requests being served at one time
    Faults,         \* what may fail
    Kept,           \* what was ingested before, as sequences of rows
    MaxEvents       \* bound: requests, moves of a row and restarts

Ids == 1..MaxRows
Scopes == {Shared, Private}
Row == [agent : Agents, scope : Scopes]
Entry == [id : Ids, agent : Agents, scope : Scopes]

ASSUME RetrievalAssumption ==
    /\ {MaxRows, MaxEvents} \subseteq Nat /\ MaxChunks \in Nat \ {0}
    /\ {TopRecall, TopRerank, TopFinal, MaxDiffused} \subseteq Nat \ {0} /\ Hops \in Nat
    /\ Shared # Private /\ NoRow # Gone /\ {NoRow, Gone} \cap Row = {}
    /\ ClearFirst \in Agents
    /\ Persistent \in BOOLEAN
    /\ SeedRows \subseteq Row
    /\ Kept \subseteq Seq(Row) /\ \A kept \in Kept : Len(kept) <= MaxRows

VARIABLES
    rows,       \* the vector table
    minted,     \* memory ids made so far
    docs,       \* committed documents of the BM25 index
    staged,     \* documents its writer holds without having committed them
    nodes,      \* graph nodes of chunks
    links,      \* graph edges, between the memories of two nodes
    files,      \* raw files, by memory
    accepted,   \* history: memories whose ingestion answered that they are stored
    task,       \* what each request is doing
    events      \* requests, moves and restarts so far

storeVars == <<rows, minted, docs, staged, nodes, links, files, accepted>>
vars == <<storeVars, task, events>>

MaySee(a, row) == row.agent = a \/ row.scope = Shared

Stored == {i \in Ids : rows[i] \notin {NoRow, Gone}}

-----------------------------------------------------------------------------
(* Requests.  `batch' is what an ingestion is writing, `keys' what a search   *)
(* has yet to fetch and where it found it, `hits' and `found' what it shows.  *)

Idle == [pc |-> "idle"]
IngestPhases == {"encode", "insert", "index", "nodes", "links", "media", "file", "clear", "wipe",
                 "seed", "seedIndex"}
SearchPhases == {"vector", "fetch", "diffuse", "traverse", "load", "answer"}

IngestType ==
    [pc : IngestPhases, agent : Agents, scope : Scopes, batch : SUBSET Entry,
     todo : SUBSET (Agents \cup Row \cup Entry), pairs : SUBSET SUBSET Ids, chunks : 0..MaxChunks]
SearchType ==
    [pc : SearchPhases, agent : Agents, keys : SUBSET Entry, seeds : SUBSET Ids,
     at : SUBSET Entry, seen : SUBSET Ids, hits : SUBSET [key : Entry, row : Row],
     found : SUBSET [key : Entry, row : Row]]

TypeOK ==
    /\ rows \in [Ids -> Row \cup {NoRow, Gone}] /\ minted \in 0..MaxRows
    /\ docs \subseteq Entry /\ staged \subseteq Entry /\ nodes \subseteq Entry
    /\ links \subseteq (SUBSET Ids) /\ files \subseteq Ids /\ accepted \subseteq Ids
    /\ task \in [Tasks -> {Idle} \cup IngestType \cup SearchType] /\ events \in 0..MaxEvents

(* The server starts on what was ingested before.                           *)
Init ==
    /\ \E kept \in Kept :
          /\ rows = [i \in Ids |-> IF i \in DOMAIN kept THEN kept[i] ELSE NoRow]
          /\ minted = Len(kept) /\ accepted = DOMAIN kept
          /\ docs = {[id |-> i, agent |-> kept[i].agent, scope |-> kept[i].scope] : i \in DOMAIN kept}
          /\ nodes = docs
          /\ links = {{i - 1, i} : i \in 2..Len(kept)}
    /\ staged = {} /\ files = {}
    /\ task = [t \in Tasks |-> Idle] /\ events = 0

Becomes(t, r) == task' = [task EXCEPT ![t] = r]
Goto(t, phase) == Becomes(t, [task[t] EXCEPT !.pc = phase])

Ingesting(a, s, phase) ==
    [pc |-> phase, agent |-> a, scope |-> s, batch |-> {}, todo |-> {}, pairs |-> {},
     chunks |-> 0]

-----------------------------------------------------------------------------
(* IngestPipeline::ingest                                                   *)

(* An empty document is answered at once; the skeleton and the tags come     *)
(* before the embedding and stop nothing when they fail.                     *)
StartIngest(t, a, s) ==
    /\ task[t] = Idle
    /\ \E n \in 1..MaxChunks : Becomes(t, [Ingesting(a, s, "encode") EXCEPT !.chunks = n])
    /\ UNCHANGED storeVars

NewEntries(t, n) ==
    {[id |-> i, agent |-> task[t].agent, scope |-> task[t].scope] : i \in (minted + 1)..(minted + n)}

(* encode_batch(): chunks without a vector are dropped, with a warning only.  *)
Encode(t) ==
    /\ task[t].pc = "encode"
    /\ \/ \E n \in 0..task[t].chunks :
             /\ n = task[t].chunks \/ "short" \in Faults
             /\ minted + n <= MaxRows
             /\ minted' = minted + n
             /\ Becomes(t, [task[t] EXCEPT !.pc = "insert", !.batch = NewEntries(t, n)])
       \/ Becomes(t, Idle) /\ UNCHANGED minted
    /\ UNCHANGED <<rows, docs, staged, nodes, links, files, accepted>>

Inserted(entries) ==
    [i \in Ids |-> IF \E e \in entries : e.id = i
                   THEN LET e == CHOOSE e \in entries : e.id = i
                        IN  [agent |-> e.agent, scope |-> e.scope]
                   ELSE rows[i]]

InsertBatch(t) ==
    /\ task[t].pc = "insert"
    /\ \/ rows' = Inserted(task[t].batch) /\ Goto(t, "index")
       \/ "table" \in Faults /\ Becomes(t, Idle) /\ UNCHANGED rows
    /\ UNCHANGED <<minted, docs, staged, nodes, links, files, accepted>>

(* Bm25Index::index_batch: add every document, then commit, which publishes  *)
(* whatever the writer holds.  A failure keeps what was added so far, and    *)
(* after the commit the reload of the reader can still fail.                 *)
Commit(new) == docs' = docs \cup staged \cup new /\ staged' = {}

IndexFails(new) ==
    /\ "index" \in Faults
    /\ \/ Commit(new)
       \/ \E i \in 0..MaxRows :
             staged' = staged \cup {d \in new : d.id <= i} /\ UNCHANGED docs

(* Mutant: an error of the index is logged like one of the graph.            *)
IndexErrorLogged(t) ==
    /\ task[t].pc = "index"
    /\ Commit(task[t].batch) \/ IndexFails(task[t].batch)
    /\ accepted' = accepted \cup {e.id : e \in task[t].batch}
    /\ Becomes(t, [task[t] EXCEPT !.pc = "nodes", !.todo = task[t].batch])
    /\ UNCHANGED <<rows, minted, nodes, links, files>>

IndexBatch(t) ==
    /\ task[t].pc = "index"
    /\ \/ /\ Commit(task[t].batch)
          /\ accepted' = accepted \cup {e.id : e \in task[t].batch}
          /\ Becomes(t, [task[t] EXCEPT !.pc = "nodes", !.todo = task[t].batch])
       \/ IndexFails(task[t].batch) /\ Becomes(t, Idle) /\ UNCHANGED accepted
    /\ UNCHANGED <<rows, minted, nodes, links, files>>

(* GraphBuilder: a node per chunk, then the edges; a failed write is logged   *)
(* and the next one tried.                                                   *)
BuildNode(t) ==
    /\ task[t].pc = "nodes" /\ task[t].todo # {}
    /\ \E e \in task[t].todo :
          /\ \A f \in task[t].todo : e.id <= f.id
          /\ \/ nodes' = nodes \cup {e}
             \/ "graph" \in Faults /\ UNCHANGED nodes
          /\ Becomes(t, [task[t] EXCEPT !.todo = @ \ {e}])
    /\ UNCHANGED <<rows, minted, docs, staged, links, files, accepted>>

Consecutive(t) == {{e.id, e.id + 1} : e \in {e \in task[t].batch : \E f \in task[t].batch : f.id = e.id + 1}}

(* Chunks that do not follow one another may share a tag.                     *)
Apart(t) == kSubset(2, {e.id : e \in task[t].batch}) \ Consecutive(t)

PlanLinks(t) ==
    /\ task[t].pc = "nodes" /\ task[t].todo = {}
    /\ \E sharing \in SUBSET Apart(t) :
          Becomes(t, [task[t] EXCEPT !.pc = "links", !.pairs = Consecutive(t) \cup sharing])
    /\ UNCHANGED storeVars

(* One edge after the other; SQLite refuses one whose node is missing.        *)
AddLink(t) ==
    /\ task[t].pc = "links"
    /\ \E l \in task[t].pairs :
          /\ \/ links' = links \cup {l}
             \/ /\ "graph" \in Faults \/ ~(l \subseteq {n.id : n \in nodes})
                /\ UNCHANGED links
          /\ Becomes(t, [task[t] EXCEPT !.pairs = @ \ {l}])
    /\ UNCHANGED <<rows, minted, docs, staged, nodes, files, accepted>>

LinksDone(t) ==
    /\ task[t].pc = "links" /\ task[t].pairs = {}
    /\ Becomes(t, Idle)
    /\ UNCHANGED storeVars

-----------------------------------------------------------------------------
(* ingest_multimodal: one row, never indexed; its bytes are decoded and kept  *)
(* after the row is inserted.                                                *)

StartMedia(t, a, s) ==
    /\ task[t] = Idle /\ minted < MaxRows
    /\ minted' = minted + 1
    /\ Becomes(t, [Ingesting(a, s, "media") EXCEPT
                      !.batch = {[id |-> minted + 1, agent |-> a, scope |-> s]}])
    /\ UNCHANGED <<rows, docs, staged, nodes, links, files, accepted>>

InsertMedia(t) ==
    /\ task[t].pc = "media"
    /\ \/ rows' = Inserted(task[t].batch) /\ Goto(t, "file")
       \/ "table" \in Faults /\ Becomes(t, Idle) /\ UNCHANGED rows
    /\ UNCHANGED <<minted, docs, staged, nodes, links, files, accepted>>

StoreFile(t) ==
    /\ task[t].pc = "file"
    /\ \/ files' = files \cup {e.id : e \in task[t].batch}
       \/ "file" \in Faults /\ UNCHANGED files
    /\ Becomes(t, Idle)
    /\ UNCHANGED <<rows, minted, docs, staged, nodes, links, accepted>>

-----------------------------------------------------------------------------
(* The demo data: clear_all_data, then the rows one by one.  Nothing here     *)
(* stops at an error, and the index is not cleared.                          *)

StartSeed(t, phase) ==
    /\ task[t] = Idle
    /\ Becomes(t, [Ingesting(ClearFirst, Shared, phase) EXCEPT !.todo = Agents])
    /\ UNCHANGED storeVars

ClearAgent(t) ==
    /\ task[t].pc \in {"clear", "wipe"} /\ task[t].todo # {}
    /\ \E a \in task[t].todo :
          /\ a = ClearFirst \/ ClearFirst \notin task[t].todo
          /\ \/ rows' = [i \in Ids |->
                            IF i \in Stored /\ (rows[i].agent = a \/ (a = ClearFirst /\ rows[i].scope = Shared))
                            THEN Gone ELSE rows[i]]
             \/ "table" \in Faults /\ UNCHANGED rows
          /\ Becomes(t, [task[t] EXCEPT !.todo = @ \ {a}])
    /\ UNCHANGED <<minted, docs, staged, nodes, links, files, accepted>>

ClearGraph(t) ==
    /\ task[t].pc \in {"clear", "wipe"} /\ task[t].todo = {}
    /\ \/ nodes' = {} /\ links' = {}
       \/ "graph" \in Faults /\ UNCHANGED <<nodes, links>>
    /\ IF task[t].pc = "clear" THEN Becomes(t, Idle)
       ELSE Becomes(t, [task[t] EXCEPT !.pc = "seed", !.todo = SeedRows])
    /\ UNCHANGED <<rows, minted, docs, staged, files, accepted>>

SeedInsert(t) ==
    /\ task[t].pc = "seed" /\ task[t].todo # {} /\ minted < MaxRows
    /\ minted' = minted + 1
    /\ \E r \in task[t].todo :
          LET e == [id |-> minted + 1, agent |-> r.agent, scope |-> r.scope]
          IN  \/ /\ rows' = Inserted({e})
                 /\ Becomes(t, [task[t] EXCEPT !.pc = "seedIndex", !.todo = @ \ {r}, !.batch = {e}])
              \/ /\ "table" \in Faults /\ UNCHANGED rows
                 /\ Becomes(t, [task[t] EXCEPT !.todo = @ \ {r}])
    /\ UNCHANGED <<docs, staged, nodes, links, files, accepted>>

SeedIndex(t) ==
    /\ task[t].pc = "seedIndex"
    /\ Commit(task[t].batch) \/ IndexFails(task[t].batch)
    /\ Goto(t, "seed")
    /\ UNCHANGED <<rows, minted, nodes, links, files, accepted>>

SeedDone(t) ==
    /\ task[t].pc = "seed" /\ task[t].todo = {}
    /\ Becomes(t, Idle)
    /\ UNCHANGED storeVars

-----------------------------------------------------------------------------
(* RetrievalPipeline::retrieve_with_sources                                 *)

AtMost(n, S) == kSubset(Min({n, Cardinality(S)}), S)

(* Mutant: only as many documents are read as the agent asks for.            *)
TextHitsNoSpare(a, matching) ==
    UNION {AtMost(TopRecall, {d \in best : MaySee(a, d)}) : best \in AtMost(TopRecall, matching)}

(* Bm25Index::search: of the documents that match, the best 3 * TopRecall of   *)
(* whatever agent are read, and of those the agent's and the shared ones       *)
(* kept, up to TopRecall.                                                    *)
TextHits(a, matching) ==
    UNION {AtMost(TopRecall, {d \in best : MaySee(a, d)}) : best \in AtMost(3 * TopRecall, matching)}

(* Mutant: the filter of the vector search is forgotten.                     *)
VectorHitsOfAnyone(a) == AtMost(TopRecall, Stored)

(* VectorStore::search filters first.                                        *)
VectorHits(a) == AtMost(TopRecall, {i \in Stored : MaySee(a, rows[i])})

AsEntry(i) == [id |-> i, agent |-> rows[i].agent, scope |-> rows[i].scope]
Hit(key) == [key |-> key, row |-> rows[key.id]]
IdsOf(hits) == {h.key.id : h \in hits}

(* Encoding the query and reshaping its vector change nothing; a failure of   *)
(* either search ends the request.                                           *)
StartSearch(t, a) ==
    /\ task[t] = Idle
    /\ \E matching \in SUBSET docs : \E text \in TextHits(a, matching) :
          Becomes(t, [pc |-> "vector", agent |-> a, keys |-> text, seeds |-> {}, at |-> {},
                      seen |-> {}, hits |-> {}, found |-> {}])
    /\ UNCHANGED storeVars

(* Fusion: one entry per id, the best TopRecall of them.  The vector search   *)
(* has read its rows, the others are fetched one at a time.                  *)
VectorSearch(t) ==
    /\ task[t].pc = "vector"
    /\ \/ \E near \in VectorHits(task[t].agent) :
             \E best \in AtMost(TopRecall, near \cup {d.id : d \in task[t].keys}) :
                Becomes(t, [task[t] EXCEPT
                   !.pc = "fetch",
                   !.hits = {Hit(AsEntry(i)) : i \in best \cap near},
                   !.keys = {d \in @ : d.id \in best \ near}])
       \/ "table" \in Faults /\ Becomes(t, Idle)
    /\ UNCHANGED storeVars

(* VectorStore::get, by id alone: a missing row and an error are skipped.      *)
Fetch(t) ==
    /\ task[t].pc = "fetch"
    /\ \E d \in task[t].keys :
          \/ /\ d.id \in Stored
             /\ Becomes(t, [task[t] EXCEPT !.keys = @ \ {d}, !.hits = @ \cup {Hit(d)}])
          \/ /\ d.id \notin Stored \/ "table" \in Faults
             /\ Becomes(t, [task[t] EXCEPT !.keys = @ \ {d}])
    /\ UNCHANGED storeVars

(* Re-scored by cosine and cut; any of those left may be below the score       *)
(* threshold.  The importance and a second sort follow, and the five best     *)
(* are the seeds of the diffusion.                                           *)
Rerank(t) ==
    /\ task[t].pc = "fetch" /\ task[t].keys = {}
    /\ \E cut \in AtMost(TopRerank, task[t].hits) : \E best \in SUBSET cut :
          \E seeds \in AtMost(IF Hops = 0 THEN 0 ELSE 5, IdsOf(best)) :
             Becomes(t, [task[t] EXCEPT !.pc = "diffuse", !.hits = best, !.seeds = seeds,
                            !.seen = IdsOf(best)])
    /\ UNCHANGED storeVars

(* diffuse(): the node labelled with the memory, among the agent's nodes.      *)
FindNode(t) ==
    /\ task[t].pc = "diffuse"
    /\ \E i \in task[t].seeds :
          LET at == {n \in nodes : n.id = i /\ n.agent = task[t].agent}
          IN  \/ at # {} /\ Becomes(t, [task[t] EXCEPT !.pc = "traverse", !.seeds = @ \ {i}, !.at = at])
              \/ at = {} /\ Becomes(t, [task[t] EXCEPT !.seeds = @ \ {i}])
              \/ "graph" \in Faults /\ Becomes(t, [task[t] EXCEPT !.seeds = @ \ {i}])
    /\ UNCHANGED storeVars

(* traverse(): the agent's nodes at the end of a walk of so many hops, of which   *)
(* each goes along an edge or nowhere.                                        *)
Linked(m, n) == m = n \/ {m.id, n.id} \in links

Within(a, S, hops) ==
    LET own == {n \in nodes : n.agent = a} \cup S
    IN  {n \in own : \E walk \in [0..hops -> own] :
            walk[0] \in S /\ walk[hops] = n /\ \A k \in 1..hops : Linked(walk[k - 1], walk[k])}

(* Mutant: only the seeds are remembered, not what other seeds have reached.   *)
SeedsOnly(seen, new) == seen

Remember(seen, new) == seen \cup {n.id : n \in new}

(* Memories already shown or already reached are not loaded again.           *)
Traverse(t) ==
    /\ task[t].pc = "traverse"
    /\ LET reached == Within(task[t].agent, task[t].at, Hops)
           new == {n \in reached : n.id \notin task[t].seen}
       IN  \/ Becomes(t, [task[t] EXCEPT !.pc = "load", !.at = {}, !.keys = new,
                             !.seen = Remember(@, new)])
           \/ "graph" \in Faults /\ Becomes(t, [task[t] EXCEPT !.pc = "diffuse", !.at = {}])
    /\ UNCHANGED storeVars

Load(t) ==
    /\ task[t].pc = "load" /\ task[t].keys # {}
    /\ \E n \in task[t].keys :
          \/ /\ n.id \in Stored
             /\ Becomes(t, [task[t] EXCEPT !.keys = @ \ {n}, !.found = @ \cup {Hit(n)}])
          \/ /\ n.id \notin Stored \/ "table" \in Faults
             /\ Becomes(t, [task[t] EXCEPT !.keys = @ \ {n}])
    /\ UNCHANGED storeVars

NextSeed(t) ==
    /\ task[t].pc = "load" /\ task[t].keys = {}
    /\ Goto(t, "diffuse")
    /\ UNCHANGED storeVars

Answer(t) ==
    /\ task[t].pc = "diffuse" /\ task[t].seeds = {}
    /\ \E final \in AtMost(TopFinal, task[t].hits), found \in AtMost(MaxDiffused, task[t].found) :
          Becomes(t, [task[t] EXCEPT !.pc = "answer", !.hits = final, !.found = found])
    /\ UNCHANGED storeVars

Answered(t) ==
    /\ task[t].pc = "answer"
    /\ Becomes(t, Idle)
    /\ UNCHANGED storeVars

-----------------------------------------------------------------------------
(* What else changes the table: promotion, demotion, and the consolidation     *)
(* inserting a distilled memory.  None of them tells the index or the graph.  *)

Promote(i) ==
    /\ i \in Stored /\ rows[i].scope = Private
    /\ rows' = [rows EXCEPT ![i].scope = Shared]
    /\ UNCHANGED <<minted, docs, staged, nodes, links, files, accepted, task>>

Demote(i, a) ==
    /\ i \in Stored /\ rows[i].scope = Shared
    /\ rows' = [rows EXCEPT ![i] = [agent |-> a, scope |-> Private]]
    /\ UNCHANGED <<minted, docs, staged, nodes, links, files, accepted, task>>

Distil(a, s) ==
    /\ minted < MaxRows
    /\ minted' = minted + 1
    /\ rows' = [rows EXCEPT ![minted + 1] = [agent |-> a, scope |-> s]]
    /\ UNCHANGED <<docs, staged, nodes, links, files, accepted, task>>

(* A restart loses the requests, what the writer had not committed and an      *)
(* index that is kept in memory.                                             *)
Restart ==
    /\ "crash" \in Faults
    /\ task' = [t \in Tasks |-> Idle]
    /\ staged' = {}
    /\ docs' = IF Persistent THEN docs ELSE {}
    /\ UNCHANGED <<rows, minted, nodes, links, files, accepted>>

IngestStep(t) ==
    \/ Encode(t) \/ InsertBatch(t) \/ IndexBatch(t) \/ BuildNode(t)
    \/ PlanLinks(t) \/ AddLink(t) \/ LinksDone(t)
    \/ InsertMedia(t) \/ StoreFile(t)
    \/ ClearAgent(t) \/ ClearGraph(t) \/ SeedInsert(t) \/ SeedIndex(t) \/ SeedDone(t)

SearchStep(t) ==
    \/ VectorSearch(t) \/ Fetch(t) \/ Rerank(t) \/ FindNode(t) \/ Traverse(t) \/ Load(t)
    \/ NextSeed(t) \/ Answer(t) \/ Answered(t)

Start(t) ==
    \/ \E a \in Agents : StartSearch(t, a)
    \/ \E a \in Agents, s \in Scopes : StartIngest(t, a, s) \/ StartMedia(t, a, s)
    \/ \E phase \in {"clear", "wipe"} : StartSeed(t, phase)

Event ==
    \/ \E t \in Tasks : Start(t)
    \/ \E i \in Ids : Promote(i) \/ \E a \in Agents : Demote(i, a)
    \/ \E a \in Agents, s \in Scopes : Distil(a, s)
    \/ Restart

Next ==
    \/ events < MaxEvents /\ events' = events + 1 /\ Event
    \/ \E t \in Tasks : (IngestStep(t) \/ SearchStep(t)) /\ UNCHANGED events

Spec == Init /\ [][Next]_vars

-----------------------------------------------------------------------------
Searching == {t \in Tasks : task[t].pc \in SearchPhases}
ShownBy(t) == task[t].hits \cup task[t].found

(* What a search shows an agent, by whatever way it found it, the agent may    *)
(* see; the exception is a row that was promoted or demoted after its index    *)
(* entry or its graph node was written, for those keep the old owner and scope *)
(* and the row is fetched by id (hybrid.rs, pipeline.rs).                     *)
ShownIsVisible ==
    \A t \in Searching : \A h \in ShownBy(t) :
        \/ MaySee(task[t].agent, h.row)
        \/ h.row # [agent |-> h.key.agent, scope |-> h.key.scope]

(* No memory is in an answer twice, though the two searches overlap, several   *)
(* seeds reach the same nodes and a seed reaches another (pipeline.rs).       *)
ShownOnce ==
    \A t \in Searching :
        /\ IdsOf(task[t].hits) \cap IdsOf(task[t].found) = {}
        /\ \A h, g \in ShownBy(t) : h.key.id = g.key.id => h = g

(* Whatever fails and whoever overlaps, the index, the graph and the files     *)
(* name memories that were stored: the table is written first.  A document    *)
(* left in the writer may be published by anyone's later commit.             *)
DerivedWereStored ==
    \A i \in {e.id : e \in docs \cup staged \cup nodes} \cup files : rows[i] # NoRow

(* A document answered for as ingested is in the index as long as its rows     *)
(* are in the table, over the failures of others and over restarts, if the     *)
(* index is kept on disk.                                                    *)
AcceptedIsIndexed ==
    Persistent => accepted \cap Stored \subseteq {d.id : d \in docs}

(* Whenever a search can start, other agents' documents crowd an agent out of   *)
(* its full-text half only when more than twice as many as it asks for match:   *)
(* that is what reading three times as many buys (bm25.rs).                   *)
TextSearchIsFull ==
    (\E t \in Tasks : task[t] = Idle) =>
    \A a \in Agents, matching \in SUBSET docs :
        LET own == {d \in matching : MaySee(a, d)}
        IN  Cardinality(matching \ own) <= 2 * TopRecall
               => \A text \in TextHits(a, matching) :
                     Cardinality(text) = Min({TopRecall, Cardinality(own)})

(* What a search shows may be seen and is shown once (hybrid.rs, pipeline.rs).  *)
ShownIsSound == ShownIsVisible /\ ShownOnce

(* What is written after the table names only what was stored, and what was     *)
(* accepted can be found: neither a failure, nor another request's commit, nor  *)
(* a restart parts the index from the table (pipeline.rs, bm25.rs).            *)
IndexesFollowTable == TypeOK /\ DerivedWereStored /\ AcceptedIsIndexed

=============================================================================
