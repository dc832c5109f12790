# Verification of the universal memory system

TLA+ models of the parts of the universal memory system (UMMS) that keep state
and can go wrong under concurrency, failure and restart; TLC configurations that
check them on small instances; and TLAPS proofs of most of the safety properties for
every value of the parameters. Paths below are relative to the
repository, line numbers refer to the commit the models were written from.
`PROJECT.json` maps every definition to the lines it translates.

To run a check: `tlc -workers 2 -config SessionOverlapped.cfg MCAgentSession`.
To check the proofs: `tlapm AgentSessionProofs.tla`, and likewise
`ConsolidationProofs.tla`, `ChatSessionsProofs.tla`, `TaskSchedulerProofs.tla`,
`GraphEvolutionProofs.tla`, `RetrievalProofs.tla`, `TagExtractionProofs.tla` and
`AgentChatProofs.tla`. Each takes a few minutes.

## 1. The system

UMMS gives LLM agents a layered memory. It is one asynchronous process (tokio,
axum): every HTTP request is a task, several components spawn background tasks,
and nearly all state is either a moka cache in memory, a LanceDB table or a SQLite
file behind one mutex. *The mutex is held for one statement or one method, never
for a whole request*: this is the source of most of the behaviours modelled here.

| Part | State | Operations | Talks to | Hard behaviour |
|---|---|---|---|---|
| Working-memory cache, `umms-storage/src/cache/moka_cache.rs` | two caches L0, L1 keyed by (agent, memory id) | put, get, remove, entries_for_agent, evict_agent | switcher, ingestion, memory handlers | L0 and L1 are visited one after the other; entries expire at any moment |
| Agent switching, `isolation/switcher.rs`, `isolation/agent_context.rs` | one snapshot row per agent in SQLite | switch(from, to), save and load of a snapshot | cache | six awaits without a lock; failure after eviction; restart with an empty cache |
| Memory table (L2), `vector/lance_store.rs` | rows: id, agent, scope, importance, tags, times | insert, list, count, search, update_metadata, delete | nearly everything | paging while rows are inserted; one statement per column |
| Promotion, `promotion.rs`, `consolidation/src/auto_promote.rs` | scope and owner of a row | promote, demote, scan | memory table | criteria applied to an older copy |
| Consolidation, `umms-consolidation` | none of its own | a cycle: decay, WKD, graph evolution, promotion | memory table, graph, model | long sequences of calls on copies; overlapping cycles; partial failure |
| Knowledge graph (L3), `graph/sqlite_store.rs`, `graph/cozo_store.rs` | nodes and edges in SQLite or CozoDB | add, merge, traverse, batch | graph evolution, recall, ingestion | pairs found before the first merge; CozoDB methods of several scripts without a transaction |
| Recall, `umms-retriever` | BM25 index beside the table | hybrid search, diffusion, rerank | table, index, graph | index and table change separately |
| Ingestion, `umms-retriever/src/ingest` | none of its own | chunk, embed, write vectors, BM25, graph, tags, files | table, index, graph, tags | four stores, no transaction; cutting a text at byte offsets |
| Tags, `umms-storage/src/tag` | tag table, co-occurrence counts | upsert, record co-occurrence, PMI | ingestion, recall | find-then-insert, several statements |
| Chat, `handlers/chat.rs`, `session/store.rs` | session rows (JSON) in SQLite | chat, list, get, rename, delete | recall, prompt, model, diary, audit | whole-row write of an old copy by a spawned task |
| Task scheduler, `umms-scheduler`, `handlers/scheduler.rs` | task and execution rows, wake-up permit | engine loop; create, edit, delete, trigger | executors (consolidation, model) | three kinds of actors on copies of rows |
| Model pool and traces, `umms-model` | provider table, trace ring, counters | embed, generate, retry, record | providers over HTTP | ring of bounded size, retry |
| Audit log, `umms-observe` | ring buffer, id counter | record, query | all handlers | ids drawn outside the lock |
| Personas, diaries, prompts | rows in SQLite | CRUD, render, seed at start | chat, agents handlers | read-modify-write without a lock; two copies of a block's active content |
| Encoder, analyzers | none that matters | HTTP or numeric computation | ingestion, recall | stateless |
| Server, desktop, web, Python binding | start-up, displayed state | | all | user interface and wiring |

What makes each modelled part correct:

* **Cache and switching.** An entry never reaches another agent's keys or row;
  a saved row holds at most one version of an entry; the state of the outgoing
  agent stays recoverable; one agent is live; a switch ends.
* **Consolidation.** Archiving loses no content; while cycles do not overlap,
  importance only falls and a memory becomes shared only by promotion it has earned
  or that was asked for; a cycle ends.
* **Chat.** A session is a log that grows; what is written stays; a rename and a
  deletion hold: each for requests that meet no other on their session.
* **Scheduler.** No wake-up that was sent is lost; the times of a task's runs are an
  interval apart; every due task runs; an execution marked running is running; a
  deletion leaves nothing behind.
* **Graph.** Both backends do what the trait promises; merging cuts no path; an
  evolution pass leaves other agents' nodes (not their edges) alone; SQLite keeps no edge whose end is
  gone; a traversal finds what is there.
* **Ingestion and recall.** A search shows what its agent may see, nothing twice;
  what was accepted can be found; the indexes name only what was stored; cutting a
  document loses nothing.
* **Tags.** One tag per label and agent; ids that memories name resolve; counts of
  pairs stay below those of their tags; no agent reads another's tags.
* **Profiles, pool, chat turn, audit.** An edit changes what it names; the editor
  shows what is sent, unless a client sent the two apart; vectors stay beside their
  texts; counters and rings say what happened.

## 2. The modules

```
MemoryCache                    the two caches
  AgentSwitch                  switch(), evict_agent() and snapshots, any callers
    AgentSession               the same with a client that follows its agent
      AgentContexts            (abstract) what a switch promises
      MCAgentSession           instances for TLC
      AgentSessionProofs       theorems of AgentSwitch and AgentSession
MemoryStore                    the L2 table
  Consolidation                cycles, promotion, ingestion, deletion around it
    ConsolidationProofs        theorems of Consolidation
    MCConsolidation
ChatSessions                   chat requests, spawned writes, session endpoints
  ChatLog                      (abstract) what a session promises
  ChatHistory                  what a chat call sends of its session
    ChatSessionsProofs         theorems of both
    MCChatSessions
TaskScheduler                  engine and requests
  TaskSchedulerProofs          theorems of TaskScheduler
  MCTaskScheduler
KnowledgeGraph                 (abstract) what the trait KnowledgeGraphStore promises
  SqliteGraph                  the SQLite backend, a method a step
  CozoGraph                    the CozoDB backend, a script a step
    GraphEvolution             who calls them: evolution, builder, seed, clients
      GraphEvolutionProofs     theorems of KnowledgeGraph and GraphEvolution
      MCGraphEvolution
Retrieval                      ingestion, hybrid search and diffusion over four stores
  RetrievalProofs              theorems of Retrieval
  MCRetrieval
Chunking                       how a document is cut
  TagExtraction                tags of its chunks, tag table, co-occurrence counts
    TagExtractionProofs        theorems of TagExtraction
    MCTagExtraction
AgentProfiles                  personas, prompt configurations, warehouses
Ranking                        sets in an order, sequences with places left out
  ModelPool                    calls, retries, batches, counters, traces
    AgentChat                  a chat turn over both, prompt, audit log, diary
      AgentChatProofs          theorems of AgentChat and what it extends
      MCAgentChat
```

GraphEvolution extends SqliteGraph and CozoGraph, AgentChat extends AgentProfiles
and ModelPool. Consolidation, Retrieval and GraphEvolution are neighbours of one
another that are not composed: each has the others' effects as steps of its own
(`Evolve` of Consolidation; `Promote`, `Demote` and `Distil` of Retrieval).

The rule for the grain of an action is the same in all modules: what happens
between two awaits on shared state, or under one hold of a lock, is one action.
A definition whose comment calls it a mutant is no part of any specification;
it is a plausible slip in the definition after it, kept to see that the property
named in `PROJECT.json` notices it.

### MemoryCache

`cache[l][a][m]` is what cache `l` holds under the key (a, m). An entry keeps the
agent, id and layer it was built with, because nothing in `MokaMemoryCache` ties
the key to the entry: `put` takes its key from the caller and its cache from the
entry's layer. `ver` numbers the entries in the order they were created.
`Remove` is one of the two awaited invalidations of `remove()`, in either cache: a
call makes both, a dropped one the first. `Expire` is moka's own doing (capacity,
time to live, time to idle): any entry may vanish at any time. Statistics and
weights are left out.

### AgentSwitch

`switch(from, to)` is the sequence of phases in `task[t].pc`:

| phase | code |
|---|---|
| `BeginSwitch`, `CollectL1` | `entries_for_agent(from)`: L0, then L1 |
| `SaveSnapshot`, `SaveFails` | `save_snapshot`: the row is replaced; on error the call returns |
| `ListKeys`, `DrainKey`, `DrainDone` (L0, then L1) | `evict_agent`: keys listed, then invalidated one by one |
| `LoadSnapshot`, `LoadFails` | `load_snapshot(to)`; on error the call returns, `from` is evicted already |
| `RestoreEntry`, `RestoreDone` | the two put loops, L0 first |

`Client` is everybody else who uses the cache. `Crash` empties the cache and ends
the calls; the SQLite rows stay. `Spec` allows any number of calls with any
arguments at any time.

### AgentSession and AgentContexts

`AgentSession` adds the client the switcher is written for: it works with the
agent `active`, and a switch that returns Ok changes `active` to its target.
`Overlap` says whether the client may act while a call is running. Three history
variables serve the properties: `active`, `owned` (what was last put and neither
removed nor expired) and `exposed`: the versions about which no promise is made.
A version is exposed when two calls overlap after it was put, when a load fails
or the process dies after it was put, or when it was itself put during a call.

`AgentContexts` is the promise: every agent has a context, which holds at least what
is `owed` to it: the entries put there and not released since. `Put` changes the
current context, `Forget` releases entries of any (removed, evicted or expired, so no
longer owed) and may take from a context only what is not owed, and `SwitchTo` changes
who is current and *nothing else*. What is owed is not for the switcher to decide: it is
`owned`, which only the client's own calls and expiry reduce. The refinement mapping (`Context` in AgentSession) says where a
context is at each phase: the cache, the buffer of a collection or of a restore,
or the saved row.

### MemoryStore and Consolidation

The table is `rows[i]`; ids are given in order, so that a higher id is a newer
memory, which `list` returns first. One store method is one step.

Importance is a level: `calculate_decay` multiplies by a constant below 1 per day,
which takes one level off per day on a logarithmic scale. `Floor` (level 1) is the
decay floor, and also the archive threshold, which the code keeps slightly above
the floor; level 0 is the 0.0 that decay writes when it archives; `MaxImp` is what
promotion asks for. A memory's text is a set of facts, and merging takes the union.
`Alike` is which memories have similar vectors, as a relation between what they
say; nothing is assumed of it, for the cosine threshold is not transitive and an
average of vectors may be near what none of them was near. A memory without a
vector, which clustering passes over as a seed and as a candidate, is alike to
none, not even itself; the overlapped run has one (`Mute`).

A cycle is `StartCycle` followed by the phases `DecayList .. PromotePage`, each
list, get, insert and update call a step of its own working on the copies in
`page`, `all` and `clusters`. `MergeFails` is the error `merge_cluster_entries`
gives the caller, which logs it and goes on; `CycleFails` is every `?` of
`run_cycle`. Graph evolution is one step here that succeeds or
fails; GraphEvolution models it. Around the cycle
clients ingest, promote, demote and purge, and days pass. LLM summaries (the
optional merge text) and ratings are left out.

### ChatSessions and ChatLog

A chat request is `BeginNew` or `BeginNext` (read the row), `CallFails`, or
`Respond` (append to the copy and spawn the write). `Save` is the spawned
`save_session`, a replacement of the whole row. `PreviewPanics` is the slice
`[..100]` of the message for the audit event, which panics inside a multi-byte
character after the write was spawned. `Create`, `Rename` and `Delete` are the
session endpoints. A message pair is the number of its turn. A request without a session id may bring a
history (`brought`), which its new session begins with. Retrieval, prompt and
model call are one step here; Retrieval and AgentChat model them.

`contested`, `landed`, `named` and `gone` are history variables: turns whose call or
write overlapped another request, uncontested turns written, the title given and
the sessions deleted when nothing overlapped.

`ChatLog` is the promise to a client that does not overlap its requests.

`ChatHistory` adds `truncate_history`: the newest messages up to a number and a
token budget, the brought ones among them. The size of a message is a constant of its
turn and role, or of the history it was brought in, in ASCII
and other characters, which `estimate_tokens` counts differently.

### TaskScheduler

The engine: `WakeUp` (the wait ends), `List` (all tasks), `TakeTime` (the time of the
pass, fetched when the list has arrived), then per copy `Skip` or `StartRun`, `EndRun`,
`WriteRun`, and `GoToSleep`. `permit` is the one permit of tokio's `Notify`. The timer
of the wait may always have ended, so `WakeUp` needs no permit, and may leave one
behind. Requests: `Create`, and `Begin` of an edit with `Edit`, each followed by `Wake`;
`Delete` (two statements, no wake-up); and `Begin` of a trigger with `TriggerStart` (the
record), `Spawn`, `TriggerEnd`, `TriggerWrite`. Every await of a handler lies between
two of these: `Cancel` drops it there, and what follows, the wake-up or the spawn, never
comes. A spawned trigger has no client and cannot be dropped. An executor is
external: it returns success or failure, or panics (`RunPanics`, `TriggerPanics`). A
panic in the engine's task ends the engine (`dead`), since nothing awaits its handle.
An interval is a small positive number; the cast of `u64` seconds to
`i64` (`task.rs:47`) is not modelled. `allowed[i]` (history) is the earliest time
the engine may run `i` again; it is reset by whatever may legitimately move the
task's next run. `leaked` (executions whose end will not be recorded), `unseen` (tasks
whose creation or edit was answered since the engine read the list) and `gone` are
history too.

`handlers/scheduler.rs` is not linked into the server at this commit
(`handlers/mod.rs` does not name it); the model is of the code as written.

### KnowledgeGraph, SqliteGraph, CozoGraph and GraphEvolution

A node has an owner (an agent, or `Shared` for none), an importance and, per
property key, the node whose value it has; an edge has its ends, relation, weight
and owner. Ids are given out in order. Labels and vectors are the constant relation
`Alike`.

`KnowledgeGraph` is the promise of the trait: every method is one step, a deletion
takes the incident edges, a merge redirects the absorbed node's edges and drops only
self-loops and duplicates. It also allows the two methods nothing calls outside
tests (`delete_edge`, `clear(Some(agent))`).

`SqliteGraph` holds the connection's mutex for a whole method, so a method is one
step; `delete_node` and `clear` are two statements of which the second can fail. Its
edges reference their ends, which the bundled library enforces: an edge to a node that
is gone and a merge of edges into one (`SqlMayLink`, `SqlMayMerge`) are refused.
`CozoGraph` has no lock and no transaction: each `run_script` is a step of
`call[t].pc`, on what earlier scripts have read. `ScriptFails` ends a method where it
is.

`GraphEvolution` has the callers: an evolution pass (`StartEvolve` finds the pairs;
`MergePair`, `ListNodes`, `EdgesOf`, `SetWeights`), the graph builder of the
ingestion, the demo seed, and clients that delete, update and clear. `alone` says
whether CozoDB methods may overlap and fail: the refinement of the promise is
claimed for those that do not; the SQLite backend always refines it. Its mapping
(`Promised`) is the graph before the running CozoDB method began.

### Retrieval

The memory table, the committed and the staged documents of the BM25 index, the graph
nodes and links of chunks, and the raw files. An ingestion goes `Encode`,
`InsertBatch`, `IndexBatch`, `BuildNode`, `PlanLinks` (which chunks follow one another and
which share a tag), `AddLink` edge by edge, `LinksDone`; a multimodal one `InsertMedia`,
`StoreFile`; the demo data `ClearAgent`, `ClearGraph`, `SeedInsert`, `SeedIndex`. A
failed commit leaves documents in the writer that anyone's next commit publishes. A
search goes `StartSearch` (full text), `VectorSearch`, `Fetch`, `Rerank`, then per
seed `FindNode`, `Traverse`, `Load`, and `Answer`. What ranking prefers is a choice
of a subset of the right size (`AtMost`), of which the score threshold may then leave out any.
A hit keeps the key it was found by
beside the row that was read. `Promote`, `Demote` and `Distil` are the writers of the
table that tell neither the index nor the graph.

### Chunking and TagExtraction

`Chunking` is `chunk_text` as operators over texts that are sequences of paragraphs of
sentences of words with byte sizes. A protected region (URL, code) is a word with the
size of its placeholder. `Carried` is the overlap cut at a byte and moved to the next
space. Offsets, which nothing reads, are left out, and so is the splitting into
sentences, which is given by the structure of the text.

An extraction (`job[t]`) looks up the candidate labels of every chunk (`Look`: one row
whose label *contains* the one looked for), embeds and upserts the new ones, reads and
upserts the known ones once more, then counts tags and pairs chunk by chunk
(`Record`, `RecordFails`: statements without a transaction). An upsert is
`FindCanonical` and `WriteTag`, which deletes the row, whatever comes of that, and
inserts it. The skeleton a model makes of a document is a choice.

### AgentProfiles, ModelPool and AgentChat

An edit (`edit[e]`) is the copy a handler made of a row, changed, until `SaveEdit`
writes it back whole; `stale` (history) says that the row was written since. The
personas have two fields, the system prompt and one that stands for the rest; a
prompt configuration has modes, blocks, variants and both places where a block's
active content is kept. The blocks clients send (`Inputs`, `Requests`) are stored as they
come: their two contents may differ, an id may be there already, and what a request to
save leaves out is cleared (`ConfigOf`). `ProfilesRestart` seeds the default personas,
over one that cannot be read too.

A pool call (`call[c]`) is cut into chunks of `BatchSize` texts, each attempted up to
`MaxRetries` times more; `Answer`, `AnswerShort`, `Busy`, `Refuse` and `Garble` are the
outcomes of an attempt. `Return` records the trace. Each provider has its own
counters, and a task is routed to one (`Route`). A text is a number, and so is its
vector. Image and audio calls, which have the form of the others, are left out.

A turn (`turn[t]`): `StartTurn` (persona), `ReadDiary`, `BuildPrompt`, the pool call,
`ModelReturns`, `TakeTicket` and `PushEvent` (the audit log: the id is fetched before
the buffer is locked), then the background task `Observe` and `AddNote`. `CutPanics`
is the byte slice of an over-long section that ends inside a character. `Cancel` is a
client that goes away: its handler is dropped at an await, and its pool call with it.
What a part of a prompt shows is the set of variables whose value it contains; the
default template, used where an agent has no configuration, is not rendered. `Observe`
takes any number of notes from the model's answer, and a diary is how many entries it
has, since nothing in the code compares them. Filters and sorts (blocks by `order`, entries and events by age, traces by task) are
stated by rank, with the operators of `Ranking`.

## 3. The runs

| run | instance | shows |
|---|---|---|
| `SessionSequential` | 3 agents, 1 id, 3 puts, saves may fail, fair | A client that waits for its switches: `SwitchKeepsContexts` (refinement of AgentContexts), `OneLiveAllRecoverable` (`AtMostOneLive`, `FullyRecoverable`), and every switch returns (`SwitchReturns`) |
| `SessionOverlapped` | 2 agents, 2 ids, 2 calls, 2 puts, all faults | `CacheIsolated`, `SnapshotsIsolated`, `SnapshotsReplayable` whatever overlaps; `UnexposedRecoverable`: overlapping endangers only what it touches |
| `ConsolidationSequential` | 2 memories and a cycle with two rows per page; beside it a task that promotes and demotes, deletions, store faults, fair | `ImportanceNeverRises`, `PromotionIsEarned`, `CycleEnds` |
| `ConsolidationOverlapped` | 2 overlapping cycles on 2 memories, with and without a vector, demotion, all faults | `ArchivingIsSafe`: `ArchivedAreDistilled` when both cycles merge and archive the same cluster |
| `ChatSequential` | 2 sessions, with or without a history brought along, 3 turns, all faults | `ChatKeepsLog` (refinement of ChatLog) for a client that does not overlap |
| `ChatOverlapped` | 2 sessions, with or without a history brought along, 2 calls, 4 turns | `UncontestedTurnsKept`, `StoredInOrder`, `QuietRenamesHold`, `QuietDeletionsHold`; `HistoryIsNewest` over every session that comes of it |
| `TaskScheduling` | 2 tasks, 2 requests, 3 events, all faults (store, dropped requests, panics, crash), fair | `RunTimesAreSpaced`, `ChangesAreSignalled`, `RunningIsOwned`, `QuietDeletionsHold`, `DueIsRun` |
| `GraphEvolution` | 4 nodes, 3 edges, 2 callers, 2 starts, 2 merges a pass, both backends, an empty graph or one with a merged node | `ImplementsGraph` (refinement of KnowledgeGraph), `OthersUntouched` (of nodes), `EdgesAreAnchored` (of SQLite), `TraversalsAgree` (`TraversalComplete`, `BackendsAgree`) |
| `GraphMergeFails` | the CozoDB backend of the same, one failing script | **violation** of `MergeIsAtomic` |
| `Retrieval` | 2 agents, 3 memories, 2 requests, 3 events, all faults, with or without a shared document of three chunks | `ShownIsSound` (`ShownIsVisible`, `ShownOnce`), `IndexesFollowTable` (`DerivedWereStored`, `AcceptedIsIndexed`), `TextSearchIsFull` |
| `TagExtraction` | 2 agents, 2 labels of which one contains the other, 2 documents, all faults; about 800 texts, one of which repeats a word, in 5 settings | `TagsResolve` (`OneTagPerLabel`, `CarriedTagsResolve`), `CountsAreSound` (`PairsWithinTotals`, `PartnersAreOwn`), `FrequencyKept`; of the texts `ChunksAreSound` (`NothingLost`, `ChunksBounded`, `RegionsWhole`, `EachBringsMore`) |
| `AgentChat` | an agent with the default persona and one without, 2 requests, 2 providers, batches of 2, 1 retry, rings of 2, blocks sent with and without agreeing contents, all faults | `EditsAreLocal`, `PromptIsAsShown` (`SentAsShown`, `ContentIsActive`), `PoolIsFaithful` (`BatchAligned`, `ErrorsAreFailures`, `TracesAreNewest`), `AuditIsOrdered` |

A property in parentheses is a conjunct of the one before it; the type invariant of a
module that has no theorem about it is a conjunct as well.

### Bounds

`MaxPuts`, `MaxRows`, `MaxDay`, `MaxIngest`, `MaxRuns`, `MaxTurns`, `MaxTime` and
`MaxEvents`, `MaxStarts`, `MaxDocs`, `MaxTexts`, `MaxNotes` and `MaxRequests` bound what the
environment does; `MaxTags` and `MaxEdges` what can be made, and stop a behaviour that
would make more. Each is a conjunct of the action it bounds. They are chosen so that the case each
property is about happens:

* two agents and two ids let an entry go under the wrong key in either component;
  a third agent lets a context survive two switches in between. Two puts give an
  entry two versions; the proofs of section 5 remove these bounds.
* a page of one row makes every list of two memories take three reads with
  anything between them; two memories are the smallest cluster; two cycles with
  two tasks overlap in every way, including the second clustering what the first
  has archived. `MaxRows` leaves room for every distilled memory.
* four turns in two sessions give two overlapping requests an earlier turn to lose
  and a later one to be reordered with.
* three edges and four nodes let a merge redirect an edge onto a duplicate of another
  and onto a self-loop, with one node of another owner; only one caller suffers
  faults, the two being alike. Two merges let the second pair of a pass name the node the
  first has absorbed. A method of the SQLite backend is one step, so that
  `alone` means nothing there and is fixed.
* three memories are a document of two chunks and one that is not in any index, or a
  document of three that was there before. `TopRecall` and `TopRerank` of 2 leave a search
  of the latter two seeds of the diffusion, with the third memory next to both or the seeds
  next to one another. The full-text half is checked where up to three documents crowd one
  out; the crowd of more than `2 * TopRecall` that the property excepts takes more documents, and
  the bound itself is left to its theorem.
* two chunks of a batch, one retry and rings of two reach: the second chunk sent
  again, the last retry used up, the ring full with an older trace in it. One event
  is in the audit log from the start, so that two requests overflow it. A configuration
  of two blocks may be there before them, so that an edit of it can meet a turn; of the
  blocks clients send, one shows another variant than is sent, and one shows what will
  no longer be sent when a variant is added.
* a text has up to two paragraphs of two sentences of two words of two sizes, or three
  paragraphs of one sentence; the settings have a target below and above a paragraph,
  an overlap of none, within and above the target. The words of all but three texts are
  distinct, so that a word left out or out of place shows; the one that repeats a word
  has chunks that read alike and yet advance in the document.
* three events with two tasks let one task be created, read by the engine, and
  edited, triggered or deleted, or its write fail, before a second pass.

Symmetry is used only by runs without liveness and without a `CHOOSE` over the
permuted values that the properties could tell apart.

`CHECK_DEADLOCK FALSE` is set for all modules but the session: with the clients'
bounds used up, nothing has to happen. The scheduler's engine goes on for ever unless
an executor panics in it. The sessions never stop.

### Fairness

`FairSessionSpec`, `FairSpec` of Consolidation and `FairSpec` of TaskScheduler assume
weak fairness of the steps of a call that has begun (`SwitchStep(t)`, `Cycle(t)`) and
of the engine's loop (`EngineStep`): tokio polls a woken task eventually, every store
call returns, with a result or an error, and every executor returns or panics, after
which the engine is dead and `DueIsRun` promises nothing more. Nothing is
assumed of clients: no request has to come, no wake-up has to be sent (the engine's
wait ends by its timer, `engine.rs:56`). `DueIsRun` therefore also shows that a due task is run when its wake-up never
comes. The other runs are of safety and assume nothing.

## 4. Where the code and its documentation differ

Found by a run (`findings` in `PROJECT.json`): *a failed CozoDB merge leaves half of
it behind.* `merge_nodes` removes the absorbed node's edges, puts them back one by one
and removes the node in scripts of their own (`cozo_store.rs:826`), although "if any
step fails, nothing changes" (`traits.rs:186`).

Met while modelling, reproduced by the models, not stated as a run:

* **Switching.** After a restart the cache is empty; the first switch away from an
  agent saves that (`switcher.rs:62`) over the agent's row, although "the old agent's
  state must be fully recoverable" (`traits.rs:320`). A failed load followed by a
  switch does the same. An entry put while its agent is being switched away is in
  neither the cache nor the row; entries put under the outgoing agent after its drain
  stay live; `get` answers from L0 when L1 has the later entry.
* **Consolidation.** Every phase is awaited with `?` (`scheduler.rs:141-178`) under a
  comment that says a failure "does not prevent subsequent phases from running". A
  distilled memory has the scope of its cluster's first entry and the content of all
  (`wkd.rs:294`), although "any other code path that writes `scope = Shared` is a bug"
  (`promotion.rs:7`). Decay multiplies by the days since `accessed_at`, which nothing
  moves, at every pass (`decay.rs:126`): the loss compounds, where `config.rs:94` calls
  the rate daily. Archiving writes 0.0, below the floor of `config.rs:96`
  (`decay.rs:143`), and the next pass lifts it to the floor again. A stale page of a
  decay pass overwrites what an overlapping cycle archived (`decay.rs:155`), and under
  overlap a promotion applies criteria to an old copy (`auto_promote.rs:94`):
  `ImportanceNeverRises` and `PromotionIsEarned` are stated for cycles that do not
  overlap, which no code enforces. `min_access_count` (`config.rs:80`) is not used by
  `auto_promote.rs:44-49`; a demotion is undone by the next cycle; archived originals
  are clustered again (`wkd.rs:282`); a memory inserted between two pages shifts them,
  so that a memory can be read twice and merged with itself (`wkd.rs:110`); a deletion
  can be overtaken by the insertion of the distilled memory (`wkd.rs:308`).
* **Graph.** The trait's traversal is "scoped to agent + shared" (`traits.rs:159`), but
  SQLite loads the node it starts at without the scope (`sqlite_store.rs:318`), and CozoDB
  goes on through nodes the agent does not see: `BackendsAgree` says that this is all they
  differ in. A pass for an agent reweights other agents' edges between nodes it sees, for
  `edges_of` takes no agent (`graph_evolution.rs:203`), and a merge in SQLite deletes
  duplicates and loops in the whole table (`sqlite_store.rs:629`): `OthersUntouched` is of
  nodes. CozoDB keeps edges whose ends are gone.
* **Chat sessions.** Overlapping requests lose a stored turn (`chat.rs:300`). A client
  that follows up a new chat before the spawned write has run gets "Session not
  found"; a pending write undoes a deletion or a rename. A newest message larger than
  the token budget leaves no history at all (`session/mod.rs:90`).
* **Scheduler.** An edit saves the row it read: it re-creates a deleted task and takes
  `next_run` back; `update_last_run` uses the schedule of the engine's copy; an
  execution recorded for a deleted task stays. A row stays "running" after a crash, when
  an executor panics, and when a trigger's handler is dropped between the record and the
  spawn (`handlers/scheduler.rs:247`, `255`). A panicking executor of a due task ends the
  engine, and nothing notices. `wake()` is for "after creating/updating/deleting a task"
  (`engine.rs:53`), but a deletion does not call it, and a handler dropped after its
  save never gets to it. "Run every N seconds" (`task.rs:42`) is kept by the times a pass
  takes for its runs; the runs start after what the pass ran before them, so two starts
  may be closer than N seconds: `RunTimesAreSpaced` is of the times. The
  interval is cast from `u64` to `i64` (`task.rs:47`): a huge one is negative, and the
  task always due, or makes chrono panic; with 0 the task is always due.
* **Retrieval.** A memory demoted after it was indexed is found by its index entry or
  graph node of before and shown to agents it is now private from (`hybrid.rs:192`;
  `promotion.rs:76` promises otherwise): `ShownIsVisible` excepts exactly these.
  `clear_all_data` does not clear the full-text index. Multimodal rows are never
  indexed, and their bytes are decoded after the row is inserted.
* **Tags.** "How many memory entries carry this tag" (`core/tag.rs`) is 2 for a new tag
  after one document, which upserts it twice.
* **Chunking.** With a sentence longer than the target less the overlap (usual for
  Chinese, whose full stop no space follows, so that a paragraph is one sentence) a
  chunk is emitted that consists of the previous one's overlap; an overlap without a
  space in it is cut inside a word, and a placeholder torn so is never restored
  (`chunker.rs:170`, `chunker.rs:38`); the break before a paragraph that is split
  becomes a space; a chunk's labels are looked for in its first sentence, which is the
  one carried over.
* **Profiles and prompts.** A block's content "always equals
  `variants[selected_variant]`" (`prompt/types.rs:33`) only if clients send it so: blocks
  are stored unchecked (`handlers/prompts.rs:152`, `244`, `292`), and a test has one that
  shows `variant 0` and sends `variant 1` (`prompt/engine.rs:676`). A block whose selection is one past
  its variants shows and sends its content, until `add_variant` makes it send the new
  variant; `ContentIsActive` says that the copies part in no other way. Two blocks may have
  one id: an edit reaches the first of them, a deletion both. Saving a configuration
  clears what the request leaves out. Refusing a variant of a block that has none
  underflows (`handlers/prompts.rs:440`). Overlapping edits lose one another's fields
  (`handlers/agent.rs:247`, `handlers/prompts.rs`), and an update brings a deleted agent
  back. Deleting an agent leaves its prompt configuration, diary, sessions and
  memories. The default personas are seeded at every start (`state.rs:223`), though
  "seeded on first run" (`defaults.rs:1`), and over a persona that cannot be read. A preset without content, a configuration
  with all blocks disabled and an original without `{{user_message}}` send a prompt
  without the message. A configuration that cannot be read counts as none. Variables
  are replaced in the order of a hash map, so that a value that contains another
  variable is expanded or not. `render_section` cuts at a byte offset and panics
  inside a character (`prompt/engine.rs:422`), as the audit preview does after the
  write was spawned; a long line without a break leaves only the heading.
* **Pool, traces, audit.** The number of vectors in an answer is not compared with the
  number of texts; answers that cannot be parsed are not counted as errors;
  `retry_count` of a trace is always 0; an empty batch is traced and not counted;
  a trace capacity of 0 panics under the lock (`trace.rs:70`), one of the audit log
  keeps an event. Overlapping requests may store events out of the order of their ids
  (`audit.rs:241`); a query's event type `encode` or `ingest` is not parsed.
* **Diary.** Nothing compares entries (`chat.rs:338`, `diary_generator.rs:60`): the model
  is shown those the turn read and asked for new ones, and its list is taken as it is.
  One answer may list an entry twice, and overlapping turns of one agent may note the
  same thing; no property is stated of it.

## 5. What is proved

The eight modules named `...Proofs` are checked by TLAPS to the last leaf. They hold for
any sets of agents, ids, sessions, titles, callers, tasks, nodes and edges, any set of
faults, and any bound. The assumptions are the named ones of the modules they extend
(`MemoryCacheAssumption`, `AgentSwitchAssumption` and so on): that `NoEntry` is no
entry, `NoAgent` no agent, `NoRow` no row, and that the switches and bounds of the model
have their type. `RetrievalAssumption` says besides that the documents stored before the
start fit the table, `ChunkingAssumption` that a document is a sequence of paragraphs of
non-empty sentences, `TagAssumption` that there are finitely many labels.
Six theorems have a hypothesis of their own, and do not hold without it (section 4):
`ArchivingLosesNothing` that clients do not purge memories, which may be the distilled
ones; `ImportanceFalls` and `PromotionsAreEarned` that cycles do not overlap; and
`OneLiveAllKept`, `ContextsKept` and `LogKept` that the client waits for its calls, the
first two also that nothing but a save fails.

**AgentSwitch.** `TypeCorrect` is inductive as it stands. `CacheIsolation`,
`SnapshotIsolation` and `SnapshotReplay` are not: a buffer filled from one agent's
keys could be saved to another's row. The inductive invariant `IsolationInv` adds
`BuffersIsolated` (the entries a call holds belong to the agent its phase will write
them for) and `BuffersReplayable` (they have at most one version per id and layer,
and between the two collections only L0 entries). The step lemmas go action by
action; `RestoreEntry` is the one that needs both halves.

**AgentSession.** `SessionImplementsSwitcher` shows that the client only restricts
the switcher: `SessionSpec => Spec`. `SessionIsolation` follows. `UnexposedRecovery`
is the main result: *overlapping one switch or eviction with the client's own
operations loses nothing that was put before it*. Its invariant `SessionInv` says
where such an entry is at each phase:

* `VersionsKnown`, `OwnedInPlace`: every version in sight has been given out, and
  what the client owns at a place belongs there;
* `ContestedIsExposed`: either everything is exposed, or one call runs and, if it
  is a switch, it switches away from the active agent;
* `UnexposedInPlace`: an unexposed entry of an agent other than the active one is
  in its row; of the active agent it is in the cache until the row is written and
  in the row from then on (`InItsPlace`); a collection that has passed its layer
  has it, and a restore that brings its agent back either has it still to put or
  has put it, and has no other version to overwrite it with (`InItsBuffer`).

`CallKeepsPlace` proves it for the steps of the one running call, `PlaceStep` for
everything else. TLC checked each conjunct on the instance of `SessionOverlapped`
before it was proved.

`OneLiveAllKept` and `ContextsKept` are about the client that waits, and about failing saves
(`Waits`); a crash loses the cache, and a failing load what the row held. `WaitingInv`
adds that one call runs at a time (`OneCall`); that only the active agent has entries in
the cache, and during a switch only the outgoing one under keys not yet drained, then
only the incoming one (`LiveInPlace`); and that the buffer holds every entry of the
layers collected so far that is still in the cache (`BufferComplete`). `ContextsKept` is the refinement of
`AgentContexts`, step by step. `Context(a, l, m)` is read from the cache, the buffer or
the row depending on the phase; `ContextsAre` says which (`PhaseContext`). A put is the
abstract `Put`, the end of a restore the abstract `SwitchTo`, and each other step an
abstract `Forget`: TLAPS has to see for each phase that no context gains or alters an
entry (`KeptOrForgotten`), and that every entry still owed is in its context afterwards
(`OwedInContext`), which is where `LiveInPlace` and `BufferComplete` are needed: a phase
that dropped an entry the client did not release would break it.

**ChatSessions and ChatHistory.** None of the four safety properties is inductive, for each speaks of
rows and is broken through the copies requests hold. `Versions(s)` is the row of s
with all copies of it in flight; `VersionStep` says where each version after a step
comes from: an earlier one, nothing (a session nobody has used), or the one answer
of the step (`OneAnswer`). On it rest:

* `GoneInv` (`QuietDeletions`): nothing at all is under way for a session deleted in
  quiet, and a request needs the row to begin;
* `OrderInv` (`ChatOrder`): every version, not only the row, is in order and shares
  no turn with a version of another session;
* `AloneInv` and `KeptInv` (`UncontestedTurns`): a call or write that met no other
  request is alone on its session, so the turn it lands is in every version from
  then on;
* `NamedInv` (`QuietRenames`): every version has the title given in quiet.

`LogKept` is the refinement of `ChatLog` by requests that wait (`~Overlap`). Nothing is
ever contested then, so `AloneInv` gives each session to one call or one write at a
time; `WaitingInv` adds that the copy a call works on still is the stored session. The
log a client sees is the spawned write, or the row; answering appends to it
(`AnswerIsAbstract`), the write stores it or loses it (`WriteIsAbstract`), a crash loses all
that was not stored.

`HistoryStaysNewest` is about the value of a recursion. `Stands` says of each step of the
reading that what is kept is the newest messages, that the budget left is the limit less
what they cost, and, if the reading has ended, that one message more would exceed it. It is
carried along the reading by induction; that no longer run fits either then follows because
costs only rise (`CostsRise`).

**TaskScheduler.** All five safety properties hold for any number of tasks, requests
and bounds. `ChangesAreSignalled` is inductive: a wake-up is only ever spent by the reading of the
list that makes it superfluous, or that fails. It is of requests that were answered; of
one dropped between its save and `wake()` it says nothing. `RunningIsOwned` is inductive
given that executions are numbered from 1: a dropped trigger, a panic and a crash are
what makes a row `leaked`.
`QuietDeletionsHold` needs to know that nobody holds a copy: `WorkBegins` says that work
on a task begins from its row or its creation, `RowsBegin` and `ExecsBegin` where rows
and executions come from, and `GoneInv` follows for every action at once. `RunTimesAreSpaced`
compares the time of a pass with that of the run before; `SpacingInv`
says that, unless the task was freed, its row's next run, or that of the one copy the
engine may still start (`ListOnce`), is when the next run may follow, and that a run in
progress will write just that. `DueIsRun` is liveness and stays with TLC.

**KnowledgeGraph.** `GraphTyped` is inductive. `LinksSurviveMerges` says that in any
graph a merge keeps linked whatever was linked, by paths that avoid the absorbed node.
Two nodes are linked when no set closed under the edges (`Closed`) separates them,
which states reachability without recursion. For the proof a set closed in the merged
graph is widened by the absorbed node when it holds the surviving one; the widened set
is closed in the original graph, whichever edges the merge has dropped, because it
dropped only self-loops and duplicates. With `ImplementsGraph` this is a property of both
backends.

**GraphEvolution.** `TypeInv` ties the method a caller is in to the work it does for it, and
says that ids in the store, in calls and in pairs were given out; edges that the store begins
with are numbered like those that follow. `GraphEvolutionTyped` is its first conjunct.

* `StoresImplementGraph`: `AloneInv` says what a CozoDB method that is alone has done so far,
  on the graph it began with: at each script of a merge which edges are removed, which it
  holds, and which are back (`RestoredTo`: each edge of that graph is held, is back redirected,
  was a loop, or has a duplicate that is back). As `Promised` is the graph before, every script
  but the last is a stutter; the last completes one operation of the trait (`ScriptMaps`). A
  merge of SQLite must keep, of edges that become duplicates, exactly one; it keeps the one of
  the least id, which exists by `Least`.
* `PassesOwnTheirNodes` holds also where methods overlap and fail, when stale rows are
  written. `OwnInv` is why: all rows of a node, in the store and in calls, are of one agent,
  and a merging pass has only nodes of agents it sees in its pairs and its call.
* `LinksStayAnchored` is inductive with the types: no statement of SQLite takes a node
  away before its edges, and the two that could attach an edge to nothing are guarded.
* `TraversalsFindPaths` is about the graph, not the steps: the levels of the search, for one
  and two hops, are what is next to the start and what is next to that (`LevelsAre`), and so
  are the ends of paths (`ReachedIs`). It holds for any start, seen by the agent or not, and
  for any nodes, edges and agents, but only for the one and two hops the property speaks of.

**Retrieval.** One invariant, `IInv`, carries all three properties. `ShownIsVisible` is
about answers, but an answer is made from keys of the index and hits of the table in
several steps; `SearchInv` says of each phase that what the request holds may be seen by
its agent, whether the row has been read yet or not, and that it holds nothing twice
(`Visible`, `Once`). Soundness of the answers and of the derived indexes needs to know
what the indexes can hold: `KnownInv` says that entries of the indexes, and those that
ingestions in progress carry to them, determine their row by their id and were all
numbered; `StoredInv` that those of requests past their insertion have a row or had one.
`AcceptedInv` links what clients were told to the committed documents. Each step is first
reduced to what it does to these sets (`AllPending`, `AllWritten`), then the conjuncts
follow for all steps alike.

**Consolidation.** A cycle works on pages of copies. `CopiesInv` says what a copy still
tells of its row however late it is used: the content, the day, and whether it is a
distilled memory; `Kept` what every step of every task leaves of a row. From it,
`KeptInv` (`ArchivingLosesNothing`): what is about to be archived has a distilled memory
that says as much, whatever relation the likeness of memories is. That depends on the clustering: `Seeding` is recursive over the
memories read, and its clusters consist of these. Lists sorted by the model's order are
functions of a rank; `Ranks` shows that a finite set under a strict total order has an
element at each rank. `AloneInv` (`ImportanceFalls`, `PromotionsAreEarned`) says that
without overlap the copies that decay and promotion have yet to work through have the
importance of their rows, each row once. The pages of WKD promise nothing of the kind and
are not in `UpToDate`.

**TagExtraction.** An extraction finds, writes, finds again and counts in separate
statements. `SeenInv` follows every id to a *face*, a label and an agent, wherever it is
held, and shows that an id has one; `KnownInv` that an id in a memory or in a job was
written to the table and, if it is not there, was lost by a failed write in between;
`PairedInv` that ids counted together have faces of one agent, which is why no count ever
exceeds those of its tags; `AloneInv` that an extraction that is alone acts on the row it
found.

**Chunking.** `ChunksStaySound` says of every text, of any size, and of all settings that
no word is lost and no chunk is much longer than asked for. The other two hold only under
conditions, which are part of the property, and the code breaks them otherwise (section
4): that no region is cut, if every word is shorter than the overlap and no paragraph is a
single word (`RegionsWhole`), and that each chunk ends later in the document than the one
before, if every sentence fits beside the overlap (`EachBringsMore`). `Chunks` recurses over the paragraphs of a text and
`AddParagraph` over the sentences of one; the invariant of both has two parts.

* `Sized`: the chunks so far and the current one keep the limit; if regions are to stay
  whole every word in them is whole, and the current one begins so that the next overlap
  cut from it will be too (`Aligned`). `Closes` says what a sentence or a paragraph added
  last must have for that: a space within the overlap.
* `Placed`: there are `Marks`, the places in the text where the chunks end, which never
  fall and strictly rise if each is to bring more; each chunk is the stretch from somewhere
  before the last mark to its own, and the current one a stretch up to what has been read.

Two steps disturb them. `Flushed` begins a chunk that has nothing new, which is why
`Placed` is told whether the current chunk must go beyond the last mark: it must where it
may be flushed, between paragraphs (`Settled`) and after every sentence (`Done`), but not
right after a flush (`Ready`), where what was carried is at most the overlap and, with the
sentence that follows, fits. And adding text extends the last stretch. That a chunk ends *later in
the document*, and not that it reads differently, is what `EachBringsMore` has to say: a
text may repeat its words, and then two chunks read alike. `AllReached` turns the marks
into the sets of places the property computes (`Reached`). What the recursive functions
compute (`Bytes`, `WordsIn`, `ParagraphOf`) is proved to be additive over concatenation.

**AgentChat.** All its properties are proved, of the whole composition: each has an invariant of
the component it is about, and `ChatInv` is their conjunction.

* `PoolFaithful`: `Progress` says how far each call is, `CountsInv` of each provider that
  its errors are of calls to it that failed or are about to and that these, with the calls
  under way, were counted as its requests, `TraceInv` that the ring holds the last
  `MaxTraces` of the calls that finished since it was cleared. `RingIsKept` and `ListedIsNewest` carry this to what the
  endpoints list by task and by model.
* `EditsStayLocal`: `EditInv` says that a copy whose row nobody wrote since differs from the row
  only in what the edit names. It is why the
  property is about edits that are not stale; of the others it does not hold (section 4).
* `PromptStaysAsShown`: `Sound` says of every configuration, stored, copied or used by a
  turn, that the two contents of a block agree or were sent apart (`KeptOrSentApart`); each
  of the eight edits is shown to keep it, an added variant because a selection within the
  variants stays what it was (`PrefixGrows`). `Sent` says of a turn that waits for its model
  which prompt it was made. That the ranks of the enabled blocks are in the blocks' order
  (`ModularShown`) is a fact about the operators.
* `AuditStaysOrdered` is about requests that do not overlap. `AloneInv`
  follows for all actions at once from `ActsAlone`: a step is of the one request under way
  or begins one while there is none. With it `AuditInv` says that the log holds the last ids
  given out, one less while an event is on its way. `Pages` shows that pages of one event, put together by the recursion of
  `FlattenSeq`, are the whole answer.

TLAPS cannot apply the library's induction theorems, whose parameter is an operator.
Where a proof needs induction over numbers it is stated of a set: a set that has 0 and,
below N, the successor of each of its members has all numbers up to N (`Least`, `Induction`,
proved from the library's fact that the subsets of a finite set are well-founded).
`RecursionExists` and `RecursionStays` derive from it
that a function recursive over the naturals exists and keeps to a set its step keeps to.
A recursive function of the model is first named as the choice of a function that satisfies
its equation, which `RecursionExists` shows to be one that does. So what it *computes*,
beyond its type, is proved: of the functions of `Chunking`, of `FlattenSeq`
(`FlattenedIs`), of the truncation of a history (`ReadingStands`), and of the levels of a
traversal (`LevelsAre`), of which there are at most two.

Only model-checked: the liveness properties (`SwitchReturns`, `CycleEnds`, `DueIsRun`), which rest on
fairness and ENABLED. Every invariant and every action property of the passing runs, and
the refinements, are theorems.

## 6. What is not modelled

`PROJECT.json` lists every component with its status. Left out are:

* *Floating-point computation*: scores, similarities, decay factors, PMI, the importance
  formula, and the analyzers (EPA, LGSRR, intent, query reshaping) that consist of
  nothing else. Where a model needs their outcome it is a level, a constant relation
  (`Alike`) or a choice.
* *Text processing* beyond the cutting of a document and the assembly of a prompt:
  tokenising, sentence splitting, parsing of model answers, rendering of templates.
* *External services*: models and encoders are a set of outcomes of an attempt;
  executors return success or failure.
* *Parts of modelled components*: LLM summaries of merged memories, user ratings and the
  Arrow conversion of rows, statistics and weights of the cache, the filter of an
  audit query by event type, `upsert_batch_tags`, and methods without a caller outside
  tests (`get_global_warehouse`, the listing and deletion of prompt configurations).
* *Unused or wiring code*: `umms-encoder` (an earlier client of the embedding service),
  the matcher of agents, the start-up code, read-only endpoints, the Python binding,
  and the desktop and web front ends.

The order of events under *overlapping* audit writers, edits that overlap, and
cycles that overlap are modelled, but most of what one would want of them does not hold
in the code; the properties state the part that does, and section 4 the rest.

What could follow: the composition of a chat turn with its session and its retrieval, which
the models have side by side.
