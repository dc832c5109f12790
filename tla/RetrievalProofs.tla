-------------------------- MODULE RetrievalProofs --------------------------
(***************************************************************************)
(* Proofs about Retrieval, for any agents, requests, faults, depth of        *)
(* diffusion and limits of the searches, any documents ingested before, and   *)
(* any bounds.                                                               *)
(***************************************************************************)
EXTENDS Retrieval, FiniteSetTheorems, TLAPS

(* What an ingestion has left to do is of its phase's kind.                   *)
Work(r) ==
    /\ r.pc = "nodes" => r.todo \subseteq r.batch
    /\ r.pc \in {"clear", "wipe"} => r.todo \subseteq Agents
    /\ r.pc \in {"seed", "seedIndex"} => r.todo \subseteq SeedRows

WorkInv == \A t \in Tasks : Work(task[t])

(* The entries a request holds: what an ingestion may still write elsewhere     *)
(* than in the table, and the node a traversal starts from.  What an ingestion  *)
(* holds may be in the table already.                                        *)
Pending(r) ==
    IF r.pc \in {"insert", "media", "index", "nodes", "file", "seedIndex"} THEN r.batch
    ELSE IF r.pc = "traverse" THEN r.at ELSE {}
Written(r) == IF r.pc \in {"index", "nodes", "file", "seedIndex"} THEN r.batch ELSE {}

AllPending == UNION {Pending(task[t]) : t \in Tasks}
AllWritten == UNION {Written(task[t]) : t \in Tasks}

Derived == docs \cup staged \cup nodes
Known == Derived \cup AllPending
Inside == Derived \cup AllWritten

(* One entry per memory, the same in the index and in the graph.             *)
KnownInv ==
    /\ \A e \in Known : e.id <= minted
    /\ \A e, f \in Known : e.id = f.id => e = f

StoredInv == \A i \in {e.id : e \in Inside} \cup files : rows[i] # NoRow

AcceptedInv == Persistent => accepted \subseteq {d.id : d \in docs}

(* A search keeps to what its agent may see, before it has read the rows too,   *)
(* and to what it has not shown.                                             *)
Visible(r) ==
    r.pc \in SearchPhases =>
        /\ \A k \in r.keys \cup r.at : MaySee(r.agent, k)
        /\ \A h \in r.hits \cup r.found :
              MaySee(r.agent, h.row) \/ h.row # [agent |-> h.key.agent, scope |-> h.key.scope]

Once(r) ==
    r.pc \in SearchPhases =>
        /\ \A k, l \in r.keys : k.id = l.id => k = l
        /\ \A h, g \in r.hits \cup r.found : h.key.id = g.key.id => h = g
        /\ \A k \in r.keys, h \in r.hits \cup r.found : k.id # h.key.id
        /\ \A h \in r.hits, g \in r.found : h.key.id # g.key.id
        /\ r.pc = "vector" => r.hits = {}
        /\ r.pc \in {"vector", "fetch"} => r.found = {}
        /\ r.pc \in {"diffuse", "traverse", "load"} => \A h \in r.hits \cup r.found : h.key.id \in r.seen
        /\ r.pc = "load" => \A k \in r.keys : k.id \in r.seen

SearchInv == \A t \in Tasks : Visible(task[t]) /\ Once(task[t])

IInv == TypeOK /\ WorkInv /\ KnownInv /\ StoredInv /\ AcceptedInv /\ SearchInv

-----------------------------------------------------------------------------
(* The operators *)

(* A request is idle, or has the fields its phase works with.                *)
LEMMA TaskIs ==
    ASSUME TypeOK, NEW t \in Tasks
    PROVE  /\ task[t].pc \in IngestPhases => task[t] \in IngestType
           /\ task[t].pc \in SearchPhases => task[t] \in SearchType
BY DEF TypeOK, Idle, IngestType, SearchType, IngestPhases, SearchPhases

(* One request's step keeps the type of all.                                 *)
LEMMA BecomesTyped ==
    ASSUME TypeOK, NEW t \in Tasks, NEW r \in {Idle} \cup IngestType \cup SearchType, Becomes(t, r)
    PROVE  /\ task' \in [Tasks -> {Idle} \cup IngestType \cup SearchType]
           /\ task'[t] = r /\ \A u \in Tasks \ {t} : task'[u] = task[u]
BY DEF TypeOK, Becomes

LEMMA IngestFields ==
    ASSUME NEW r \in IngestType
    PROVE  /\ r.pc \in IngestPhases /\ r.agent \in Agents /\ r.scope \in Scopes
           /\ r.batch \subseteq Entry /\ r.todo \subseteq Agents \cup Row \cup Entry
           /\ r.pairs \subseteq SUBSET Ids /\ r.chunks \in 0..MaxChunks
BY DEF IngestType

LEMMA SearchFields ==
    ASSUME NEW r \in SearchType
    PROVE  /\ r.pc \in SearchPhases /\ r.agent \in Agents /\ r.keys \subseteq Entry
           /\ r.seeds \subseteq Ids /\ r.at \subseteq Entry /\ r.seen \subseteq Ids
           /\ r.hits \subseteq [key : Entry, row : Row] /\ r.found \subseteq [key : Entry, row : Row]
BY DEF SearchType

(* Inserting writes rows and erases none.                                    *)
LEMMA InsertedIs ==
    ASSUME TypeOK, NEW S \in SUBSET Entry
    PROVE  /\ Inserted(S) \in [Ids -> Row \cup {NoRow, Gone}]
           /\ \A i \in Ids : rows[i] # NoRow => Inserted(S)[i] # NoRow
           /\ \A e \in S : Inserted(S)[e.id] # NoRow
<1>1. ASSUME NEW i \in Ids, \E e \in S : e.id = i
      PROVE  Inserted(S)[i] \in Row
  <2>1. PICK e \in S : e = CHOOSE d \in S : d.id = i
    BY <1>1
  <2>2. Inserted(S)[i] = [agent |-> e.agent, scope |-> e.scope]
    BY <1>1, <2>1 DEF Inserted
  <2>3. e.agent \in Agents /\ e.scope \in Scopes
    BY DEF Entry
  <2> QED
    BY <2>2, <2>3 DEF Row
<1>2. ASSUME NEW i \in Ids, ~ \E e \in S : e.id = i
      PROVE  Inserted(S)[i] = rows[i]
  BY <1>2 DEF Inserted
<1>3. DOMAIN Inserted(S) = Ids /\ Inserted(S) = [i \in Ids |-> Inserted(S)[i]]
  BY DEF Inserted
<1>4. \A e \in S : e.id \in Ids
  BY DEF Entry
<1>5. NoRow \notin Row
  BY RetrievalAssumption
<1> QED
  BY <1>1, <1>2, <1>3, <1>4, <1>5 DEF TypeOK

LEMMA HitTyped ==
    ASSUME TypeOK, NEW e \in Entry, e.id \in Stored
    PROVE  Hit(e) \in [key : Entry, row : Row] /\ Hit(e).key = e /\ Hit(e).row = rows[e.id]
BY DEF TypeOK, Hit, Stored

LEMMA AsEntryTyped ==
    ASSUME TypeOK, NEW i \in Stored
    PROVE  /\ AsEntry(i) \in Entry /\ AsEntry(i).id = i /\ i \in Ids
           /\ AsEntry(i).agent = rows[i].agent /\ AsEntry(i).scope = rows[i].scope
BY DEF TypeOK, AsEntry, Stored, Entry, Row

LEMMA AtMostIs ==
    ASSUME NEW n, NEW S, NEW T \in AtMost(n, S)
    PROVE  T \subseteq S
BY DEF AtMost, kSubset

(* A full-text search gives matching documents that its agent may see.       *)
LEMMA TextHitsAre ==
    ASSUME NEW a, NEW matching, NEW text \in TextHits(a, matching)
    PROVE  text \subseteq matching /\ \A d \in text : MaySee(a, d)
<1>1. PICK best \in AtMost(3 * TopRecall, matching) : text \in AtMost(TopRecall, {d \in best : MaySee(a, d)})
  BY DEF TextHits
<1>2. best \subseteq matching
  BY AtMostIs
<1>3. text \subseteq {d \in best : MaySee(a, d)}
  BY <1>1, AtMostIs
<1> QED
  BY <1>2, <1>3

LEMMA VectorHitsAre ==
    ASSUME NEW a, NEW near \in VectorHits(a)
    PROVE  \A i \in near : i \in Stored /\ MaySee(a, rows[i])
<1>1. near \subseteq {i \in Stored : MaySee(a, rows[i])}
  BY AtMostIs DEF VectorHits
<1> QED
  BY <1>1

(* A traversal reaches nodes of its agent, besides those it starts from.      *)
LEMMA WithinIs ==
    ASSUME NEW a, NEW S, NEW hops, NEW n \in Within(a, S, hops)
    PROVE  n \in S \/ (n \in nodes /\ n.agent = a)
BY DEF Within

-----------------------------------------------------------------------------
(* Types                                                                    *)

LEMMA InitTyped == Init => TypeOK
<1> SUFFICES ASSUME Init
             PROVE  TypeOK
  OBVIOUS
<1>1. PICK kept \in Kept :
         /\ rows = [i \in Ids |-> IF i \in DOMAIN kept THEN kept[i] ELSE NoRow]
         /\ minted = Len(kept) /\ accepted = DOMAIN kept
         /\ docs = {[id |-> i, agent |-> kept[i].agent, scope |-> kept[i].scope] : i \in DOMAIN kept}
         /\ nodes = docs
         /\ links = {{i - 1, i} : i \in 2..Len(kept)}
  BY DEF Init
<1>2. kept \in Seq(Row) /\ Len(kept) \in 0..MaxRows /\ MaxRows \in Nat /\ MaxEvents \in Nat
  BY RetrievalAssumption
<1>3. DOMAIN kept = 1..Len(kept) /\ DOMAIN kept \subseteq Ids /\ \A i \in DOMAIN kept : kept[i] \in Row
  BY <1>2 DEF Ids
<1>4. rows \in [Ids -> Row \cup {NoRow, Gone}]
  BY <1>1, <1>3
<1>5. \A i \in DOMAIN kept : [id |-> i, agent |-> kept[i].agent, scope |-> kept[i].scope] \in Entry
  BY <1>3 DEF Entry, Row
<1>6. docs \subseteq Entry /\ nodes \subseteq Entry
  BY <1>1, <1>5
<1>7. links \subseteq SUBSET Ids
  <2>1. \A i \in 2..Len(kept) : {i - 1, i} \subseteq Ids
    BY <1>2 DEF Ids
  <2> QED
    BY <1>1, <2>1
<1> QED
  BY <1>1, <1>2, <1>3, <1>4, <1>6, <1>7 DEF Init, TypeOK

(* A step of a search touches no store and no other request.                 *)
Quiet(t) ==
    /\ UNCHANGED storeVars
    /\ task'[t] \in {Idle} \cup SearchType
    /\ \A u \in Tasks \ {t} : task'[u] = task[u]

LEMMA QuietTyped ==
    ASSUME TypeOK, NEW t \in Tasks, NEW r \in {Idle} \cup SearchType, Becomes(t, r),
           UNCHANGED storeVars, UNCHANGED events
    PROVE  TypeOK' /\ Quiet(t)
BY BecomesTyped DEF TypeOK, storeVars, Quiet

LEMMA SearchStepTyped ==
    ASSUME TypeOK, NEW t \in Tasks, SearchStep(t), UNCHANGED events
    PROVE  TypeOK' /\ Quiet(t)
<1> DEFINE r == task[t]
<1>1. CASE VectorSearch(t)
  <2>1. r \in SearchType
    BY <1>1, TaskIs DEF VectorSearch, SearchPhases
  <2>2. CASE Becomes(t, Idle)
    BY <1>1, <2>2, QuietTyped DEF VectorSearch
  <2>3. CASE ~Becomes(t, Idle)
    <3>1. PICK near \in VectorHits(r.agent) :
            \E best \in AtMost(TopRecall, near \cup {d.id : d \in r.keys}) :
               Becomes(t, [r EXCEPT
                  !.pc = "fetch",
                  !.hits = {Hit(AsEntry(i)) : i \in best \cap near},
                  !.keys = {d \in @ : d.id \in best \ near}])
      BY <1>1, <2>3 DEF VectorSearch
    <3>2. PICK best : Becomes(t, [r EXCEPT
                  !.pc = "fetch",
                  !.hits = {Hit(AsEntry(i)) : i \in best \cap near},
                  !.keys = {d \in @ : d.id \in best \ near}])
      BY <3>1
    <3>3. \A i \in near : Hit(AsEntry(i)) \in [key : Entry, row : Row]
      BY VectorHitsAre, AsEntryTyped, HitTyped
    <3>4. {Hit(AsEntry(i)) : i \in best \cap near} \subseteq [key : Entry, row : Row]
      BY <3>3
    <3>5. {d \in r.keys : d.id \in best \ near} \subseteq Entry
      BY <2>1, SearchFields
    <3>6. [r EXCEPT !.pc = "fetch", !.hits = {Hit(AsEntry(i)) : i \in best \cap near},
                    !.keys = {d \in @ : d.id \in best \ near}] \in SearchType
      BY <2>1, <3>4, <3>5 DEF SearchType, SearchPhases
    <3> QED
      BY <1>1, <3>2, <3>6, QuietTyped DEF VectorSearch
  <2> QED
    BY <2>2, <2>3
<1>2. CASE Fetch(t)
  <2>1. r \in SearchType
    BY <1>2, TaskIs DEF Fetch, SearchPhases
  <2>2. PICK d \in r.keys :
           \/ /\ d.id \in Stored
              /\ Becomes(t, [r EXCEPT !.keys = @ \ {d}, !.hits = @ \cup {Hit(d)}])
           \/ Becomes(t, [r EXCEPT !.keys = @ \ {d}])
    BY <1>2 DEF Fetch
  <2>3. d.id \in Stored => Hit(d) \in [key : Entry, row : Row]
    BY <2>1, SearchFields, HitTyped
  <2>4. /\ [r EXCEPT !.keys = @ \ {d}] \in SearchType
        /\ d.id \in Stored => [r EXCEPT !.keys = @ \ {d}, !.hits = @ \cup {Hit(d)}] \in SearchType
    BY <2>1, <2>3 DEF SearchType
  <2> QED
    BY <1>2, <2>2, <2>4, QuietTyped DEF Fetch
<1>3. CASE Rerank(t)
  <2>1. r \in SearchType
    BY <1>3, TaskIs DEF Rerank, SearchPhases
  <2>2. PICK best \in SUBSET r.hits :
           \E seeds \in AtMost(IF Hops = 0 THEN 0 ELSE 5, IdsOf(best)) :
              Becomes(t, [r EXCEPT !.pc = "diffuse", !.hits = best, !.seeds = seeds,
                             !.seen = IdsOf(best)])
    BY <1>3, AtMostIs DEF Rerank
  <2>3. PICK seeds \in AtMost(IF Hops = 0 THEN 0 ELSE 5, IdsOf(best)) :
           Becomes(t, [r EXCEPT !.pc = "diffuse", !.hits = best, !.seeds = seeds,
                          !.seen = IdsOf(best)])
    BY <2>2
  <2>4. best \subseteq r.hits /\ seeds \subseteq IdsOf(best)
    BY AtMostIs
  <2>5. IdsOf(best) \subseteq Ids
    BY <2>1, <2>4, SearchFields DEF IdsOf, Entry
  <2>6. [r EXCEPT !.pc = "diffuse", !.hits = best, !.seeds = seeds, !.seen = IdsOf(best)] \in SearchType
    BY <2>1, <2>4, <2>5 DEF SearchType, SearchPhases
  <2> QED
    BY <1>3, <2>3, <2>6, QuietTyped DEF Rerank
<1>4. CASE FindNode(t)
  <2>1. r \in SearchType
    BY <1>4, TaskIs DEF FindNode, SearchPhases
  <2>2. PICK i \in r.seeds :
           \/ Becomes(t, [r EXCEPT !.pc = "traverse", !.seeds = @ \ {i},
                             !.at = {n \in nodes : n.id = i /\ n.agent = task[t].agent}])
           \/ Becomes(t, [r EXCEPT !.seeds = @ \ {i}])
    BY <1>4 DEF FindNode
  <2>3. {n \in nodes : n.id = i /\ n.agent = task[t].agent} \subseteq Entry
    BY DEF TypeOK
  <2>4. /\ [r EXCEPT !.pc = "traverse", !.seeds = @ \ {i},
                     !.at = {n \in nodes : n.id = i /\ n.agent = task[t].agent}] \in SearchType
        /\ [r EXCEPT !.seeds = @ \ {i}] \in SearchType
    BY <2>1, <2>3 DEF SearchType, SearchPhases
  <2> QED
    BY <1>4, <2>2, <2>4, QuietTyped DEF FindNode
<1>5. CASE Traverse(t)
  <2>1. r \in SearchType
    BY <1>5, TaskIs DEF Traverse, SearchPhases
  <2> DEFINE new == {n \in Within(r.agent, r.at, Hops) : n.id \notin r.seen}
  <2>2. \/ Becomes(t, [r EXCEPT !.pc = "load", !.at = {}, !.keys = new,
                          !.seen = @ \cup {n.id : n \in new}])
        \/ Becomes(t, [r EXCEPT !.pc = "diffuse", !.at = {}])
    BY <1>5 DEF Traverse, Remember
  <2>3. new \subseteq Entry
    BY <2>1, SearchFields, WithinIs DEF TypeOK
  <2>4. {n.id : n \in new} \subseteq Ids
    BY <2>3 DEF Entry
  <2> HIDE DEF new
  <2>5. /\ [r EXCEPT !.pc = "load", !.at = {}, !.keys = new,
                     !.seen = @ \cup {n.id : n \in new}] \in SearchType
        /\ [r EXCEPT !.pc = "diffuse", !.at = {}] \in SearchType
    BY <2>1, <2>3, <2>4 DEF SearchType, SearchPhases
  <2> QED
    BY <1>5, <2>2, <2>5, QuietTyped DEF Traverse
<1>6. CASE Load(t)
  <2>1. r \in SearchType
    BY <1>6, TaskIs DEF Load, SearchPhases
  <2>2. PICK d \in r.keys :
           \/ /\ d.id \in Stored
              /\ Becomes(t, [r EXCEPT !.keys = @ \ {d}, !.found = @ \cup {Hit(d)}])
           \/ Becomes(t, [r EXCEPT !.keys = @ \ {d}])
    BY <1>6 DEF Load
  <2>3. d.id \in Stored => Hit(d) \in [key : Entry, row : Row]
    BY <2>1, SearchFields, HitTyped
  <2>4. /\ [r EXCEPT !.keys = @ \ {d}] \in SearchType
        /\ d.id \in Stored => [r EXCEPT !.keys = @ \ {d}, !.found = @ \cup {Hit(d)}] \in SearchType
    BY <2>1, <2>3 DEF SearchType
  <2> QED
    BY <1>6, <2>2, <2>4, QuietTyped DEF Load
<1>7. CASE NextSeed(t)
  <2>1. r \in SearchType
    BY <1>7, TaskIs DEF NextSeed, SearchPhases
  <2>2. [r EXCEPT !.pc = "diffuse"] \in SearchType
    BY <2>1 DEF SearchType, SearchPhases
  <2> QED
    BY <1>7, <2>2, QuietTyped DEF NextSeed, Goto
<1>8. CASE Answer(t)
  <2>1. r \in SearchType
    BY <1>8, TaskIs DEF Answer, SearchPhases
  <2>2. PICK final \in AtMost(TopFinal, r.hits), found \in AtMost(MaxDiffused, r.found) :
           Becomes(t, [r EXCEPT !.pc = "answer", !.hits = final, !.found = found])
    BY <1>8 DEF Answer
  <2>3. final \subseteq r.hits /\ found \subseteq r.found
    BY AtMostIs
  <2>4. [r EXCEPT !.pc = "answer", !.hits = final, !.found = found] \in SearchType
    BY <2>1, <2>3 DEF SearchType, SearchPhases
  <2> QED
    BY <1>8, <2>2, <2>4, QuietTyped DEF Answer
<1>9. CASE Answered(t)
  BY <1>9, QuietTyped DEF Answered
<1> QED
  BY <1>1, <1>2, <1>3, <1>4, <1>5, <1>6, <1>7, <1>8, <1>9 DEF SearchStep

(* An ingestion that goes on, and the stores it may have written.             *)
OnlyIngests(t) == task'[t] \in {Idle} \cup IngestType /\ \A u \in Tasks \ {t} : task'[u] = task[u]

LEMMA WritingTyped ==
    ASSUME TypeOK, NEW t \in Tasks, NEW r \in {Idle} \cup IngestType, Becomes(t, r),
           rows' \in [Ids -> Row \cup {NoRow, Gone}], minted' \in 0..MaxRows,
           docs' \subseteq Entry, staged' \subseteq Entry, nodes' \subseteq Entry,
           links' \subseteq SUBSET Ids, files' \subseteq Ids, accepted' \subseteq Ids,
           UNCHANGED events
    PROVE  TypeOK' /\ OnlyIngests(t)
BY BecomesTyped DEF TypeOK, OnlyIngests

LEMMA CommitTyped ==
    ASSUME TypeOK, NEW new \in SUBSET Entry, Commit(new) \/ IndexFails(new)
    PROVE  docs' \subseteq Entry /\ staged' \subseteq Entry
BY DEF Commit, IndexFails, TypeOK

LEMMA NewEntriesTyped ==
    ASSUME TypeOK, NEW t \in Tasks, task[t] \in IngestType, NEW n \in Nat, minted + n <= MaxRows
    PROVE  /\ NewEntries(t, n) \subseteq Entry
           /\ \A e \in NewEntries(t, n) : e.id \in (minted + 1)..(minted + n)
           /\ \A e, f \in NewEntries(t, n) : e.id = f.id => e = f
<1>1. task[t].agent \in Agents /\ task[t].scope \in Scopes
  BY IngestFields
<1>2. minted \in Nat /\ MaxRows \in Nat
  BY RetrievalAssumption DEF TypeOK
<1>3. (minted + 1)..(minted + n) \subseteq Ids
  BY <1>2 DEF Ids
<1> QED
  BY <1>1, <1>3 DEF NewEntries, Entry

LEMMA IngestStepTyped ==
    ASSUME TypeOK, WorkInv, NEW t \in Tasks, IngestStep(t), UNCHANGED events
    PROVE  TypeOK' /\ OnlyIngests(t)
<1> DEFINE r == task[t]
<1> USE DEF TypeOK
<1>1. CASE Encode(t)
  <2>1. r \in IngestType
    BY <1>1, TaskIs DEF Encode, IngestPhases
  <2>2. CASE UNCHANGED minted /\ Becomes(t, Idle)
    BY <1>1, <2>2, WritingTyped DEF Encode
  <2>3. ASSUME NEW n \in 0..r.chunks, minted + n <= MaxRows, minted' = minted + n,
               Becomes(t, [r EXCEPT !.pc = "insert", !.batch = NewEntries(t, n)])
        PROVE  TypeOK' /\ OnlyIngests(t)
    <3>1. n \in Nat /\ minted \in Nat /\ MaxRows \in Nat
      BY <2>1, IngestFields, RetrievalAssumption
    <3>2. NewEntries(t, n) \subseteq Entry
      BY <2>1, <2>3, <3>1, NewEntriesTyped
    <3>3. [r EXCEPT !.pc = "insert", !.batch = NewEntries(t, n)] \in IngestType
      BY <2>1, <3>2 DEF IngestType, IngestPhases
    <3>4. minted' \in 0..MaxRows
      BY <2>3, <3>1
    <3>5. UNCHANGED <<rows, docs, staged, nodes, links, files, accepted>>
      BY <1>1 DEF Encode
    <3> QED
      BY <2>3, <3>3, <3>4, <3>5, WritingTyped
  <2> QED
    BY <1>1, <2>2, <2>3 DEF Encode
<1>2. CASE InsertBatch(t) \/ InsertMedia(t)
  <2>1. r \in IngestType
    BY <1>2, TaskIs DEF InsertBatch, InsertMedia, IngestPhases
  <2>2. r.batch \subseteq Entry
    BY <2>1, IngestFields
  <2>3. \A p \in {"index", "file"} : [r EXCEPT !.pc = p] \in IngestType
    BY <2>1 DEF IngestType, IngestPhases
  <2>4. rows' \in [Ids -> Row \cup {NoRow, Gone}]
    BY <1>2, <2>2, InsertedIs DEF InsertBatch, InsertMedia
  <2> QED
    BY <1>2, <2>3, <2>4, WritingTyped DEF InsertBatch, InsertMedia, Goto
<1>3. CASE IndexBatch(t)
  <2>1. r \in IngestType
    BY <1>3, TaskIs DEF IndexBatch, IngestPhases
  <2>2. r.batch \subseteq Entry
    BY <2>1, IngestFields
  <2>3. docs' \subseteq Entry /\ staged' \subseteq Entry
    BY <1>3, <2>2, CommitTyped DEF IndexBatch
  <2>4. accepted' \subseteq Ids
    BY <1>3, <2>2 DEF IndexBatch, Entry
  <2>5. [r EXCEPT !.pc = "nodes", !.todo = r.batch] \in IngestType
    BY <2>1, <2>2 DEF IngestType, IngestPhases
  <2> QED
    BY <1>3, <2>3, <2>4, <2>5, WritingTyped DEF IndexBatch
<1>4. CASE BuildNode(t)
  <2>1. r \in IngestType /\ r.pc = "nodes"
    BY <1>4, TaskIs DEF BuildNode, IngestPhases
  <2>2. PICK e \in r.todo :
          /\ \/ nodes' = nodes \cup {e}
             \/ "graph" \in Faults /\ UNCHANGED nodes
          /\ Becomes(t, [r EXCEPT !.todo = @ \ {e}])
    BY <1>4 DEF BuildNode
  <2>3. [r EXCEPT !.todo = @ \ {e}] \in IngestType /\ e \in Entry
    BY <2>1, IngestFields DEF IngestType, WorkInv, Work
  <2> QED
    BY <1>4, <2>2, <2>3, WritingTyped DEF BuildNode
<1>5. CASE PlanLinks(t)
  <2>1. r \in IngestType
    BY <1>5, TaskIs DEF PlanLinks, IngestPhases
  <2>2. Consecutive(t) \subseteq SUBSET Ids /\ Apart(t) \subseteq SUBSET Ids
    BY <2>1, IngestFields DEF Consecutive, Apart, kSubset, Entry
  <2>3. PICK sharing \in SUBSET Apart(t) :
           Becomes(t, [r EXCEPT !.pc = "links", !.pairs = Consecutive(t) \cup sharing])
    BY <1>5 DEF PlanLinks
  <2>4. [r EXCEPT !.pc = "links", !.pairs = Consecutive(t) \cup sharing] \in IngestType
    BY <2>1, <2>2, <2>3 DEF IngestType, IngestPhases
  <2> QED
    BY <1>5, <2>3, <2>4, WritingTyped DEF PlanLinks, storeVars
<1>12. CASE AddLink(t)
  <2>1. r \in IngestType
    BY <1>12, TaskIs DEF AddLink, IngestPhases
  <2>2. PICK l \in r.pairs : links' \subseteq links \cup {l} /\ Becomes(t, [r EXCEPT !.pairs = @ \ {l}])
    BY <1>12 DEF AddLink
  <2>3. [r EXCEPT !.pairs = @ \ {l}] \in IngestType /\ links' \subseteq SUBSET Ids
    BY <2>1, <2>2, IngestFields DEF IngestType
  <2> QED
    BY <1>12, <2>2, <2>3, WritingTyped DEF AddLink
<1>6. CASE StoreFile(t)
  <2>1. r \in IngestType
    BY <1>6, TaskIs DEF StoreFile, IngestPhases
  <2>2. files' \subseteq Ids
    BY <1>6, <2>1, IngestFields DEF StoreFile, Entry
  <2> QED
    BY <1>6, <2>2, WritingTyped DEF StoreFile
<1>7. CASE ClearAgent(t)
  <2>1. r \in IngestType
    BY <1>7, TaskIs DEF ClearAgent, IngestPhases
  <2>2. PICK a \in r.todo : Becomes(t, [r EXCEPT !.todo = @ \ {a}])
    BY <1>7 DEF ClearAgent
  <2>3. [r EXCEPT !.todo = @ \ {a}] \in IngestType
    BY <2>1 DEF IngestType
  <2>4. rows' \in [Ids -> Row \cup {NoRow, Gone}]
    BY <1>7 DEF ClearAgent
  <2> QED
    BY <1>7, <2>2, <2>3, <2>4, WritingTyped DEF ClearAgent
<1>8. CASE ClearGraph(t)
  <2>1. r \in IngestType
    BY <1>8, TaskIs DEF ClearGraph, IngestPhases
  <2>2. [r EXCEPT !.pc = "seed", !.todo = SeedRows] \in IngestType
    BY <2>1, RetrievalAssumption DEF IngestType, IngestPhases
  <2>3. nodes' \subseteq Entry /\ links' \subseteq SUBSET Ids
    BY <1>8 DEF ClearGraph
  <2> QED
    BY <1>8, <2>2, <2>3, WritingTyped DEF ClearGraph
<1>9. CASE SeedInsert(t)
  <2>1. r \in IngestType /\ r.pc = "seed"
    BY <1>9, TaskIs DEF SeedInsert, IngestPhases
  <2>2. minted \in Nat /\ MaxRows \in Nat /\ minted < MaxRows /\ minted' = minted + 1
    BY <1>9, RetrievalAssumption DEF SeedInsert
  <2> DEFINE e(w) == [id |-> minted + 1, agent |-> w.agent, scope |-> w.scope]
  <2>3. PICK w \in r.todo :
          \/ /\ rows' = Inserted({e(w)})
             /\ Becomes(t, [r EXCEPT !.pc = "seedIndex", !.todo = @ \ {w}, !.batch = {e(w)}])
          \/ UNCHANGED rows /\ Becomes(t, [r EXCEPT !.todo = @ \ {w}])
    BY <1>9 DEF SeedInsert
  <2>4. w \in Row
    BY <2>1, RetrievalAssumption DEF WorkInv, Work
  <2>5. {e(w)} \in SUBSET Entry
    BY <2>2, <2>4 DEF Entry, Row, Ids
  <2>6. rows' \in [Ids -> Row \cup {NoRow, Gone}]
    BY <2>3, <2>5, InsertedIs
  <2>7. /\ [r EXCEPT !.pc = "seedIndex", !.todo = @ \ {w}, !.batch = {e(w)}] \in IngestType
        /\ [r EXCEPT !.todo = @ \ {w}] \in IngestType
    BY <2>1, <2>5 DEF IngestType, IngestPhases
  <2>8. minted' \in 0..MaxRows
    BY <2>2
  <2>9. UNCHANGED <<docs, staged, nodes, links, files, accepted>>
    BY <1>9 DEF SeedInsert
  <2> QED
    BY <2>3, <2>6, <2>7, <2>8, <2>9, WritingTyped
<1>10. CASE SeedIndex(t)
  <2>1. r \in IngestType
    BY <1>10, TaskIs DEF SeedIndex, IngestPhases
  <2>2. docs' \subseteq Entry /\ staged' \subseteq Entry
    BY <1>10, <2>1, IngestFields, CommitTyped DEF SeedIndex
  <2>3. [r EXCEPT !.pc = "seed"] \in IngestType
    BY <2>1 DEF IngestType, IngestPhases
  <2> QED
    BY <1>10, <2>2, <2>3, WritingTyped DEF SeedIndex, Goto
<1>11. CASE SeedDone(t) \/ LinksDone(t)
  BY <1>11, WritingTyped DEF SeedDone, LinksDone, storeVars
<1> QED
  BY <1>1, <1>2, <1>3, <1>4, <1>5, <1>6, <1>7, <1>8, <1>9, <1>10, <1>11, <1>12 DEF IngestStep

LEMMA EventTyped ==
    ASSUME TypeOK, Event, events < MaxEvents, events' = events + 1
    PROVE  TypeOK'
<1>1. events' \in 0..MaxEvents
  BY RetrievalAssumption DEF TypeOK
<1> SUFFICES /\ rows' \in [Ids -> Row \cup {NoRow, Gone}] /\ minted' \in 0..MaxRows
             /\ docs' \subseteq Entry /\ staged' \subseteq Entry /\ nodes' \subseteq Entry
             /\ links' \subseteq SUBSET Ids /\ files' \subseteq Ids /\ accepted' \subseteq Ids
             /\ task' \in [Tasks -> {Idle} \cup IngestType \cup SearchType]
  BY <1>1 DEF TypeOK
<1> USE DEF TypeOK
<1>2. ASSUME NEW t \in Tasks, NEW r \in IngestType \cup SearchType, Becomes(t, r),
             minted' \in 0..MaxRows, UNCHANGED <<rows, docs, staged, nodes, links, files, accepted>>
      PROVE  /\ rows' \in [Ids -> Row \cup {NoRow, Gone}] /\ minted' \in 0..MaxRows
             /\ docs' \subseteq Entry /\ staged' \subseteq Entry /\ nodes' \subseteq Entry
             /\ links' \subseteq SUBSET Ids /\ files' \subseteq Ids /\ accepted' \subseteq Ids
             /\ task' \in [Tasks -> {Idle} \cup IngestType \cup SearchType]
  BY <1>2 DEF Becomes
<1>3. ASSUME NEW t \in Tasks, NEW a \in Agents, StartSearch(t, a)
      PROVE  \E r \in SearchType : Becomes(t, r)
  <2>1. PICK matching \in SUBSET docs : \E text \in TextHits(a, matching) :
          Becomes(t, [pc |-> "vector", agent |-> a, keys |-> text, seeds |-> {}, at |-> {},
                      seen |-> {}, hits |-> {}, found |-> {}])
    BY <1>3 DEF StartSearch
  <2>2. PICK text \in TextHits(a, matching) :
          Becomes(t, [pc |-> "vector", agent |-> a, keys |-> text, seeds |-> {}, at |-> {},
                      seen |-> {}, hits |-> {}, found |-> {}])
    BY <2>1
  <2>3. text \subseteq Entry
    BY TextHitsAre
  <2> QED
    BY <2>2, <2>3 DEF SearchType, SearchPhases
<1>4. ASSUME NEW a \in Agents, NEW s \in Scopes, NEW p \in IngestPhases
      PROVE  Ingesting(a, s, p) \in IngestType
  BY RetrievalAssumption DEF Ingesting, IngestType
<1>5. ASSUME NEW t \in Tasks, NEW a \in Agents, NEW s \in Scopes, StartIngest(t, a, s)
      PROVE  \E r \in IngestType : Becomes(t, r)
  <2>1. PICK n \in 1..MaxChunks : Becomes(t, [Ingesting(a, s, "encode") EXCEPT !.chunks = n])
    BY <1>5 DEF StartIngest
  <2>2. n \in 0..MaxChunks
    BY RetrievalAssumption
  <2>3. [Ingesting(a, s, "encode") EXCEPT !.chunks = n] \in IngestType
    BY <1>4, <2>2 DEF IngestType, IngestPhases
  <2> QED
    BY <2>1, <2>3
<1>6. ASSUME NEW t \in Tasks, NEW a \in Agents, NEW s \in Scopes, StartMedia(t, a, s)
      PROVE  minted' \in 0..MaxRows /\ \E r \in IngestType : Becomes(t, r)
  <2>1. minted \in Nat /\ MaxRows \in Nat /\ minted < MaxRows /\ minted' = minted + 1
    BY <1>6, RetrievalAssumption DEF StartMedia
  <2>2. {[id |-> minted + 1, agent |-> a, scope |-> s]} \subseteq Entry
    BY <2>1 DEF Entry, Ids
  <2>3. [Ingesting(a, s, "media") EXCEPT
            !.batch = {[id |-> minted + 1, agent |-> a, scope |-> s]}] \in IngestType
    BY <1>4, <2>2 DEF IngestType, IngestPhases
  <2> QED
    BY <1>6, <2>1, <2>3 DEF StartMedia
<1>7. ASSUME NEW t \in Tasks, NEW p \in {"clear", "wipe"}, StartSeed(t, p)
      PROVE  \E r \in IngestType : Becomes(t, r)
  <2>1. Ingesting(ClearFirst, Shared, p) \in IngestType
    BY <1>4, RetrievalAssumption DEF Scopes, IngestPhases
  <2>2. [Ingesting(ClearFirst, Shared, p) EXCEPT !.todo = Agents] \in IngestType
    BY <2>1 DEF IngestType
  <2> QED
    BY <1>7, <2>2 DEF StartSeed
<1>8. CASE \E t \in Tasks : Start(t)
  BY <1>8, <1>2, <1>3, <1>5, <1>6, <1>7 DEF Start, StartSearch, StartIngest, StartMedia, StartSeed, storeVars
<1>9. ASSUME NEW i \in Ids, Promote(i)
      PROVE  rows' \in [Ids -> Row \cup {NoRow, Gone}]
  <2>1. [rows[i] EXCEPT !.scope = Shared] \in Row
    BY <1>9 DEF Promote, Stored, Row, Scopes
  <2>2. rows' = [rows EXCEPT ![i] = [rows[i] EXCEPT !.scope = Shared]]
    BY <1>9 DEF Promote
  <2> QED
    BY <2>1, <2>2
<1>10. ASSUME NEW i \in Ids, NEW a \in Agents, Demote(i, a)
       PROVE  rows' \in [Ids -> Row \cup {NoRow, Gone}]
  BY <1>10 DEF Demote, Row, Scopes
<1>11. ASSUME NEW a \in Agents, NEW s \in Scopes, Distil(a, s)
       PROVE  rows' \in [Ids -> Row \cup {NoRow, Gone}] /\ minted' \in 0..MaxRows
  <2>1. minted \in Nat /\ MaxRows \in Nat
    BY RetrievalAssumption
  <2>2. minted' \in 0..MaxRows
    BY <1>11, <2>1 DEF Distil
  <2> QED
    BY <1>11, <2>2 DEF Distil, Row
<1>12. CASE Restart
  BY <1>12 DEF Restart
<1> QED
  BY <1>8, <1>9, <1>10, <1>11, <1>12 DEF Event, Promote, Demote, Distil

LEMMA TypeStep ==
    ASSUME TypeOK, WorkInv, [Next]_vars
    PROVE  TypeOK'
<1>1. CASE UNCHANGED vars
  BY <1>1 DEF vars, storeVars, TypeOK
<1>2. CASE Next
  BY <1>2, EventTyped, IngestStepTyped, SearchStepTyped DEF Next
<1> QED
  BY <1>1, <1>2

-----------------------------------------------------------------------------
(* Ingestion                                                                *)

LEMMA WorkOfOthers ==
    ASSUME TypeOK, WorkInv, NEW t \in Tasks, NEW r, Becomes(t, r), Work(r)
    PROVE  WorkInv'
BY DEF TypeOK, WorkInv, Work, Becomes

LEMMA InitWork == Init => WorkInv
BY DEF Init, WorkInv, Work, Idle

LEMMA WorkStep ==
    ASSUME TypeOK, WorkInv, [Next]_vars
    PROVE  WorkInv'
<1>1. CASE UNCHANGED vars
  BY <1>1 DEF vars, WorkInv
<1>2. Work(Idle)
  BY DEF Work, Idle
<1>3. ASSUME NEW t \in Tasks, IngestStep(t)
      PROVE  WorkInv'
  <2> DEFINE r == task[t]
  <2>1. r \in IngestType
    BY <1>3, TaskIs DEF IngestStep, IngestPhases, Encode, InsertBatch, IndexBatch, BuildNode,
       PlanLinks, AddLink, LinksDone, InsertMedia, StoreFile, ClearAgent, ClearGraph, SeedInsert, SeedIndex, SeedDone
  <2>2. Work(r)
    BY DEF WorkInv
  <2>3. CASE Encode(t) \/ InsertBatch(t) \/ InsertMedia(t)
    <3>1. \A n : Work([r EXCEPT !.pc = "insert", !.batch = NewEntries(t, n)])
      BY <2>1 DEF Work, IngestType
    <3>2. Work([r EXCEPT !.pc = "index"]) /\ Work([r EXCEPT !.pc = "file"])
      BY <2>1 DEF Work, IngestType
    <3> QED
      BY <1>2, <2>3, <3>1, <3>2, WorkOfOthers DEF Encode, InsertBatch, InsertMedia, Goto
  <2>4. CASE IndexBatch(t)
    <3>1. Work([r EXCEPT !.pc = "nodes", !.todo = r.batch])
      BY <2>1 DEF Work, IngestType
    <3> QED
      BY <1>2, <2>4, <3>1, WorkOfOthers DEF IndexBatch
  <2>5. \A e : Work([r EXCEPT !.todo = @ \ {e}])
    BY <2>1, <2>2 DEF Work, IngestType
  <2>6. CASE BuildNode(t) \/ ClearAgent(t)
    BY <2>5, <2>6, WorkOfOthers DEF BuildNode, ClearAgent
  <2>7. CASE LinksDone(t) \/ StoreFile(t) \/ SeedDone(t)
    BY <1>2, <2>7, WorkOfOthers DEF LinksDone, StoreFile, SeedDone
  <2>11. CASE PlanLinks(t) \/ AddLink(t)
    <3>1. /\ \A s : Work([r EXCEPT !.pc = "links", !.pairs = s])
          /\ r.pc = "links" => \A s : Work([r EXCEPT !.pairs = s])
      BY <2>1 DEF Work, IngestType
    <3> QED
      BY <2>11, <3>1, WorkOfOthers DEF PlanLinks, AddLink
  <2>8. CASE ClearGraph(t)
    <3>1. Work([r EXCEPT !.pc = "seed", !.todo = SeedRows])
      BY <2>1 DEF Work, IngestType
    <3> QED
      BY <1>2, <2>8, <3>1, WorkOfOthers DEF ClearGraph
  <2>9. CASE SeedInsert(t)
    <3>1. \A w, b : Work([r EXCEPT !.pc = "seedIndex", !.todo = @ \ {w}, !.batch = b])
      BY <2>1, <2>2, <2>9 DEF Work, IngestType, SeedInsert
    <3> QED
      BY <2>5, <2>9, <3>1, WorkOfOthers DEF SeedInsert
  <2>10. CASE SeedIndex(t)
    <3>1. Work([r EXCEPT !.pc = "seed"])
      BY <2>1, <2>2, <2>10 DEF Work, IngestType, SeedIndex
    <3> QED
      BY <2>10, <3>1, WorkOfOthers DEF SeedIndex, Goto
  <2> QED
    BY <1>3, <2>3, <2>4, <2>6, <2>7, <2>8, <2>9, <2>10, <2>11 DEF IngestStep
<1>4. ASSUME NEW t \in Tasks, SearchStep(t), UNCHANGED events
      PROVE  WorkInv'
  <2>1. Work(task'[t]) /\ \A u \in Tasks \ {t} : task'[u] = task[u]
    BY <1>4, SearchStepTyped DEF Quiet, Work, Idle, SearchType, SearchPhases
  <2> QED
    BY <2>1 DEF WorkInv, Work
<1>5. CASE Event
  <2>1. ASSUME NEW t \in Tasks, NEW a \in Agents, StartSearch(t, a)
        PROVE  WorkInv'
    <3>1. PICK matching, text :
            Becomes(t, [pc |-> "vector", agent |-> a, keys |-> text, seeds |-> {}, at |-> {},
                        seen |-> {}, hits |-> {}, found |-> {}])
      BY <2>1 DEF StartSearch
    <3> QED
      BY <3>1, WorkOfOthers DEF Work
  <2>2. ASSUME NEW t \in Tasks, NEW a \in Agents, NEW s \in Scopes, StartIngest(t, a, s) \/ StartMedia(t, a, s)
        PROVE  WorkInv'
    <3>1. \A n : Work([Ingesting(a, s, "encode") EXCEPT !.chunks = n])
      BY DEF Work, Ingesting
    <3>2. \A b : Work([Ingesting(a, s, "media") EXCEPT !.batch = b])
      BY DEF Work, Ingesting
    <3> QED
      BY <2>2, <3>1, <3>2, WorkOfOthers DEF StartIngest, StartMedia
  <2>6. ASSUME NEW t \in Tasks, NEW p \in {"clear", "wipe"}, StartSeed(t, p)
        PROVE  WorkInv'
    <3>1. Work([Ingesting(ClearFirst, Shared, p) EXCEPT !.todo = Agents])
      BY DEF Work, Ingesting
    <3> QED
      BY <2>6, <3>1, WorkOfOthers DEF StartSeed
  <2>3. CASE \E i \in Ids : Promote(i) \/ \E a \in Agents : Demote(i, a)
    BY <2>3 DEF Promote, Demote, WorkInv, Work
  <2>4. CASE \E a \in Agents, s \in Scopes : Distil(a, s)
    BY <2>4 DEF Distil, WorkInv, Work
  <2>5. CASE Restart
    BY <1>2, <2>5 DEF Restart, WorkInv, Work
  <2> QED
    BY <1>5, <2>1, <2>2, <2>3, <2>4, <2>5, <2>6 DEF Event, Start
<1> QED
  BY <1>1, <1>3, <1>4, <1>5 DEF Next

-----------------------------------------------------------------------------
(* The index, the graph and the table                                       *)

LEMMA PendingOfOthers ==
    ASSUME TypeOK, NEW t \in Tasks, NEW q, Becomes(t, q)
    PROVE  /\ AllPending' \subseteq AllPending \cup Pending(q)
           /\ AllWritten' \subseteq AllWritten \cup Written(q)
<1>1. \A u \in Tasks : task'[u] = q \/ task'[u] = task[u]
  BY DEF TypeOK, Becomes
<1>2. \A u \in Tasks : /\ Pending(task'[u]) \subseteq AllPending \cup Pending(q)
                       /\ Written(task'[u]) \subseteq AllWritten \cup Written(q)
  BY <1>1 DEF AllPending, AllWritten
<1> QED
  BY <1>2 DEF AllPending, AllWritten, Pending, Written

(* What is written after the table is either known already, or of a new id.    *)
LEMMA KnownFrom ==
    ASSUME TypeOK, KnownInv, NEW new \in SUBSET Entry, minted' \in Nat, minted <= minted',
           Known' \subseteq Known \cup new,
           \A e \in new : minted < e.id /\ e.id <= minted',
           \A e, f \in new : e.id = f.id => e = f
    PROVE  KnownInv'
<1>1. Known \subseteq Entry
  BY TaskIs, IngestFields, SearchFields DEF Known, Derived, AllPending, Pending, IngestPhases, SearchPhases, TypeOK
<1>2. minted \in Nat /\ \A e \in Known \cup new : e.id \in Nat
  BY <1>1, RetrievalAssumption DEF TypeOK, Entry, Ids
<1>3. \A e \in Known, f \in new : e.id # f.id
  BY <1>2 DEF KnownInv
<1>4. \A e \in Known' : e.id <= minted'
  BY <1>2 DEF KnownInv
<1>5. \A e, f \in Known' : e.id = f.id => e = f
  BY <1>3 DEF KnownInv
<1> QED
  BY <1>4, <1>5 DEF KnownInv

(* No step forgets that a row was there.                                    *)
RowsStay == \A i \in Ids : rows[i] # NoRow => rows'[i] # NoRow

LEMMA StoredFrom ==
    ASSUME TypeOK, StoredInv, NEW new,
           RowsStay,
           Inside' \subseteq Inside \cup new, \A e \in new : rows'[e.id] # NoRow,
           files' \subseteq files \cup {e.id : e \in Inside}
    PROVE  StoredInv'
<1>1. Inside \subseteq Entry /\ files \subseteq Ids
  BY TaskIs, IngestFields DEF Inside, Derived, AllWritten, Written, IngestPhases, TypeOK
<1>2. \A e \in Inside : e.id \in Ids
  BY <1>1 DEF Entry
<1>3. \A i \in files' : rows'[i] # NoRow
  BY <1>1, <1>2 DEF StoredInv, RowsStay
<1>4. \A e \in Inside' : rows'[e.id] # NoRow
  BY <1>2 DEF StoredInv, RowsStay
<1> QED
  BY <1>3, <1>4 DEF StoredInv

LEMMA KnownKept ==
    ASSUME TypeOK, KnownInv, minted' \in Nat, minted <= minted', Known' \subseteq Known
    PROVE  KnownInv'
<1> DEFINE new == {}
<1>1. /\ new \in SUBSET Entry /\ Known' \subseteq Known \cup new
      /\ \A e \in new : minted < e.id /\ e.id <= minted'
      /\ \A e, f \in new : e.id = f.id => e = f
  OBVIOUS
<1> HIDE DEF new
<1> QED
  BY <1>1, KnownFrom

LEMMA StoredKept ==
    ASSUME TypeOK, StoredInv, RowsStay, Inside' \subseteq Inside, files' \subseteq files \cup {e.id : e \in Inside}
    PROVE  StoredInv'
<1> DEFINE new == {}
<1>1. Inside' \subseteq Inside \cup new /\ \A e \in new : rows'[e.id] # NoRow
  OBVIOUS
<1> HIDE DEF new
<1> QED
  BY <1>1, StoredFrom

LEMMA PendingIs ==
    ASSUME NEW t \in Tasks
    PROVE  Pending(task[t]) \subseteq Known /\ Written(task[t]) \subseteq Inside
BY DEF Known, Inside, AllPending, AllWritten

LEMMA CommitFrom ==
    ASSUME NEW new, Commit(new) \/ IndexFails(new)
    PROVE  docs \subseteq docs' /\ docs' \cup staged' \subseteq docs \cup staged \cup new
BY DEF Commit, IndexFails

LEMMA IngestStepFollows ==
    ASSUME TypeOK, WorkInv, KnownInv, StoredInv, AcceptedInv, NEW t \in Tasks, IngestStep(t)
    PROVE  KnownInv' /\ StoredInv' /\ AcceptedInv'
<1> DEFINE r == task[t]
<1>1. r \in IngestType
  BY TaskIs DEF IngestStep, IngestPhases, Encode, InsertBatch, IndexBatch, BuildNode,
     PlanLinks, AddLink, LinksDone, InsertMedia, StoreFile, ClearAgent, ClearGraph, SeedInsert, SeedIndex, SeedDone
<1>2. r.batch \subseteq Entry /\ minted \in Nat /\ MaxRows \in Nat
  BY <1>1, IngestFields, RetrievalAssumption DEF TypeOK
<1>3. Pending(Idle) = {} /\ Written(Idle) = {}
  BY DEF Pending, Written, Idle
<1>4. ASSUME NEW q, Becomes(t, q), Pending(q) \subseteq Known, Written(q) \subseteq Inside,
             RowsStay, minted' = minted,
             docs' \cup staged' \cup nodes' \subseteq Inside,
             files' \subseteq files \cup {e.id : e \in Inside}
      PROVE  KnownInv' /\ StoredInv'
  <2>1. Inside \subseteq Known
    BY DEF Inside, Known, AllWritten, AllPending, Written, Pending
  <2>2. Known' \subseteq Known
    BY <1>4, <2>1, PendingOfOthers DEF Known, Derived
  <2>3. Inside' \subseteq Inside
    BY <1>4, PendingOfOthers DEF Inside, Derived
  <2>4. KnownInv'
    BY <1>2, <1>4, <2>2, KnownKept
  <2>5. StoredInv'
    BY <1>4, <2>3, StoredKept
  <2> QED
    BY <2>4, <2>5
<1>5. ASSUME docs \subseteq docs', UNCHANGED accepted
      PROVE  AcceptedInv'
  BY <1>5 DEF AcceptedInv
<1>6. docs \cup staged \cup nodes \subseteq Inside
  BY DEF Inside, Derived
<1>7. Pending(r) \subseteq Known /\ Written(r) \subseteq Inside
  BY PendingIs
<1>8. UNCHANGED rows => RowsStay
  BY DEF RowsStay
<1>9. CASE Encode(t)
  <2>1. UNCHANGED <<rows, docs, staged, nodes, files, accepted>> /\ r.pc = "encode"
    BY <1>9 DEF Encode
  <2>2. CASE UNCHANGED minted /\ Becomes(t, Idle)
    BY <1>3, <1>4, <1>5, <1>6, <1>8, <2>1, <2>2
  <2>3. ASSUME NEW n \in 0..r.chunks, minted + n <= MaxRows, minted' = minted + n,
               Becomes(t, [r EXCEPT !.pc = "insert", !.batch = NewEntries(t, n)])
        PROVE  KnownInv' /\ StoredInv' /\ AcceptedInv'
    <3> DEFINE q == [r EXCEPT !.pc = "insert", !.batch = NewEntries(t, n)]
    <3>1. n \in Nat
      BY <1>1, IngestFields, RetrievalAssumption
    <3>2. /\ NewEntries(t, n) \subseteq Entry
          /\ \A e \in NewEntries(t, n) : e.id \in (minted + 1)..(minted + n)
          /\ \A e, f \in NewEntries(t, n) : e.id = f.id => e = f
      BY <1>1, <2>3, <3>1, NewEntriesTyped
    <3>3. Pending(q) = NewEntries(t, n) /\ Written(q) = {}
      BY <1>1 DEF Pending, Written, IngestType
    <3>4. Known' \subseteq Known \cup NewEntries(t, n)
      BY <2>1, <2>3, <3>3, PendingOfOthers DEF Known, Derived
    <3>5. minted' \in Nat /\ minted <= minted' /\ \A e \in NewEntries(t, n) : minted < e.id /\ e.id <= minted'
      BY <1>2, <2>3, <3>1, <3>2
    <3>6. KnownInv'
      BY <3>2, <3>4, <3>5, KnownFrom
    <3>7. Inside' \subseteq Inside
      BY <2>1, <2>3, <3>3, PendingOfOthers DEF Inside, Derived
    <3>8. StoredInv'
      BY <1>8, <2>1, <3>7, StoredKept
    <3> QED
      BY <1>5, <2>1, <3>6, <3>8
  <2> QED
    BY <1>9, <2>2, <2>3 DEF Encode
<1>10. CASE InsertBatch(t) \/ InsertMedia(t)
  <2>1. /\ UNCHANGED <<minted, docs, staged, nodes, files, accepted>> /\ r.pc \in {"insert", "media"}
        /\ \/ \E p \in {"index", "file"} : rows' = Inserted(r.batch) /\ Becomes(t, [r EXCEPT !.pc = p])
           \/ Becomes(t, Idle) /\ UNCHANGED rows
    BY <1>10 DEF InsertBatch, InsertMedia, Goto
  <2>2. CASE UNCHANGED rows /\ Becomes(t, Idle)
    BY <1>3, <1>4, <1>5, <1>6, <1>8, <2>1, <2>2
  <2>3. ASSUME NEW p \in {"index", "file"}, rows' = Inserted(r.batch), Becomes(t, [r EXCEPT !.pc = p])
        PROVE  KnownInv' /\ StoredInv' /\ AcceptedInv'
    <3> DEFINE q == [r EXCEPT !.pc = p]
    <3>1. Pending(q) = r.batch /\ Written(q) = r.batch /\ Pending(r) = r.batch
      BY <1>1, <2>1 DEF Pending, Written, IngestType
    <3>2. RowsStay /\ \A e \in r.batch : rows'[e.id] # NoRow
      BY <1>2, <2>3, InsertedIs DEF RowsStay
    <3>3. Known' \subseteq Known
      BY <1>7, <2>1, <2>3, <3>1, PendingOfOthers DEF Known, Derived
    <3>4. KnownInv'
      BY <1>2, <2>1, <3>3, KnownKept
    <3>5. Inside' \subseteq Inside \cup r.batch
      BY <2>1, <2>3, <3>1, PendingOfOthers DEF Inside, Derived
    <3>6. StoredInv'
      BY <2>1, <3>2, <3>5, StoredFrom
    <3> QED
      BY <1>5, <2>1, <3>4, <3>6
  <2> QED
    BY <2>1, <2>2, <2>3
<1>11. CASE IndexBatch(t)
  <2>1. UNCHANGED <<rows, minted, nodes, files>> /\ r.pc = "index"
    BY <1>11 DEF IndexBatch
  <2>2. Pending(r) = r.batch /\ Written(r) = r.batch
    BY <2>1 DEF Pending, Written
  <2>3. docs \subseteq docs' /\ docs' \cup staged' \subseteq docs \cup staged \cup r.batch
    BY <1>11, CommitFrom DEF IndexBatch
  <2>4. docs' \cup staged' \cup nodes' \subseteq Inside
    BY <1>6, <1>7, <2>1, <2>2, <2>3
  <2> DEFINE q == [r EXCEPT !.pc = "nodes", !.todo = r.batch]
  <2>5. Pending(q) = r.batch /\ Written(q) = r.batch
    BY <1>1 DEF Pending, Written, IngestType
  <2>6. Becomes(t, q) \/ Becomes(t, Idle)
    BY <1>11 DEF IndexBatch
  <2>7. KnownInv' /\ StoredInv'
    BY <1>3, <1>4, <1>7, <1>8, <2>1, <2>2, <2>4, <2>5, <2>6
  <2>8. accepted' \subseteq accepted \cup {e.id : e \in r.batch} /\ (r.batch \subseteq docs' \/ UNCHANGED accepted)
    BY <1>11 DEF IndexBatch, Commit
  <2>9. AcceptedInv'
    BY <2>3, <2>8 DEF AcceptedInv
  <2> QED
    BY <2>7, <2>9
<1>12. CASE BuildNode(t)
  <2>1. UNCHANGED <<rows, minted, docs, staged, files, accepted>> /\ r.pc = "nodes"
    BY <1>12 DEF BuildNode
  <2>2. PICK e \in r.todo : nodes' \subseteq nodes \cup {e} /\ Becomes(t, [r EXCEPT !.todo = @ \ {e}])
    BY <1>12 DEF BuildNode
  <2> DEFINE q == [r EXCEPT !.todo = @ \ {e}]
  <2>3. Pending(q) = Pending(r) /\ Written(q) = Written(r) /\ Written(r) = r.batch
    BY <1>1, <2>1 DEF Pending, Written, IngestType
  <2>4. e \in r.batch
    BY <2>1, <2>2 DEF WorkInv, Work
  <2>5. docs' \cup staged' \cup nodes' \subseteq Inside
    BY <1>6, <1>7, <2>1, <2>2, <2>3, <2>4
  <2>6. KnownInv' /\ StoredInv'
    BY <1>4, <1>7, <1>8, <2>1, <2>2, <2>3, <2>5
  <2> QED
    BY <1>5, <2>1, <2>6
<1>13. CASE LinksDone(t) \/ SeedDone(t)
  <2>1. UNCHANGED <<rows, minted, docs, staged, nodes, files, accepted>> /\ Becomes(t, Idle)
    BY <1>13 DEF LinksDone, SeedDone, storeVars
  <2> QED
    BY <1>3, <1>4, <1>5, <1>6, <1>8, <2>1
<1>19. CASE PlanLinks(t) \/ AddLink(t)
  <2>1. UNCHANGED <<rows, minted, docs, staged, nodes, files, accepted>>
    BY <1>19 DEF PlanLinks, AddLink, storeVars
  <2>2. PICK s, q : q \in {[r EXCEPT !.pc = "links", !.pairs = s], [r EXCEPT !.pairs = s]}
                       /\ q.pc = "links" /\ Becomes(t, q)
    BY <1>1, <1>19 DEF PlanLinks, AddLink, IngestType
  <2>3. Pending(q) = {} /\ Written(q) = {}
    BY <2>2 DEF Pending, Written
  <2> QED
    BY <1>4, <1>5, <1>6, <1>8, <2>1, <2>2, <2>3
<1>14. CASE StoreFile(t)
  <2>1. /\ UNCHANGED <<rows, minted, docs, staged, nodes, accepted>> /\ Becomes(t, Idle) /\ r.pc = "file"
        /\ files' \subseteq files \cup {e.id : e \in r.batch}
    BY <1>14 DEF StoreFile
  <2>2. r.batch \subseteq Inside
    BY <1>7, <2>1 DEF Written
  <2> QED
    BY <1>3, <1>4, <1>5, <1>6, <1>8, <2>1, <2>2
<1>15. CASE ClearAgent(t)
  <2>1. UNCHANGED <<minted, docs, staged, nodes, files, accepted>>
    BY <1>15 DEF ClearAgent
  <2>2. PICK a : Becomes(t, [r EXCEPT !.todo = @ \ {a}])
    BY <1>15 DEF ClearAgent
  <2> DEFINE q == [r EXCEPT !.todo = @ \ {a}]
  <2>3. Pending(q) = Pending(r) /\ Written(q) = Written(r)
    BY <1>1 DEF Pending, Written, IngestType
  <2>4. RowsStay
    BY <1>15, RetrievalAssumption DEF ClearAgent, RowsStay
  <2> QED
    BY <1>4, <1>5, <1>6, <1>7, <2>1, <2>2, <2>3, <2>4
<1>16. CASE ClearGraph(t)
  <2>1. UNCHANGED <<rows, minted, docs, staged, files, accepted>> /\ nodes' \subseteq nodes
    BY <1>16 DEF ClearGraph
  <2> DEFINE q == [r EXCEPT !.pc = "seed", !.todo = SeedRows]
  <2>2. Pending(q) = {} /\ Written(q) = {}
    BY <1>1 DEF Pending, Written, IngestType
  <2>3. Becomes(t, q) \/ Becomes(t, Idle)
    BY <1>16 DEF ClearGraph
  <2>4. docs' \cup staged' \cup nodes' \subseteq Inside
    BY <1>6, <2>1
  <2> QED
    BY <1>3, <1>4, <1>5, <1>8, <2>1, <2>2, <2>3, <2>4
<1>17. CASE SeedInsert(t)
  <2>1. /\ UNCHANGED <<docs, staged, nodes, files, accepted>> /\ r.pc = "seed"
        /\ minted < MaxRows /\ minted' = minted + 1
    BY <1>17 DEF SeedInsert
  <2> DEFINE e(w) == [id |-> minted + 1, agent |-> w.agent, scope |-> w.scope]
  <2>2. PICK w \in r.todo :
          \/ /\ rows' = Inserted({e(w)})
             /\ Becomes(t, [r EXCEPT !.pc = "seedIndex", !.todo = @ \ {w}, !.batch = {e(w)}])
          \/ UNCHANGED rows /\ Becomes(t, [r EXCEPT !.todo = @ \ {w}])
    BY <1>17 DEF SeedInsert
  <2>3. e(w) \in Entry /\ e(w).id = minted + 1
    BY <1>2, <2>1, RetrievalAssumption DEF WorkInv, Work, Entry, Row, Ids
  <2> DEFINE q == [r EXCEPT !.pc = "seedIndex", !.todo = @ \ {w}, !.batch = {e(w)}]
             s == [r EXCEPT !.todo = @ \ {w}]
  <2>4. Pending(s) = {} /\ Written(s) = {} /\ Pending(q) = {e(w)} /\ Written(q) = {e(w)}
    BY <1>1, <2>1 DEF Pending, Written, IngestType
  <2>5. minted' \in Nat /\ minted <= minted' /\ minted < e(w).id /\ e(w).id <= minted'
    BY <1>2, <2>1, <2>3
  <2> HIDE DEF e, q, s
  <2>6. CASE rows' = Inserted({e(w)}) /\ Becomes(t, q)
    <3>1. RowsStay /\ rows'[e(w).id] # NoRow
      BY <2>3, <2>6, InsertedIs DEF RowsStay
    <3>2. Known' \subseteq Known \cup {e(w)} /\ Inside' \subseteq Inside \cup {e(w)}
      BY <2>1, <2>4, <2>6, PendingOfOthers DEF Known, Inside, Derived
    <3>3. KnownInv'
      <4>1. \A f \in {e(w)} : minted < f.id /\ f.id <= minted'
        BY <2>5
      <4>2. {e(w)} \in SUBSET Entry /\ \A f, g \in {e(w)} : f.id = g.id => f = g
        BY <2>3
      <4> QED
        BY <2>5, <3>2, <4>1, <4>2, KnownFrom
    <3>4. StoredInv'
      <4> DEFINE new == {e(w)}
      <4>1. files' \subseteq files \cup {f.id : f \in Inside} /\ \A f \in new : rows'[f.id] # NoRow
        BY <2>1, <3>1
      <4>2. Inside' \subseteq Inside \cup new
        BY <3>2
      <4> HIDE DEF new
      <4> QED
        BY <3>1, <4>1, <4>2, StoredFrom
    <3> QED
      BY <1>5, <2>1, <3>3, <3>4
  <2>7. CASE UNCHANGED rows /\ Becomes(t, s)
    <3>1. Known' \subseteq Known /\ Inside' \subseteq Inside
      BY <2>1, <2>4, <2>7, PendingOfOthers DEF Known, Inside, Derived
    <3>2. KnownInv'
      BY <2>5, <3>1, KnownKept
    <3>3. StoredInv'
      BY <1>8, <2>1, <2>7, <3>1, StoredKept
    <3> QED
      BY <1>5, <2>1, <3>2, <3>3
  <2> QED
    BY <2>2, <2>6, <2>7 DEF q, s
<1>18. CASE SeedIndex(t)
  <2>1. UNCHANGED <<rows, minted, nodes, files, accepted>> /\ r.pc = "seedIndex"
    BY <1>18 DEF SeedIndex
  <2>2. Written(r) = r.batch
    BY <2>1 DEF Written
  <2>3. docs \subseteq docs' /\ docs' \cup staged' \subseteq docs \cup staged \cup r.batch
    BY <1>18, CommitFrom DEF SeedIndex
  <2>4. docs' \cup staged' \cup nodes' \subseteq Inside
    BY <1>6, <1>7, <2>1, <2>2, <2>3
  <2> DEFINE q == [r EXCEPT !.pc = "seed"]
  <2>5. Pending(q) = {} /\ Written(q) = {}
    BY <1>1 DEF Pending, Written, IngestType
  <2>6. Becomes(t, q)
    BY <1>18 DEF SeedIndex, Goto
  <2>7. KnownInv' /\ StoredInv'
    BY <1>4, <1>8, <2>1, <2>4, <2>5, <2>6
  <2> QED
    BY <1>5, <2>1, <2>3, <2>7
<1> QED
  BY <1>9, <1>10, <1>11, <1>12, <1>13, <1>14, <1>15, <1>16, <1>17, <1>18, <1>19 DEF IngestStep

LEMMA InitFollows == Init => KnownInv /\ StoredInv /\ AcceptedInv
<1> SUFFICES ASSUME Init
             PROVE  KnownInv /\ StoredInv /\ AcceptedInv
  OBVIOUS
<1>1. PICK kept \in Kept :
         /\ rows = [i \in Ids |-> IF i \in DOMAIN kept THEN kept[i] ELSE NoRow]
         /\ minted = Len(kept) /\ accepted = DOMAIN kept
         /\ docs = {[id |-> i, agent |-> kept[i].agent, scope |-> kept[i].scope] : i \in DOMAIN kept}
         /\ nodes = docs
  BY DEF Init
<1>2. kept \in Seq(Row) /\ Len(kept) \in 0..MaxRows /\ MaxRows \in Nat
  BY RetrievalAssumption
<1>3. DOMAIN kept = 1..Len(kept) /\ \A i \in DOMAIN kept : kept[i] \in Row /\ i \in Ids
  BY <1>2 DEF Ids
<1>4. staged = {} /\ files = {} /\ AllPending = {} /\ AllWritten = {}
  BY DEF Init, AllPending, AllWritten, Pending, Written, Idle
<1>5. Known = docs /\ Inside = docs
  BY <1>1, <1>4 DEF Known, Inside, Derived
<1>6. \A e \in docs : e.id \in DOMAIN kept
  BY <1>1
<1>7. KnownInv
  BY <1>1, <1>2, <1>3, <1>5, <1>6 DEF KnownInv
<1>8. \A i \in DOMAIN kept : rows[i] # NoRow
  BY <1>1, <1>3, RetrievalAssumption
<1>9. StoredInv
  BY <1>4, <1>5, <1>6, <1>8 DEF StoredInv
<1>10. ASSUME NEW i \in DOMAIN kept
       PROVE  \E d \in docs : d.id = i
  <2>1. [id |-> i, agent |-> kept[i].agent, scope |-> kept[i].scope] \in docs
    BY <1>1
  <2> QED
    BY <2>1
<1>11. AcceptedInv
  BY <1>1, <1>10 DEF AcceptedInv
<1> QED
  BY <1>7, <1>9, <1>11

LEMMA QuietFollows ==
    ASSUME TypeOK, KnownInv, StoredInv, AcceptedInv, NEW t \in Tasks, Quiet(t),
           Pending(task'[t]) \subseteq Known
    PROVE  KnownInv' /\ StoredInv' /\ AcceptedInv'
<1>1. UNCHANGED <<rows, minted, docs, staged, nodes, files, accepted>>
  BY DEF Quiet, storeVars
<1>2. Written(task'[t]) = {}
  BY DEF Quiet, Written, Idle, SearchType, SearchPhases
<1>3. AllPending' \subseteq AllPending \cup Known /\ AllWritten' \subseteq AllWritten
  BY <1>2 DEF Quiet, AllPending, AllWritten, Pending, Written
<1>4. Known' \subseteq Known /\ Inside' \subseteq Inside
  BY <1>1, <1>3 DEF Known, Inside, Derived
<1>5. minted' \in Nat /\ minted <= minted'
  BY <1>1, RetrievalAssumption DEF TypeOK
<1> QED
  BY <1>1, <1>4, <1>5, KnownKept, StoredKept DEF RowsStay, AcceptedInv

LEMMA EventFollows ==
    ASSUME TypeOK, KnownInv, StoredInv, AcceptedInv, Event
    PROVE  KnownInv' /\ StoredInv' /\ AcceptedInv'
<1>1. minted \in Nat /\ MaxRows \in Nat
  BY RetrievalAssumption DEF TypeOK
<1>2. ASSUME NEW t \in Tasks, NEW q, Becomes(t, q), UNCHANGED storeVars,
             q.pc \notin {"insert", "media", "index", "nodes", "file", "seedIndex", "traverse"}
      PROVE  KnownInv' /\ StoredInv' /\ AcceptedInv'
  <2>1. UNCHANGED <<rows, minted, docs, staged, nodes, files, accepted>>
    BY <1>2 DEF storeVars
  <2>2. Pending(q) = {} /\ Written(q) = {}
    BY <1>2 DEF Pending, Written
  <2>3. Known' \subseteq Known /\ Inside' \subseteq Inside
    BY <1>2, <2>1, <2>2, PendingOfOthers DEF Known, Inside, Derived
  <2>4. minted' \in Nat /\ minted <= minted'
    BY <1>1, <2>1
  <2> QED
    BY <2>1, <2>3, <2>4, KnownKept, StoredKept DEF RowsStay, AcceptedInv
<1>3. ASSUME NEW t \in Tasks, NEW a \in Agents, StartSearch(t, a)
      PROVE  KnownInv' /\ StoredInv' /\ AcceptedInv'
  <2>1. PICK matching, text :
          Becomes(t, [pc |-> "vector", agent |-> a, keys |-> text, seeds |-> {}, at |-> {},
                      seen |-> {}, hits |-> {}, found |-> {}])
    BY <1>3 DEF StartSearch
  <2>2. UNCHANGED storeVars
    BY <1>3 DEF StartSearch
  <2> QED
    BY <1>2, <2>1, <2>2
<1>4. ASSUME NEW t \in Tasks, NEW a \in Agents, NEW s \in Scopes, StartIngest(t, a, s)
      PROVE  KnownInv' /\ StoredInv' /\ AcceptedInv'
  <2>1. PICK n : Becomes(t, [Ingesting(a, s, "encode") EXCEPT !.chunks = n])
    BY <1>4 DEF StartIngest
  <2>2. [Ingesting(a, s, "encode") EXCEPT !.chunks = n].pc = "encode"
    BY DEF Ingesting
  <2>3. UNCHANGED storeVars
    BY <1>4 DEF StartIngest
  <2> QED
    BY <1>2, <2>1, <2>2, <2>3
<1>5. ASSUME NEW t \in Tasks, NEW p \in {"clear", "wipe"}, StartSeed(t, p)
      PROVE  KnownInv' /\ StoredInv' /\ AcceptedInv'
  <2>1. [Ingesting(ClearFirst, Shared, p) EXCEPT !.todo = Agents].pc = p
    BY DEF Ingesting
  <2> QED
    BY <1>2, <1>5, <2>1 DEF StartSeed
<1>6. ASSUME NEW t \in Tasks, NEW a \in Agents, NEW s \in Scopes, StartMedia(t, a, s)
      PROVE  KnownInv' /\ StoredInv' /\ AcceptedInv'
  <2> DEFINE e == [id |-> minted + 1, agent |-> a, scope |-> s]
             q == [Ingesting(a, s, "media") EXCEPT !.batch = {e}]
             new == {e}
  <2>1. Becomes(t, q) /\ minted' = minted + 1 /\ minted < MaxRows
        /\ UNCHANGED <<rows, docs, staged, nodes, files, accepted>>
    BY <1>6 DEF StartMedia
  <2>2. Pending(q) = new /\ Written(q) = {}
    BY DEF Pending, Written, Ingesting
  <2>3. /\ new \in SUBSET Entry /\ \A f, g \in new : f.id = g.id => f = g
        /\ \A f \in new : minted < f.id /\ f.id <= minted'
    BY <1>1, <2>1 DEF Entry, Ids
  <2> HIDE DEF q, new
  <2>4. Known' \subseteq Known \cup new /\ Inside' \subseteq Inside
    BY <2>1, <2>2, PendingOfOthers DEF Known, Inside, Derived
  <2>5. minted' \in Nat /\ minted <= minted'
    BY <1>1, <2>1
  <2>6. KnownInv'
    BY <2>3, <2>4, <2>5, KnownFrom
  <2>7. StoredInv'
    BY <2>1, <2>4, StoredKept DEF RowsStay
  <2> QED
    BY <2>1, <2>6, <2>7 DEF AcceptedInv
<1>7. ASSUME RowsStay, minted' \in {minted, minted + 1}, docs' \subseteq docs, staged' \subseteq staged,
             Persistent => docs' = docs, UNCHANGED <<nodes, files, accepted>>,
             UNCHANGED task \/ task' = [t \in Tasks |-> Idle]
      PROVE  KnownInv' /\ StoredInv' /\ AcceptedInv'
  <2>1. AllPending' \subseteq AllPending /\ AllWritten' \subseteq AllWritten
    BY <1>7 DEF AllPending, AllWritten, Pending, Written, Idle
  <2>2. Known' \subseteq Known /\ Inside' \subseteq Inside
    BY <1>7, <2>1 DEF Known, Inside, Derived
  <2>3. minted' \in Nat /\ minted <= minted'
    BY <1>1, <1>7
  <2> QED
    BY <1>7, <2>2, <2>3, KnownKept, StoredKept DEF AcceptedInv
<1>8. ASSUME NEW i \in Ids, Promote(i) \/ \E a \in Agents : Demote(i, a)
      PROVE  KnownInv' /\ StoredInv' /\ AcceptedInv'
  <2>1. rows'[i] # NoRow /\ \A j \in Ids \ {i} : rows'[j] = rows[j]
    <3>1. ASSUME Promote(i)
          PROVE  [rows[i] EXCEPT !.scope = Shared] \in Row
      BY <3>1 DEF Promote, Stored, TypeOK, Row, Scopes
    <3>2. \A a \in Agents : [agent |-> a, scope |-> Private] \in Row
      BY DEF Row, Scopes
    <3> QED
      BY <1>8, <3>1, <3>2, RetrievalAssumption DEF Promote, Demote, TypeOK
  <2> QED
    BY <1>7, <1>8, <2>1 DEF Promote, Demote, RowsStay
<1>9. ASSUME NEW a \in Agents, NEW s \in Scopes, Distil(a, s)
      PROVE  KnownInv' /\ StoredInv' /\ AcceptedInv'
  <2>1. [agent |-> a, scope |-> s] # NoRow
    BY RetrievalAssumption DEF Row
  <2>2. RowsStay
    BY <1>9, <2>1 DEF Distil, RowsStay, TypeOK
  <2> QED
    BY <1>7, <1>9, <2>2 DEF Distil
<1>10. CASE Restart
  BY <1>7, <1>10 DEF Restart, RowsStay
<1> QED
  BY <1>3, <1>4, <1>5, <1>6, <1>8, <1>9, <1>10 DEF Event, Start

-----------------------------------------------------------------------------
(* Searches                                                                 *)

(* What a request becomes is sound, and of what it holds to start a traversal  *)
(* from, all is known.                                                       *)
Sound(q) == Visible(q) /\ Once(q) /\ Pending(q) \subseteq Known

LEMMA BecomesIs ==
    ASSUME TypeOK, NEW t \in Tasks, NEW q, Becomes(t, q)
    PROVE  task'[t] = q
BY DEF TypeOK, Becomes

LEMMA SearchStepSound ==
    ASSUME TypeOK, KnownInv, SearchInv, NEW t \in Tasks, SearchStep(t)
    PROVE  Sound(task'[t])
<1> DEFINE r == task[t]
<1>1. r \in SearchType
  BY TaskIs DEF SearchStep, VectorSearch, Fetch, Rerank, FindNode, Traverse, Load, NextSeed, Answer,
     Answered, SearchPhases
<1>2. Visible(r) /\ Once(r) /\ r.pc \in SearchPhases
  BY <1>1, SearchFields DEF SearchInv
<1>3. Sound(Idle)
  BY DEF Sound, Visible, Once, Pending, Idle, SearchPhases
<1>4. \A q : Becomes(t, q) /\ Sound(q) => Sound(task'[t])
  BY BecomesIs
<1>5. r.keys \subseteq Entry /\ r.at \subseteq Entry /\ r.agent \in Agents
  BY <1>1, SearchFields
<1>6. CASE VectorSearch(t)
  <2>1. CASE Becomes(t, Idle)
    BY <1>3, <1>4, <2>1
  <2>2. CASE ~Becomes(t, Idle)
    <3>1. PICK near \in VectorHits(r.agent) :
            \E best \in AtMost(TopRecall, near \cup {d.id : d \in r.keys}) :
               Becomes(t, [r EXCEPT
                  !.pc = "fetch",
                  !.hits = {Hit(AsEntry(i)) : i \in best \cap near},
                  !.keys = {d \in @ : d.id \in best \ near}])
      BY <1>6, <2>2 DEF VectorSearch
    <3>2. PICK best : Becomes(t, [r EXCEPT
                  !.pc = "fetch",
                  !.hits = {Hit(AsEntry(i)) : i \in best \cap near},
                  !.keys = {d \in @ : d.id \in best \ near}])
      BY <3>1
    <3> DEFINE hits == {Hit(AsEntry(i)) : i \in best \cap near}
               keys == {d \in r.keys : d.id \in best \ near}
               q == [r EXCEPT !.pc = "fetch", !.hits = hits, !.keys = keys]
    <3>3. /\ q.pc = "fetch" /\ q.hits = hits /\ q.keys = keys /\ q.found = r.found /\ q.at = r.at
          /\ q.agent = r.agent
      BY <1>1 DEF SearchType
    <3>4. r.pc = "vector" /\ r.found = {}
      BY <1>2, <1>6 DEF VectorSearch, Once
    <3>5. \A i \in near : /\ MaySee(r.agent, Hit(AsEntry(i)).row)
                          /\ Hit(AsEntry(i)).key.id = i
      BY VectorHitsAre, AsEntryTyped, HitTyped
    <3>6. \A h \in hits : \E i \in near : h = Hit(AsEntry(i))
      OBVIOUS
    <3>7. \A k \in keys : k \in r.keys /\ k.id \notin near
      OBVIOUS
    <3> HIDE DEF hits, keys
    <3>8. Visible(q)
      BY <1>2, <3>3, <3>4, <3>5, <3>6, <3>7 DEF Visible
    <3>9. Once(q)
      BY <1>2, <3>3, <3>4, <3>5, <3>6, <3>7 DEF Once
    <3>10. Pending(q) = {}
      BY <3>3 DEF Pending
    <3> QED
      BY <1>4, <3>2, <3>8, <3>9, <3>10 DEF Sound, hits, keys
  <2> QED
    BY <2>1, <2>2
<1>7. CASE Fetch(t)
  <2>1. PICK d \in r.keys :
           \/ /\ d.id \in Stored
              /\ Becomes(t, [r EXCEPT !.keys = @ \ {d}, !.hits = @ \cup {Hit(d)}])
           \/ Becomes(t, [r EXCEPT !.keys = @ \ {d}])
    BY <1>7 DEF Fetch
  <2>2. r.pc = "fetch"
    BY <1>7 DEF Fetch
  <2> DEFINE q == [r EXCEPT !.keys = @ \ {d}, !.hits = @ \cup {Hit(d)}]
             s == [r EXCEPT !.keys = @ \ {d}]
  <2>3. /\ q.pc = "fetch" /\ q.hits = r.hits \cup {Hit(d)} /\ q.keys = r.keys \ {d} /\ q.found = r.found
        /\ q.at = r.at /\ q.agent = r.agent
        /\ s.pc = "fetch" /\ s.hits = r.hits /\ s.keys = r.keys \ {d} /\ s.found = r.found
        /\ s.at = r.at /\ s.agent = r.agent
    BY <1>1, <2>2 DEF SearchType
  <2> HIDE DEF q, s
  <2>4. Sound(s)
    BY <1>2, <2>2, <2>3 DEF Sound, Visible, Once, Pending
  <2>5. ASSUME d.id \in Stored
        PROVE  Sound(q)
    <3>1. Hit(d).key = d
      BY <1>5, <2>5, HitTyped
    <3>2. \/ MaySee(r.agent, Hit(d).row)
          \/ Hit(d).row # [agent |-> d.agent, scope |-> d.scope]
      BY <1>2 DEF Visible, MaySee
    <3>3. Visible(q)
      BY <1>2, <2>3, <3>1, <3>2 DEF Visible
    <3>4. Once(q)
      BY <1>2, <2>2, <2>3, <3>1 DEF Once
    <3> QED
      BY <2>3, <3>3, <3>4 DEF Sound, Pending
  <2> QED
    BY <1>4, <2>1, <2>4, <2>5 DEF q, s
<1>8. CASE Rerank(t)
  <2>1. PICK best \in SUBSET r.hits :
           \E seeds \in AtMost(IF Hops = 0 THEN 0 ELSE 5, IdsOf(best)) :
              Becomes(t, [r EXCEPT !.pc = "diffuse", !.hits = best, !.seeds = seeds,
                             !.seen = IdsOf(best)])
    BY <1>8, AtMostIs DEF Rerank
  <2>2. PICK seeds :
           Becomes(t, [r EXCEPT !.pc = "diffuse", !.hits = best, !.seeds = seeds,
                          !.seen = IdsOf(best)])
    BY <2>1
  <2>3. best \subseteq r.hits
    OBVIOUS
  <2>4. r.pc = "fetch" /\ r.keys = {} /\ r.found = {}
    BY <1>2, <1>8 DEF Rerank, Once
  <2> DEFINE q == [r EXCEPT !.pc = "diffuse", !.hits = best, !.seeds = seeds, !.seen = IdsOf(best)]
  <2>5. /\ q.pc = "diffuse" /\ q.hits = best /\ q.keys = {} /\ q.found = {} /\ q.at = r.at
        /\ q.agent = r.agent /\ q.seen = IdsOf(best)
    BY <1>1, <2>4 DEF SearchType
  <2> HIDE DEF q
  <2>6. Sound(q)
    BY <1>2, <2>3, <2>5 DEF Sound, Visible, Once, Pending, IdsOf
  <2> QED
    BY <1>4, <2>2, <2>6 DEF q
<1>9. CASE FindNode(t)
  <2>1. PICK i \in r.seeds :
           \/ Becomes(t, [r EXCEPT !.pc = "traverse", !.seeds = @ \ {i},
                             !.at = {n \in nodes : n.id = i /\ n.agent = task[t].agent}])
           \/ Becomes(t, [r EXCEPT !.seeds = @ \ {i}])
    BY <1>9 DEF FindNode
  <2> DEFINE at == {n \in nodes : n.id = i /\ n.agent = task[t].agent}
             q == [r EXCEPT !.pc = "traverse", !.seeds = @ \ {i}, !.at = at]
             s == [r EXCEPT !.seeds = @ \ {i}]
  <2>2. /\ q.pc = "traverse" /\ q.hits = r.hits /\ q.keys = r.keys /\ q.found = r.found
        /\ q.at = at /\ q.agent = r.agent /\ q.seen = r.seen
        /\ s.pc = r.pc /\ s.hits = r.hits /\ s.keys = r.keys /\ s.found = r.found
        /\ s.at = r.at /\ s.agent = r.agent /\ s.seen = r.seen
    BY <1>1 DEF SearchType
  <2>3. at \subseteq Known /\ \A n \in at : MaySee(r.agent, n)
    BY DEF Known, Derived, MaySee
  <2>4. r.pc = "diffuse"
    BY <1>9 DEF FindNode
  <2> HIDE DEF at, q, s
  <2>5. Sound(q) /\ Sound(s)
    BY <1>2, <2>2, <2>3, <2>4 DEF Sound, Visible, Once, Pending, SearchPhases
  <2> QED
    BY <1>4, <2>1, <2>5 DEF q, s, at
<1>10. CASE Traverse(t)
  <2> DEFINE new == {n \in Within(r.agent, r.at, Hops) : n.id \notin r.seen}
             q == [r EXCEPT !.pc = "load", !.at = {}, !.keys = new, !.seen = @ \cup {n.id : n \in new}]
             s == [r EXCEPT !.pc = "diffuse", !.at = {}]
  <2>1. (Becomes(t, q) \/ Becomes(t, s)) /\ r.pc = "traverse"
    BY <1>10 DEF Traverse, Remember
  <2>2. /\ q.pc = "load" /\ q.hits = r.hits /\ q.keys = new /\ q.found = r.found
        /\ q.at = {} /\ q.agent = r.agent /\ q.seen = r.seen \cup {n.id : n \in new}
        /\ s.pc = "diffuse" /\ s.hits = r.hits /\ s.keys = r.keys /\ s.found = r.found
        /\ s.at = {} /\ s.agent = r.agent /\ s.seen = r.seen
    BY <1>1 DEF SearchType
  <2>3. r.at \subseteq Known
    BY <2>1, PendingIs DEF Pending
  <2>4. \A n \in new : /\ n \in r.at \/ (n \in nodes /\ n.agent = r.agent)
                       /\ n.id \notin r.seen
    BY WithinIs
  <2>5. \A n \in new : n \in Known
    BY <2>3, <2>4 DEF Known, Derived
  <2>6. \A n \in new : MaySee(r.agent, n)
    BY <1>2, <2>4 DEF Visible, MaySee
  <2>7. \A n \in new : n.id \in q.seen
    BY <2>2
  <2>8. r.seen \subseteq q.seen
    BY <2>2
  <2> HIDE DEF new, q, s
  <2>9. Sound(s)
    BY <1>2, <2>1, <2>2 DEF Sound, Visible, Once, Pending, SearchPhases
  <2>10. Visible(q) /\ Pending(q) = {}
    BY <1>2, <2>2, <2>6 DEF Visible, Pending
  <2>11. Once(q)
    BY <1>2, <2>1, <2>2, <2>4, <2>5, <2>7, <2>8 DEF Once, KnownInv
  <2> QED
    BY <1>4, <2>1, <2>9, <2>10, <2>11 DEF Sound
<1>11. CASE Load(t)
  <2>1. PICK d \in r.keys :
           \/ /\ d.id \in Stored
              /\ Becomes(t, [r EXCEPT !.keys = @ \ {d}, !.found = @ \cup {Hit(d)}])
           \/ Becomes(t, [r EXCEPT !.keys = @ \ {d}])
    BY <1>11 DEF Load
  <2>2. r.pc = "load"
    BY <1>11 DEF Load
  <2> DEFINE q == [r EXCEPT !.keys = @ \ {d}, !.found = @ \cup {Hit(d)}]
             s == [r EXCEPT !.keys = @ \ {d}]
  <2>3. /\ q.pc = "load" /\ q.found = r.found \cup {Hit(d)} /\ q.keys = r.keys \ {d} /\ q.hits = r.hits
        /\ q.at = r.at /\ q.agent = r.agent /\ q.seen = r.seen
        /\ s.pc = "load" /\ s.hits = r.hits /\ s.keys = r.keys \ {d} /\ s.found = r.found
        /\ s.at = r.at /\ s.agent = r.agent /\ s.seen = r.seen
    BY <1>1, <2>2 DEF SearchType
  <2> HIDE DEF q, s
  <2>4. Sound(s)
    BY <1>2, <2>2, <2>3 DEF Sound, Visible, Once, Pending
  <2>5. ASSUME d.id \in Stored
        PROVE  Sound(q)
    <3>1. Hit(d).key = d
      BY <1>5, <2>5, HitTyped
    <3>2. \/ MaySee(r.agent, Hit(d).row)
          \/ Hit(d).row # [agent |-> d.agent, scope |-> d.scope]
      BY <1>2 DEF Visible, MaySee
    <3>3. Visible(q)
      BY <1>2, <2>3, <3>1, <3>2 DEF Visible
    <3>4. Once(q)
      BY <1>2, <2>2, <2>3, <3>1 DEF Once
    <3> QED
      BY <2>3, <3>3, <3>4 DEF Sound, Pending
  <2> QED
    BY <1>4, <2>1, <2>4, <2>5 DEF q, s
<1>12. CASE NextSeed(t)
  <2> DEFINE q == [r EXCEPT !.pc = "diffuse"]
  <2>1. Becomes(t, q) /\ r.pc = "load"
    BY <1>12 DEF NextSeed, Goto
  <2>2. /\ q.pc = "diffuse" /\ q.hits = r.hits /\ q.keys = r.keys /\ q.found = r.found
        /\ q.at = r.at /\ q.agent = r.agent /\ q.seen = r.seen
    BY <1>1 DEF SearchType
  <2> HIDE DEF q
  <2>3. Sound(q)
    BY <1>2, <2>1, <2>2 DEF Sound, Visible, Once, Pending
  <2> QED
    BY <1>4, <2>1, <2>3
<1>13. CASE Answer(t)
  <2>1. PICK final \in AtMost(TopFinal, r.hits), found \in AtMost(MaxDiffused, r.found) :
           Becomes(t, [r EXCEPT !.pc = "answer", !.hits = final, !.found = found])
    BY <1>13 DEF Answer
  <2>2. final \subseteq r.hits /\ found \subseteq r.found
    BY AtMostIs
  <2> DEFINE q == [r EXCEPT !.pc = "answer", !.hits = final, !.found = found]
  <2>3. /\ q.pc = "answer" /\ q.hits = final /\ q.keys = r.keys /\ q.found = found
        /\ q.at = r.at /\ q.agent = r.agent
    BY <1>1 DEF SearchType
  <2> HIDE DEF q
  <2>4. Sound(q)
    BY <1>2, <2>2, <2>3 DEF Sound, Visible, Once, Pending
  <2> QED
    BY <1>4, <2>1, <2>4 DEF q
<1>14. CASE Answered(t)
  BY <1>3, <1>4, <1>14 DEF Answered
<1> QED
  BY <1>6, <1>7, <1>8, <1>9, <1>10, <1>11, <1>12, <1>13, <1>14 DEF SearchStep

LEMMA InitSearch == Init => SearchInv
BY DEF Init, SearchInv, Visible, Once, Idle, SearchPhases

LEMMA EventSearch ==
    ASSUME TypeOK, KnownInv, SearchInv, Event
    PROVE  SearchInv'
<1>1. ASSUME NEW t \in Tasks, NEW q, Becomes(t, q), Visible(q), Once(q)
      PROVE  SearchInv'
  BY <1>1 DEF Becomes, TypeOK, SearchInv, Visible, Once
<1>2. ASSUME NEW t \in Tasks, NEW a \in Agents, StartSearch(t, a)
      PROVE  SearchInv'
  <2>1. PICK matching \in SUBSET docs : \E text \in TextHits(a, matching) :
          Becomes(t, [pc |-> "vector", agent |-> a, keys |-> text, seeds |-> {}, at |-> {},
                      seen |-> {}, hits |-> {}, found |-> {}])
    BY <1>2 DEF StartSearch
  <2>2. PICK text \in TextHits(a, matching) :
          Becomes(t, [pc |-> "vector", agent |-> a, keys |-> text, seeds |-> {}, at |-> {},
                      seen |-> {}, hits |-> {}, found |-> {}])
    BY <2>1
  <2>3. text \subseteq docs /\ \A d \in text : MaySee(a, d)
    BY TextHitsAre
  <2> DEFINE q == [pc |-> "vector", agent |-> a, keys |-> text, seeds |-> {}, at |-> {},
                   seen |-> {}, hits |-> {}, found |-> {}]
  <2>4. Visible(q)
    BY <2>3 DEF Visible
  <2>5. Once(q)
    BY <2>3 DEF Once, KnownInv, Known, Derived
  <2> QED
    BY <1>1, <2>2, <2>4, <2>5
<1>3. ASSUME NEW t \in Tasks, NEW q, Becomes(t, q), q.pc \in IngestPhases
      PROVE  SearchInv'
  <2>1. Visible(q) /\ Once(q)
    BY <1>3 DEF Visible, Once, IngestPhases, SearchPhases
  <2> QED
    BY <1>1, <1>3, <2>1
<1>4. ASSUME NEW t \in Tasks, NEW a \in Agents, NEW s \in Scopes, StartIngest(t, a, s) \/ StartMedia(t, a, s)
      PROVE  SearchInv'
  <2>1. \A n : [Ingesting(a, s, "encode") EXCEPT !.chunks = n].pc \in IngestPhases
    BY DEF Ingesting, IngestPhases
  <2>2. \A b : [Ingesting(a, s, "media") EXCEPT !.batch = b].pc \in IngestPhases
    BY DEF Ingesting, IngestPhases
  <2> QED
    BY <1>3, <1>4, <2>1, <2>2 DEF StartIngest, StartMedia
<1>5. ASSUME NEW t \in Tasks, NEW p \in {"clear", "wipe"}, StartSeed(t, p)
      PROVE  SearchInv'
  <2>1. [Ingesting(ClearFirst, Shared, p) EXCEPT !.todo = Agents].pc \in IngestPhases
    BY DEF Ingesting, IngestPhases
  <2> QED
    BY <1>3, <1>5, <2>1 DEF StartSeed
<1>6. CASE \/ \E i \in Ids : Promote(i) \/ \E a \in Agents : Demote(i, a)
           \/ \E a \in Agents, s \in Scopes : Distil(a, s)
  <2>1. UNCHANGED task
    BY <1>6 DEF Promote, Demote, Distil
  <2> QED
    BY <2>1 DEF SearchInv, Visible, Once
<1>7. CASE Restart
  BY <1>7 DEF Restart, SearchInv, Visible, Once, Idle, SearchPhases
<1> QED
  BY <1>2, <1>4, <1>5, <1>6, <1>7 DEF Event, Start

-----------------------------------------------------------------------------
(* The inductive invariant                                                  *)

LEMMA InitIInv == Init => IInv
BY InitTyped, InitWork, InitFollows, InitSearch DEF IInv

LEMMA IInvStep == IInv /\ [Next]_vars => IInv'
<1> SUFFICES ASSUME IInv, [Next]_vars
             PROVE  IInv'
  OBVIOUS
<1> USE DEF IInv
<1>1. TypeOK' /\ WorkInv'
  BY TypeStep, WorkStep
<1>2. CASE UNCHANGED vars
  BY <1>1, <1>2 DEF vars, storeVars, KnownInv, StoredInv, AcceptedInv, SearchInv, Known, Inside, Derived,
     AllPending, AllWritten, Pending, Written, Visible, Once
<1>3. CASE Event
  BY <1>1, <1>3, EventFollows, EventSearch
<1>4. ASSUME NEW t \in Tasks, IngestStep(t), UNCHANGED events
      PROVE  IInv'
  <2>1. SearchInv'
    BY <1>4, IngestStepTyped DEF OnlyIngests, SearchInv, Visible, Once, Idle, IngestType, IngestPhases,
       SearchPhases
  <2> QED
    BY <1>1, <1>4, <2>1, IngestStepFollows
<1>5. ASSUME NEW t \in Tasks, SearchStep(t), UNCHANGED events
      PROVE  IInv'
  <2>1. Quiet(t)
    BY <1>5, SearchStepTyped
  <2>2. Visible(task'[t]) /\ Once(task'[t]) /\ Pending(task'[t]) \subseteq Known
    BY <1>5, SearchStepSound DEF Sound
  <2>3. SearchInv'
    BY <2>1, <2>2 DEF Quiet, SearchInv, Visible, Once
  <2> QED
    BY <1>1, <2>1, <2>2, <2>3, QuietFollows
<1> QED
  BY <1>2, <1>3, <1>4, <1>5 DEF Next

THEOREM Invariance == Spec => []IInv
BY InitIInv, IInvStep, PTL DEF Spec

-----------------------------------------------------------------------------
(* The properties                                                           *)

LEMMA TextFinite ==
    ASSUME TypeOK, KnownInv
    PROVE  IsFiniteSet(docs)
<1> DEFINE f == [d \in docs |-> d.id]
<1>1. f \in [docs -> Ids]
  BY DEF TypeOK, Entry
<1>2. \A d, e \in docs : f[d] = f[e] => d = e
  BY DEF KnownInv, Known, Derived
<1>3. f \in Injection(docs, Ids)
  BY <1>1, <1>2 DEF Injection, IsInjective
<1>4. IsFiniteSet(Ids)
  BY RetrievalAssumption, FS_Interval DEF Ids
<1> QED
  BY <1>3, <1>4, FS_Injection

LEMMA MinOfTwo ==
    ASSUME NEW m \in Nat, NEW n \in Nat
    PROVE  Min({m, n}) = IF m <= n THEN m ELSE n
BY DEF Min

(* A ranking cut at n gives n of them, or all.                               *)
LEMMA AtMostSize ==
    ASSUME NEW n \in Nat, NEW S, IsFiniteSet(S), NEW T \in AtMost(n, S)
    PROVE  /\ T \subseteq S /\ IsFiniteSet(T)
           /\ Cardinality(T) = Min({n, Cardinality(S)})
           /\ Cardinality(S) <= n => T = S
           /\ n <= Cardinality(S) => Cardinality(T) = n
<1>1. T \subseteq S /\ Cardinality(T) = Min({n, Cardinality(S)})
  BY DEF AtMost, kSubset
<1>2. IsFiniteSet(T) /\ (Cardinality(S) = Cardinality(T) => S = T)
  BY <1>1, FS_Subset
<1>3. Cardinality(S) \in Nat
  BY FS_CardinalityType
<1>4. Min({n, Cardinality(S)}) = IF n <= Cardinality(S) THEN n ELSE Cardinality(S)
  BY <1>3, MinOfTwo
<1> QED
  BY <1>1, <1>2, <1>3, <1>4

LEMMA TextIsFull ==
    ASSUME NEW a, NEW matching, IsFiniteSet(matching),
           Cardinality(matching \ {d \in matching : MaySee(a, d)}) <= 2 * TopRecall,
           NEW text \in TextHits(a, matching)
    PROVE  Cardinality(text) = Min({TopRecall, Cardinality({d \in matching : MaySee(a, d)})})
<1> DEFINE own == {d \in matching : MaySee(a, d)}
           T == 3 * TopRecall
<1>1. TopRecall \in Nat /\ T \in Nat
  BY RetrievalAssumption
<1>2. PICK best \in AtMost(T, matching) : text \in AtMost(TopRecall, {d \in best : MaySee(a, d)})
  BY DEF TextHits
<1> DEFINE read == {d \in best : MaySee(a, d)}
<1>3. /\ best \subseteq matching /\ IsFiniteSet(best)
      /\ Cardinality(matching) <= T => best = matching
      /\ T <= Cardinality(matching) => Cardinality(best) = T
  BY <1>1, AtMostSize
<1>4. IsFiniteSet(own) /\ IsFiniteSet(read) /\ read \subseteq own /\ Cardinality(read) <= Cardinality(own)
  <2>1. IsFiniteSet(own) /\ read \subseteq own
    BY <1>3, FS_Subset
  <2> QED
    BY <2>1, FS_Subset
<1>5. Cardinality(text) = Min({TopRecall, Cardinality(read)})
  BY <1>1, <1>2, <1>4, AtMostSize
<1>6. Cardinality(matching) \in Nat /\ Cardinality(own) \in Nat /\ Cardinality(read) \in Nat
  BY <1>4, FS_CardinalityType
<1>7. CASE Cardinality(matching) <= T
  BY <1>3, <1>5, <1>7
<1>8. CASE T <= Cardinality(matching)
  <2>1. best \ read \subseteq matching \ own /\ IsFiniteSet(matching \ own) /\ IsFiniteSet(best \ read)
    BY <1>3, FS_Subset
  <2>2. Cardinality(best \ read) <= 2 * TopRecall /\ Cardinality(best \ read) \in Nat
    <3>1. Cardinality(best \ read) <= Cardinality(matching \ own)
      BY <2>1, FS_Subset
    <3>2. Cardinality(matching \ own) \in Nat /\ Cardinality(best \ read) \in Nat
      BY <2>1, FS_CardinalityType
    <3> QED
      BY <1>1, <3>1, <3>2
  <2>3. Cardinality(best) = Cardinality(read) + Cardinality(best \ read)
    <3>1. best \cap read = read
      OBVIOUS
    <3>2. Cardinality(best \ read) = Cardinality(best) - Cardinality(best \cap read)
      BY <1>3, FS_Difference
    <3>3. Cardinality(best) \in Nat
      BY <1>3, FS_CardinalityType
    <3>4. Cardinality(best \cap read) = Cardinality(read)
      BY <3>1
    <3> HIDE DEF read
    <3> QED
      BY <1>6, <3>2, <3>3, <3>4
  <2>4. TopRecall <= Cardinality(read)
    BY <1>1, <1>3, <1>6, <1>8, <2>2, <2>3
  <2>5. Cardinality(text) = TopRecall
    BY <1>1, <1>5, <1>6, <2>4, MinOfTwo
  <2>6. Min({TopRecall, Cardinality(own)}) = TopRecall
    BY <1>1, <1>4, <1>6, <2>4, MinOfTwo
  <2> QED
    BY <2>5, <2>6
<1> QED
  BY <1>1, <1>6, <1>7, <1>8

(* Whoever ingests, searches, promotes, demotes, distils or reseeds, and        *)
(* whatever fails or restarts, every store holds what its type says.           *)
THEOREM TypeCorrect == Spec => []TypeOK
BY Invariance, PTL DEF IInv

(* No search shows an agent a memory it may not see, except one whose row was    *)
(* promoted or demoted since its index entry or its graph node was written.     *)
THEOREM NothingHiddenIsShown == Spec => []ShownIsVisible
<1>1. IInv => ShownIsVisible
  BY DEF IInv, SearchInv, Visible, ShownIsVisible, Searching, ShownBy
<1> QED
  BY <1>1, Invariance, PTL

(* An answer names each memory once, and what it shows it may show.            *)
THEOREM AnswersAreSound == Spec => []ShownIsSound
<1>1. IInv => ShownIsVisible /\ ShownOnce
  BY DEF IInv, SearchInv, Visible, Once, ShownIsVisible, ShownOnce, Searching, ShownBy, IdsOf
<1>2. IInv => ShownIsSound
  BY <1>1 DEF ShownIsSound
<1> QED
  BY <1>2, Invariance, PTL

(* The index, the graph and the files name memories that were stored, and        *)
(* what was accepted is in the index.                                         *)
THEOREM DerivedFollowTable == Spec => []IndexesFollowTable
<1>1. IInv => DerivedWereStored
  BY DEF IInv, StoredInv, Inside, Derived, DerivedWereStored
<1>2. IInv => AcceptedIsIndexed
  BY DEF IInv, AcceptedInv, AcceptedIsIndexed
<1>3. IInv => IndexesFollowTable
  BY <1>1, <1>2 DEF IInv, IndexesFollowTable
<1> QED
  BY <1>3, Invariance, PTL

(* The documents of others crowd an agent out of its full-text hits only when    *)
(* more than twice as many as it asks for match.                              *)
THEOREM TextSearchesAreFull == Spec => []TextSearchIsFull
<1>1. ASSUME IInv
      PROVE  TextSearchIsFull
  <2>1. IsFiniteSet(docs)
    BY <1>1, TextFinite DEF IInv
  <2>2. \A matching \in SUBSET docs : IsFiniteSet(matching)
    BY <2>1, FS_Subset
  <2> QED
    BY <2>2, TextIsFull DEF TextSearchIsFull
<1> QED
  BY <1>1, Invariance, PTL

=============================================================================
