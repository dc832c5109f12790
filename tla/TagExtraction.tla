--------------------------- MODULE TagExtraction ---------------------------
(***************************************************************************)
(* The tags of an ingested document: TagExtractor (umms-retriever) over its *)
(* chunks, writing to CompositeTagStore, which keeps the tags in a LanceDB   *)
(* table and their co-occurrences in SQLite (umms-storage, tag/), and what   *)
(* the query reshaping reads back (umms-analyzer).                           *)
(*                                                                          *)
(* Each method of LanceTagStore holds the table's lock for its own duration,  *)
(* each record_cooccurrence the connection's: between any two of them other   *)
(* extractions run.  Vectors, importance and PMI are abstracted.             *)
(***************************************************************************)
EXTENDS Chunking

CONSTANTS
    Agents,
    Names,      \* words that are canonical labels
    LabelIn,    \* <<n, m>>: label m contains label n
    NoTag,
    MaxTags,    \* bound: tag ids ever made
    MaxDocs,    \* bound: documents ingested
    Documents,  \* requests: <<text, target_size, overlap>>
    Skeletons,  \* labels in the title, entities and sections a model may find
    Modes,      \* are extractions served one at a time?
    Tasks,
    Faults

Ids == 1..MaxTags
Tag == [id : Ids, name : Names, agent : Agents, freq : Nat]

ASSUME TagAssumption ==
    /\ {MaxTags, MaxDocs} \subseteq Nat
    /\ NoTag \notin Tag
    /\ IsFiniteSet(Names)
    /\ \A n \in Names : <<n, n>> \in LabelIn
    /\ LabelIn \subseteq Names \X Names
    /\ Modes \subseteq BOOLEAN
    /\ Names \subseteq Words
    /\ Documents \subseteq Texts \X Nat \X Nat
    /\ Skeletons \subseteq SUBSET Names

VARIABLES
    tags,       \* rows of the tag table
    minted,     \* tag ids made so far
    total,      \* tag_stats: entries a tag was recorded on
    together,   \* tag_cooccurrence: entries two tags were recorded on
    carried,    \* history: tags that ingested memories name
    lost,       \* history: tags whose row was deleted and not written back
    alone, docs,
    job         \* the extractions

tagVars == <<tags, minted, total, together, carried, lost>>
vars == <<tagVars, alone, docs, job>>

Pairs == kSubset(2, Ids)

Idle == [pc |-> "idle"]
Phases == {"look", "encode", "new", "get", "find", "write", "record"}
Work ==
    [pc : Phases, back : {"new", "get"}, agent : Agents, chunks : Seq(SUBSET Names), next : Nat,
     todo : SUBSET (Names \cup Ids), known : SUBSET (Names \X Ids), fresh : SUBSET Tag,
     cur : Tag \cup {NoTag}, found : Tag \cup {NoTag}]
JobType == {Idle} \cup Work

TypeOK ==
    /\ tags \subseteq Tag /\ minted \in 0..MaxTags
    /\ total \in [Ids -> Nat] /\ together \in [Pairs -> Nat]
    /\ carried \subseteq Ids /\ lost \subseteq Ids
    /\ alone \in BOOLEAN /\ docs \in 0..MaxDocs
    /\ job \in [Tasks -> JobType]

Init ==
    /\ tags = {} /\ minted = 0
    /\ total = [i \in Ids |-> 0] /\ together = [p \in Pairs |-> 0]
    /\ carried = {} /\ lost = {}
    /\ alone \in Modes /\ docs = 0
    /\ job = [t \in Tasks |-> Idle]

Becomes(t, j) == job' = [job EXCEPT ![t] = j]
Labels(t) == UNION Range(job[t].chunks)
Known(t, n) == \E k \in job[t].known : k[1] = n
TagsOf(t, k) == {p[2] : p \in {p \in job[t].known : p[1] \in job[t].chunks[k]}}

-----------------------------------------------------------------------------
(* extract(): the candidates of every chunk, and which of them exist already. *)

LabelsOf(c) == Range(WordsIn(c)) \cap Names

(* The text up to the first stop: where the labels of a chunk are looked for.  *)
FirstSentence(c) ==
    SubSeq(c, 1, Min({i \in DOMAIN c : c[i].stop} \cup {Len(c)}))

(* DocSkeleton::fallback: the first line is the title.                        *)
Fallback(x) == LabelsOf(ParagraphOf(x[1]))

(* What the model's answer holds, or without a usable one the fallback.         *)
SkeletonsFor(x) == Skeletons \cup {Fallback(x)}

(* The skeleton's labels go to every chunk.                                   *)
Candidates(d, skeleton) ==
    LET chunks == Chunks(d[1], d[2], d[3])
    IN  [i \in DOMAIN chunks |-> skeleton \cup LabelsOf(FirstSentence(chunks[i]))]

StartExtract(t, a) ==
    /\ job[t] = Idle /\ docs < MaxDocs
    /\ alone => \A u \in Tasks : job[u] = Idle
    /\ docs' = docs + 1
    /\ \E d \in Documents : \E skeleton \in SkeletonsFor(d[1]) :
          LET labels == Candidates(d, skeleton)
          IN  /\ labels # <<>>
              /\ Becomes(t, [pc |-> "look", back |-> "new", agent |-> a, chunks |-> labels, next |-> 1,
                             todo |-> UNION Range(labels), known |-> {}, fresh |-> {}, cur |-> NoTag,
                             found |-> NoTag])
    /\ UNCHANGED <<tagVars, alone>>

(* find_by_label(): one row whose label contains the one looked for.          *)
LabelHits(a, n) == {r \in tags : r.agent = a /\ <<n, r.name>> \in LabelIn}

Look(t) ==
    /\ job[t].pc = "look"
    /\ \E n \in job[t].todo :
          LET hits == LabelHits(job[t].agent, n)
          IN  \/ \E r \in hits :
                    Becomes(t, [job[t] EXCEPT !.todo = @ \ {n},
                                   !.known = IF r.name = n THEN @ \cup {<<n, r.id>>} ELSE @])
              \/ hits = {} /\ Becomes(t, [job[t] EXCEPT !.todo = @ \ {n}])
              \/ "read" \in Faults /\ Becomes(t, Idle)
    /\ UNCHANGED <<tagVars, alone, docs>>

(* The unknown ones are embedded; those without a vector are dropped.          *)
Encode(t) ==
    /\ job[t].pc = "look" /\ job[t].todo = {}
    /\ LET new == {n \in Labels(t) : ~Known(t, n)}
       IN  \/ \E kept \in SUBSET new :
                 /\ kept = new \/ "short" \in Faults
                 /\ minted + Cardinality(kept) <= MaxTags
                 /\ minted' = minted + Cardinality(kept)
                 /\ LET order == SetToSeq(kept)
                    IN  Becomes(t, [job[t] EXCEPT !.pc = "new",
                           !.fresh = {[id |-> minted + k, name |-> order[k], agent |-> job[t].agent,
                                       freq |-> 1] : k \in DOMAIN order}])
           \/ new # {} /\ Becomes(t, Idle) /\ UNCHANGED minted
    /\ UNCHANGED <<tags, total, together, carried, lost, alone, docs>>

-----------------------------------------------------------------------------
(* CompositeTagStore::upsert: find the tag of this label and agent, then       *)
(* replace its row.                                                          *)

TakeNew(t) ==
    /\ job[t].pc = "new"
    /\ \/ \E r \in job[t].fresh :
             Becomes(t, [job[t] EXCEPT !.pc = "find", !.back = "new", !.cur = r, !.fresh = @ \ {r}])
       \/ /\ job[t].fresh = {}
          /\ Becomes(t, [job[t] EXCEPT !.pc = "get", !.todo = {k[2] : k \in job[t].known}])
    /\ UNCHANGED <<tagVars, alone, docs>>

(* Every known tag is then read and upserted once more, to count it.           *)
Bump(t) ==
    /\ job[t].pc = "get"
    /\ \E i \in job[t].todo :
          LET hits == {r \in tags : r.id = i}
          IN  \/ \E r \in hits :
                    Becomes(t, [job[t] EXCEPT !.pc = "find", !.back = "get", !.cur = r,
                                   !.todo = @ \ {i}])
              \/ hits = {} /\ Becomes(t, [job[t] EXCEPT !.todo = @ \ {i}])
              \/ "read" \in Faults /\ Becomes(t, Idle)
    /\ UNCHANGED <<tagVars, alone, docs>>

(* A mutant: the row to merge with is looked for by id.                       *)
FindById(t) ==
    /\ job[t].pc = "find"
    /\ LET hits == {r \in tags : r.id = job[t].cur.id}
       IN  \/ \E r \in hits : Becomes(t, [job[t] EXCEPT !.pc = "write", !.found = r])
           \/ hits = {} /\ Becomes(t, [job[t] EXCEPT !.pc = "write", !.found = NoTag])
    /\ UNCHANGED <<tagVars, alone, docs>>

FindCanonical(t) ==
    /\ job[t].pc = "find"
    /\ LET hits == {r \in tags : r.name = job[t].cur.name /\ r.agent = job[t].cur.agent}
       IN  \/ \E r \in hits : Becomes(t, [job[t] EXCEPT !.pc = "write", !.found = r])
           \/ hits = {} /\ Becomes(t, [job[t] EXCEPT !.pc = "write", !.found = NoTag])
           \/ "read" \in Faults /\ Becomes(t, Idle)
    /\ UNCHANGED <<tagVars, alone, docs>>

(* A mutant: a tag made anew replaces the stored one, but for its id.          *)
MergeTakesIncoming(cur, found) ==
    IF found = NoTag THEN cur
    ELSE [cur EXCEPT !.id = found.id, !.freq = IF cur.id = found.id THEN @ + 1 ELSE @]

Merge(cur, found) == IF found = NoTag THEN cur ELSE [found EXCEPT !.freq = @ + 1]

(* upsert_tag(): delete the row, whatever comes of it, and add the new one.  An  *)
(* insertion that fails, or that a crash forestalls, loses the row.            *)
Upserted(r) == {s \in tags : s.id # r.id} \cup {r}

WriteTag(t) ==
    /\ job[t].pc = "write"
    /\ LET r == Merge(job[t].cur, job[t].found)
           done == [job[t] EXCEPT !.pc = job[t].back, !.cur = NoTag, !.found = NoTag,
                       !.known = IF job[t].back = "new" THEN @ \cup {<<r.name, r.id>>} ELSE @]
       IN  \/ tags' = Upserted(r) /\ Becomes(t, done) /\ UNCHANGED lost
           \/ /\ "delete" \in Faults
              /\ tags' = tags \cup {r} /\ Becomes(t, done) /\ UNCHANGED lost
           \/ /\ "add" \in Faults
              /\ tags' = {s \in tags : s.id # r.id}
              /\ lost' = lost \cup {r.id}
              /\ Becomes(t, Idle)
    /\ UNCHANGED <<minted, total, together, carried, alone, docs>>

-----------------------------------------------------------------------------
(* record_cooccurrence(): statements without a transaction, the tags before    *)
(* the pairs.  One that fails leaves what the earlier ones did.              *)

PairsOf(ids) == kSubset(2, ids)
Counted(S) == [i \in Ids |-> IF i \in S THEN total[i] + 1 ELSE total[i]]
Paired(P) == [p \in Pairs |-> IF p \in P THEN together[p] + 1 ELSE together[p]]

StartRecord(t) ==
    /\ job[t].pc = "get" /\ job[t].todo = {}
    /\ Becomes(t, [job[t] EXCEPT !.pc = "record"])
    /\ UNCHANGED <<tagVars, alone, docs>>

Record(t) ==
    /\ job[t].pc = "record" /\ job[t].next <= Len(job[t].chunks)
    /\ LET ids == TagsOf(t, job[t].next)
           done == [job[t] EXCEPT !.next = @ + 1]
       IN  \/ Cardinality(ids) < 2 /\ Becomes(t, done) /\ UNCHANGED <<total, together>>
           \/ /\ Cardinality(ids) >= 2
              /\ total' = Counted(ids) /\ together' = Paired(PairsOf(ids))
              /\ Becomes(t, done)
    /\ UNCHANGED <<tags, minted, carried, lost, alone, docs>>

(* A mutant: the pairs are counted before their tags.                         *)
RecordFailsPairsFirst(t) ==
    /\ job[t].pc = "record" /\ job[t].next <= Len(job[t].chunks) /\ "record" \in Faults
    /\ LET ids == TagsOf(t, job[t].next)
       IN  /\ Cardinality(ids) >= 2
           /\ \E P \in SUBSET PairsOf(ids) : together' = Paired(P)
    /\ Becomes(t, Idle)
    /\ UNCHANGED <<tags, minted, total, carried, lost, alone, docs>>

RecordFails(t) ==
    /\ job[t].pc = "record" /\ job[t].next <= Len(job[t].chunks) /\ "record" \in Faults
    /\ LET ids == TagsOf(t, job[t].next)
       IN  /\ Cardinality(ids) >= 2
           /\ \/ \E S \in SUBSET ids : total' = Counted(S) /\ UNCHANGED together
              \/ \E P \in SUBSET PairsOf(ids) : total' = Counted(ids) /\ together' = Paired(P)
    /\ Becomes(t, Idle)
    /\ UNCHANGED <<tags, minted, carried, lost, alone, docs>>

(* The tags go to the memories the pipeline inserts next.                      *)
Extracted(t) ==
    /\ job[t].pc = "record" /\ job[t].next > Len(job[t].chunks)
    /\ carried' = carried \cup UNION {TagsOf(t, k) : k \in DOMAIN job[t].chunks}
    /\ Becomes(t, Idle)
    /\ UNCHANGED <<tags, minted, total, together, lost, alone, docs>>

Restart ==
    /\ "crash" \in Faults
    /\ job' = [t \in Tasks |-> Idle]
    /\ UNCHANGED <<tagVars, alone, docs>>

Next ==
    \/ \E t \in Tasks :
          \/ \E a \in Agents : StartExtract(t, a)
          \/ Look(t) \/ Encode(t) \/ TakeNew(t) \/ Bump(t) \/ FindCanonical(t) \/ WriteTag(t)
          \/ StartRecord(t) \/ Record(t) \/ RecordFails(t) \/ Extracted(t)
    \/ Restart

Spec == Init /\ [][Next]_vars

-----------------------------------------------------------------------------
(* What the query reshaping reads: the agent's activated tags by the filtered  *)
(* vector search, then their partners by id alone.                           *)
VectorHits(a) == {r \in tags : r.agent = a}
Activated(a) == {r.id : r \in VectorHits(a)}
Partners(i) == {j \in Ids : j # i /\ together[{i, j}] > 0}

-----------------------------------------------------------------------------
(* While extractions do not overlap, a label of an agent has one tag, though    *)
(* the look-up by substring may return another label's, rows may be doubled by  *)
(* a failed deletion and writes may be lost (composite.rs, upsert).           *)
OneTagPerLabel ==
    alone => \A r, s \in tags : r.name = s.name /\ r.agent = s.agent => r.id = s.id

(* A tag named by a memory can be read, unless its own row was lost between     *)
(* the deletion and the insertion of an upsert: merging keeps the id, whoever   *)
(* overlaps.                                                                 *)
CarriedTagsResolve == carried \subseteq {r.id : r \in tags} \cup lost

(* Two tags were never recorded together more often than each was recorded,     *)
(* whichever statement failed: the PMI of a pair stays meaningful.             *)
PairsWithinTotals == \A p \in Pairs : \A i \in p : together[p] <= total[i]

(* The partners of an agent's tags, which the reshaping and the tag handler     *)
(* load without a filter, are the agent's own.                                *)
PartnersAreOwn ==
    \A a \in Agents : \A i \in Activated(a) : \A r \in tags : r.id \in Partners(i) => r.agent = a

(* While extractions do not overlap, a tag that has a single row never falls in  *)
(* frequency: each of its upserts starts from that row.  (One that a failed      *)
(* deletion doubled may: the next upsert merges with either double.)           *)
SingleRow(r) == \A s \in tags : s.id = r.id => s = r
FrequencyKept ==
    [][alone => \A r \in tags : SingleRow(r) =>
          \A s \in tags' : s.id = r.id => s.freq >= r.freq]_vars

-----------------------------------------------------------------------------
(* The documents those tags are taken from: chunk_text() has no state, and so   *)
(* what it makes of every text is looked at before the first one arrives.       *)

(* Every chunk is a stretch of its document that begins no later than the one    *)
(* before it ends; the first begins and the last ends with the document, and     *)
(* so no word is lost or out of order (chunk_text).                           *)
ChunksLoseNothing == docs = 0 => NothingLost

(* No chunk is longer than the size asked for, or than a sentence, and the        *)
(* overlap carried into it (chunk_text).                                      *)
ChunksStaySmall == docs = 0 => ChunksBounded

(* A URL or a code block is never cut by the overlap, if words are shorter than   *)
(* it and no paragraph is a single word (protect_regions, restore_regions).     *)
RegionsStayWhole == docs = 0 => RegionsWhole

(* No chunk only repeats the end of the one before it, if every sentence fits    *)
(* beside the overlap: each ends later in the document (chunk_text_inner).      *)
ChunksBringMore == docs = 0 => EachBringsMore

(* What a document's chunks promise.  Always: they lose no word and are not too    *)
(* long.  Where every word is shorter than the overlap and no paragraph is a      *)
(* single word: they cut no region.  Where every sentence fits beside the overlap: *)
(* each ends later than the one before.  (Outside these two cases chunk_text_inner, *)
(* chunker.rs:168-174, does tear a region and does repeat a chunk's end alone.)     *)
ChunksAreSound == ChunksLoseNothing /\ ChunksStaySmall /\ RegionsStayWhole /\ ChunksBringMore

(* A label has one tag of each agent, and a tag that a memory names is found       *)
(* (composite.rs, lance_tag.rs).                                               *)
TagsResolve == TypeOK /\ OneTagPerLabel /\ CarriedTagsResolve

(* What the co-occurrence counts are used for holds: a pair is counted no more     *)
(* often than its tags, and both are one agent's (sqlite_cooc.rs, reshape.rs).   *)
CountsAreSound == PairsWithinTotals /\ PartnersAreOwn

=============================================================================
