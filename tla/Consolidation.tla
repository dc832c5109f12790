--------------------------- MODULE Consolidation ---------------------------
(***************************************************************************)
(* Consolidation cycles (umms-consolidation) over the memory table: decay,  *)
(* WKD compression, graph evolution (here only: it succeeds or fails) and   *)
(* auto-promotion, with ingestion, explicit promotion and demotion and      *)
(* bulk deletion going on around them.                                      *)
(*                                                                          *)
(* A cycle reads pages of rows and works through what it has read with one  *)
(* store call per row, so it acts on copies that may be out of date.        *)
(***************************************************************************)
EXTENDS MemoryStore

CONSTANTS
    Tasks,          \* concurrent calls: cycles, explicit promotions and demotions
    NoAgent,        \* "this call works for no agent"
    DecayOn, WkdOn, \* the enabled switches of the configuration
    PageSize,       \* rows per list() call (500 in the code)
    MaxCluster,     \* max_cluster_size
    MaxMerges,      \* max_merges_per_run
    ArchiveAfter,   \* archive_after_days, in days of the model
    Overlap,        \* may two cycles run at once?
    Clients,        \* which of "promote", "demote" and "purge" clients ask for
    Faults,         \* which of "store" and "graph" calls may fail
    MaxDay,         \* bound: days that pass
    MaxIngest,      \* bound: rows the clients insert
    MaxRuns         \* bound: cycles started

ASSUME ConsolidationAssumption ==
    /\ NoAgent \notin Agents
    /\ {DecayOn, WkdOn, Overlap} \subseteq BOOLEAN
    /\ {MaxDay, MaxIngest, MaxRuns, MaxMerges, ArchiveAfter} \subseteq Nat
    /\ PageSize \in Nat \ {0} /\ MaxCluster \in Nat \ {0}
    /\ Clients \subseteq {"promote", "demote", "purge"}
    /\ Faults \subseteq {"store", "graph"}
    /\ MaxRows >= MaxIngest + MaxRuns * MaxMerges

VARIABLES
    task,       \* task[t]: the call t is executing
    day,        \* the clock
    runs        \* cycles started so far

vars == <<storeVars, task, day, runs>>

CyclePhases == {"decayList", "decay", "wkdList", "merge", "archive", "evolve",
                "promoteList", "promote", "promoteWrite"}

(* now: when the phase began.  full: the page was as long as list() allows.  *)
(* page: rows read and not yet worked through.  all: the rows WKD has read.   *)
Off == [pc |-> "off", agent |-> NoAgent, id |-> 0, now |-> 0, offset |-> 0, full |-> FALSE,
        page |-> <<>>, all |-> <<>>, clusters |-> <<>>]

TaskType == [pc : CyclePhases \cup {"off", "explicit", "demote"}, agent : Agents \cup {NoAgent},
             id : 0..MaxRows, now : 0..MaxDay, offset : Nat, full : BOOLEAN,
             page : Seq(Row), all : Seq(Row), clusters : Seq(Seq(Row))]

(* Every variable has its type; a cycle always knows its agent.              *)
TypeOK ==
    /\ StoreTypeOK
    /\ task \in [Tasks -> TaskType]
    /\ day \in 0..MaxDay /\ runs \in 0..MaxRuns
    /\ \A t \in Tasks : task[t].pc \in CyclePhases => task[t].agent \in Agents

Init ==
    /\ StoreInit
    /\ task = [t \in Tasks |-> Off]
    /\ day = 0 /\ runs = 0

-----------------------------------------------------------------------------
(* Decay *)

(* calculate_decay(): each day takes a level off, down to the floor.  An     *)
(* importance of 0.0 comes out as the floor.                                 *)
Decayed(imp, days) ==
    IF days <= 0 THEN imp ELSE IF imp - days < Floor THEN Floor ELSE imp - days

ShouldArchive(imp, days) == imp <= Floor /\ days >= ArchiveAfter

Archives(e, now) == ShouldArchive(Decayed(e.imp, now - e.born), now - e.born)

(* What run_decay() makes of the importance of a row it has read.            *)
AfterDecay(e, now) ==
    IF Archives(e, now) THEN 0 ELSE Decayed(e.imp, now - e.born)

(* Clustering *)

(* Any relation: the average of two vectors may be near what neither was      *)
(* near.  A memory without a vector is similar to none, not even itself, and   *)
(* so it is passed over as a seed and as a candidate.                         *)
Similar(e, f) == <<e.facts, f.facts>> \in Alike

(* Positions that the seed i of the list s pulls in, first come first served. *)
Cluster(s, i, visited) ==
    LET near == {j \in (i + 1)..Len(s) : j \notin visited /\ Similar(s[i], s[j])}
    IN  {i} \cup {j \in near : Cardinality({k \in near : k < j}) < MaxCluster - 1}

InListOrder(s, c) ==
    [k \in 1..Cardinality(c) |-> s[CHOOSE i \in c : Cardinality({j \in c : j < i}) = k - 1]]

(* Position i as the next seed, unless an earlier one has pulled it in.      *)
Seed(s, before, i) ==
    IF i \in before.visited THEN before
    ELSE LET c == Cluster(s, i, before.visited)
         IN  [visited |-> before.visited \cup c,
              found |-> IF Cardinality(c) < 2 THEN before.found ELSE Append(before.found, c)]

(* What the positions up to n, taken as seeds in list order, have pulled in    *)
(* and found.  (The singleton sets make TLC evaluate each step once.)         *)
Seeding(s) ==
    LET upTo[n \in 0..Len(s)] ==
          IF n = 0 THEN [visited |-> {}, found |-> <<>>]
          ELSE CHOOSE next \in {Seed(s, before, n) : before \in {upTo[n - 1]}} : TRUE
    IN  upTo

(* find_clusters(): the first clusters of at least two.                      *)
FindClusters(s) ==
    LET found == Seeding(s)[Len(s)].found
        taken == SubSeq(found, 1, IF Len(found) < MaxMerges THEN Len(found) ELSE MaxMerges)
    IN  [n \in DOMAIN taken |-> InListOrder(s, taken[n])]

MaxImpOf(c) == CHOOSE n \in Levels :
    /\ \E k \in DOMAIN c : c[k].imp = n
    /\ \A k \in DOMAIN c : c[k].imp <= n

-----------------------------------------------------------------------------
(* One consolidation cycle *)

InCycle(t) == task[t].pc \in CyclePhases

StartCycle(t, a) ==
    /\ task[t].pc = "off"
    /\ Overlap \/ \A u \in Tasks : ~InCycle(u)
    /\ runs < MaxRuns
    /\ runs' = runs + 1
    /\ task' = [task EXCEPT ![t] = [Off EXCEPT !.agent = a,
                   !.pc = IF DecayOn THEN "decayList" ELSE IF WkdOn THEN "wkdList" ELSE "evolve"]]
    /\ UNCHANGED <<storeVars, day>>

(* list() of the next page of a decay pass or a promotion scan.              *)
ReadPage(t, next) ==
    LET page == List(task[t].agent, task[t].offset, PageSize)
    IN  task' = [task EXCEPT ![t].page = page, ![t].full = Len(page) = PageSize, ![t].pc = next,
                             ![t].now = IF task[t].offset = 0 THEN day ELSE @]

(* Mutant: the offset is not advanced.                                       *)
TurnPageNowhere(t, again, done) ==
    /\ task[t].page = <<>>
    /\ task' = [task EXCEPT ![t] = IF @.full THEN [@ EXCEPT !.pc = again]
                                   ELSE [Off EXCEPT !.agent = task[t].agent, !.pc = done]]
    /\ UNCHANGED <<storeVars, day, runs>>

(* The page is worked through: read the next one, unless this one was short.  *)
TurnPage(t, again, done) ==
    /\ task[t].page = <<>>
    /\ task' = [task EXCEPT ![t] = IF @.full THEN [task[t] EXCEPT !.pc = again, !.offset = @ + PageSize]
                                   ELSE [Off EXCEPT !.agent = task[t].agent, !.pc = done]]
    /\ UNCHANGED <<storeVars, day, runs>>

DecayList(t) ==
    /\ task[t].pc = "decayList"
    /\ ReadPage(t, "decay")
    /\ UNCHANGED <<storeVars, day, runs>>

(* An archived row is written again; any other only if that differs from      *)
(* what was read.                                                           *)
DecayRow(t) ==
    /\ task[t].pc = "decay" /\ task[t].page # <<>>
    /\ LET e == Head(task[t].page)
           new == AfterDecay(e, task[t].now)
       IN  IF new = e.imp /\ ~Archives(e, task[t].now) THEN UNCHANGED storeVars
           ELSE Update(e.id, WithImp(e.id, new))
    /\ task' = [task EXCEPT ![t].page = Tail(@)]
    /\ UNCHANGED <<day, runs>>

DecayPage(t) ==
    /\ task[t].pc = "decay"
    /\ TurnPage(t, "decayList", IF WkdOn THEN "wkdList" ELSE "evolve")

(* compress() reads all pages before it clusters.                            *)
WkdList(t) ==
    /\ task[t].pc = "wkdList"
    /\ \E page \in {List(task[t].agent, task[t].offset, PageSize)} :
       \E all \in {task[t].all \o page} :
          task' = IF Len(page) = PageSize
                  THEN [task EXCEPT ![t].all = all, ![t].offset = @ + PageSize]
                  ELSE [task EXCEPT ![t].all = <<>>, ![t].offset = 0, ![t].pc = "merge",
                                    ![t].clusters = FindClusters(all)]
    /\ UNCHANGED <<storeVars, day, runs>>

(* merge_cluster_entries(): insert the distilled memory, ...                 *)
MergeInsert(t) ==
    /\ task[t].pc = "merge" /\ task[t].clusters # <<>>
    /\ LET c == Head(task[t].clusters) IN
       /\ Insert(task[t].agent, c[1].scope, MaxImpOf(c), UNION {c[k].facts : k \in DOMAIN c},
                 (UNION {c[k].tags : k \in DOMAIN c}) \cup {"distilled"}, day)
       /\ task' = [task EXCEPT ![t].page = c, ![t].pc = "archive"]
    /\ UNCHANGED <<day, runs>>

(* Mutant: the originals get the importance of the distilled memory.         *)
ArchiveAtMaximum(t) ==
    /\ task[t].pc = "archive" /\ task[t].page # <<>>
    /\ LET e == Head(task[t].page)
       IN  Update(e.id, [WithTags(e.id, e.tags \cup {"archived"}) EXCEPT
                            !.imp = MaxImpOf(task[t].page)])
    /\ task' = [task EXCEPT ![t].page = Tail(@)]
    /\ UNCHANGED <<day, runs>>

(* ... then archive the originals, with the tags they were read with.        *)
ArchiveOriginal(t) ==
    /\ task[t].pc = "archive" /\ task[t].page # <<>>
    /\ LET e == Head(task[t].page)
       IN  Update(e.id, [WithTags(e.id, e.tags \cup {"archived"}) EXCEPT !.imp = Floor])
    /\ task' = [task EXCEPT ![t].page = Tail(@)]
    /\ UNCHANGED <<day, runs>>

NextCluster(t) == task' = [task EXCEPT ![t].clusters = Tail(@), ![t].page = <<>>, ![t].pc = "merge"]

ArchiveDone(t) ==
    /\ task[t].pc = "archive" /\ task[t].page = <<>>
    /\ NextCluster(t)
    /\ UNCHANGED <<storeVars, day, runs>>

(* Mutant: a failed insert is logged and the originals are archived.         *)
MergeFailsOn(t) ==
    /\ "store" \in Faults
    /\ task[t].pc = "merge" /\ task[t].clusters # <<>>
    /\ task' = [task EXCEPT ![t].page = Head(task[t].clusters), ![t].pc = "archive"]
    /\ UNCHANGED <<storeVars, day, runs>>

(* A failed insert or update gives the cluster up; of an update, the         *)
(* importance may have been written and the tags not.                        *)
MergeFails(t) ==
    /\ "store" \in Faults
    /\ \/ /\ task[t].pc = "merge" /\ task[t].clusters # <<>>
          /\ UNCHANGED storeVars
       \/ /\ task[t].pc = "archive" /\ task[t].page # <<>>
          /\ LET i == Head(task[t].page).id
             IN  UNCHANGED storeVars \/ Update(i, WithImp(i, Floor))
    /\ NextCluster(t)
    /\ UNCHANGED <<day, runs>>

MergeDone(t) ==
    /\ task[t].pc = "merge" /\ task[t].clusters = <<>>
    /\ task' = [task EXCEPT ![t].pc = "evolve"]
    /\ UNCHANGED <<storeVars, day, runs>>

Evolve(t) ==
    /\ task[t].pc = "evolve"
    /\ task' = [task EXCEPT ![t].pc = "promoteList"]
    /\ UNCHANGED <<storeVars, day, runs>>

PromoteList(t) ==
    /\ task[t].pc = "promoteList"
    /\ ReadPage(t, "promote")
    /\ UNCHANGED <<storeVars, day, runs>>

(* meets_promotion_criteria(), of a private row as it was read.              *)
Meets(e, now) == e.scope = "private" /\ e.imp >= MaxImp /\ now > e.born

(* Mutant: the criteria are not applied.                                     *)
PromoteGetAny(t) ==
    /\ task[t].pc = "promote" /\ task[t].page # <<>>
    /\ task' = IF Promotable(Head(task[t].page).id)
               THEN [task EXCEPT ![t].pc = "promoteWrite"]
               ELSE [task EXCEPT ![t].page = Tail(@)]
    /\ UNCHANGED <<storeVars, day, runs>>

(* promote() reads the row again and refuses one that is not private now.    *)
PromoteGet(t) ==
    /\ task[t].pc = "promote" /\ task[t].page # <<>>
    /\ LET e == Head(task[t].page) IN
       task' = IF Meets(e, task[t].now) /\ Promotable(e.id)
               THEN [task EXCEPT ![t].pc = "promoteWrite"]
               ELSE [task EXCEPT ![t].page = Tail(@)]
    /\ UNCHANGED <<storeVars, day, runs>>

(* promote() writes the scope; when that fails the scan goes on.             *)
PromoteWrite(t) ==
    LET i == Head(task[t].page).id IN
    /\ task[t].pc = "promoteWrite"
    /\ Update(i, WithScope(i, "shared"))
    /\ task' = [task EXCEPT ![t].page = Tail(@), ![t].pc = "promote"]
    /\ UNCHANGED <<day, runs>>

PromoteFails(t) ==
    /\ "store" \in Faults
    /\ task[t].pc = "promoteWrite"
    /\ task' = [task EXCEPT ![t].page = Tail(@), ![t].pc = "promote"]
    /\ UNCHANGED <<storeVars, day, runs>>

PromotePage(t) ==
    /\ task[t].pc = "promote"
    /\ TurnPage(t, "promoteList", "off")

(* Every other failing call ends the cycle with the error.                   *)
CycleFails(t) ==
    /\ \/ "graph" \in Faults /\ task[t].pc = "evolve"
       \/ "store" \in Faults /\ task[t].pc \in {"decayList", "wkdList", "promoteList"}
       \/ "store" \in Faults /\ task[t].pc = "decay" /\ task[t].page # <<>>
    /\ task' = [task EXCEPT ![t] = Off]
    /\ UNCHANGED <<storeVars, day, runs>>

Cycle(t) ==
    \/ DecayList(t) \/ DecayRow(t) \/ DecayPage(t)
    \/ WkdList(t) \/ MergeInsert(t) \/ ArchiveOriginal(t) \/ ArchiveDone(t)
    \/ MergeFails(t) \/ MergeDone(t)
    \/ Evolve(t)
    \/ PromoteList(t) \/ PromoteGet(t) \/ PromoteWrite(t) \/ PromoteFails(t) \/ PromotePage(t)
    \/ CycleFails(t)

-----------------------------------------------------------------------------
(* What clients do meanwhile *)

Ingest(a, scope, f, imp) ==
    /\ last < MaxIngest
    /\ Insert(a, scope, imp, {f}, {}, day)
    /\ UNCHANGED <<task, day, runs>>

(* promote() asked for by a user: read, check, write.                        *)
BeginPromote(t, i) ==
    /\ "promote" \in Clients
    /\ task[t].pc = "off" /\ Promotable(i)
    /\ task' = [task EXCEPT ![t].pc = "explicit", ![t].id = i]
    /\ UNCHANGED <<storeVars, day, runs>>

ExplicitWrite(t) ==
    LET i == task[t].id IN
    /\ task[t].pc = "explicit"
    /\ Update(i, WithScope(i, "shared"))
    /\ task' = [task EXCEPT ![t] = Off]
    /\ UNCHANGED <<day, runs>>

BeginDemote(t, i, a) ==
    /\ "demote" \in Clients
    /\ task[t].pc = "off" /\ Demotable(i)
    /\ task' = [task EXCEPT ![t].pc = "demote", ![t].id = i, ![t].agent = a]
    /\ UNCHANGED <<storeVars, day, runs>>

(* The scope is written, then the owner; the second write may fail alone.    *)
DemoteWrite(t) ==
    LET i == task[t].id IN
    /\ task[t].pc = "demote"
    /\ \/ Update(i, [WithOwner(i, task[t].agent) EXCEPT !.scope = "private"])
       \/ "store" \in Faults /\ Update(i, WithScope(i, "private"))
    /\ task' = [task EXCEPT ![t] = Off]
    /\ UNCHANGED <<day, runs>>

Purge(a, shared) ==
    /\ "purge" \in Clients
    /\ DeleteAll(a, shared)
    /\ UNCHANGED <<task, day, runs>>

Tick ==
    /\ day < MaxDay
    /\ day' = day + 1
    /\ UNCHANGED <<storeVars, task, runs>>

Explicit(t) == ExplicitWrite(t) \/ DemoteWrite(t)

Next ==
    \/ \E a \in Agents, s \in Scopes, f \in Facts, imp \in {Floor, MaxImp} : Ingest(a, s, f, imp)
    \/ \E t \in Tasks, a \in Agents : StartCycle(t, a)
    \/ \E t \in Tasks : Cycle(t)
    \/ \E t \in Tasks, i \in Ids : BeginPromote(t, i)
    \/ \E t \in Tasks, i \in Ids, a \in Agents : BeginDemote(t, i, a)
    \/ \E t \in Tasks : Explicit(t)
    \/ \E a \in Agents, shared \in BOOLEAN : Purge(a, shared)
    \/ Tick

Spec == Init /\ [][Next]_vars

(* The runtime keeps polling the handler that runs a cycle.                  *)
FairSpec == Spec /\ \A t \in Tasks : WF_vars(Cycle(t))

-----------------------------------------------------------------------------
(* Properties *)

(* Archiving loses nothing: what an archived original says is said by a      *)
(* distilled memory, wherever a merge failed or was overtaken by another     *)
(* cycle (wkd.rs:8, "preserves key information from all originals").         *)
ArchivedAreDistilled ==
    \A i \in Stored : "archived" \in rows[i].tags =>
        \E d \in Stored : "distilled" \in rows[d].tags /\ rows[i].facts \subseteq rows[d].facts

(* While no two cycles overlap, importance only falls, except that an         *)
(* archived 0.0 may come back as the floor: the distilled memory takes the   *)
(* maximum, its originals never do (run_decay in decay.rs,                   *)
(* merge_cluster_entries in wkd.rs).  Overlapping cycles do write back an     *)
(* importance from before a decay or an archiving they have not seen.        *)
ImportanceNeverRises ==
    [][\A i \in Ids : i \in Stored /\ rows'[i] # NoRow =>
          rows'[i].imp <= IF rows[i].imp < Floor THEN Floor ELSE rows[i].imp]_vars

(* While no two cycles overlap, a memory that becomes shared without a user   *)
(* asking for it has, at that moment, the importance promotion asks for and   *)
(* has existed long enough (promotion.rs:4), whatever users promoted, demoted *)
(* or deleted between the listing of its page and the write.                 *)
PromotionIsEarned ==
    [][\A i \in Ids :
          i \in Stored /\ rows[i].scope = "private" /\ rows'[i] # NoRow /\ rows'[i].scope = "shared"
          => \/ Meets(rows[i], day)
             \/ \E t \in Tasks : task[t].pc = "explicit" /\ task[t].id = i]_vars

(* Every cycle ends: paging through a table that changes under it does too.  *)
CycleEnds == \A t \in Tasks : InCycle(t) ~> task[t].pc = "off"

(* A cycle keeps every row a row, and what it archives.                       *)
ArchivingIsSafe == TypeOK /\ ArchivedAreDistilled

=============================================================================
