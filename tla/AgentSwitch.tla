---------------------------- MODULE AgentSwitch ----------------------------
(***************************************************************************)
(* Agent context switches (umms-storage, isolation/switcher.rs) over the   *)
(* shared cache and the SQLite table of snapshots                          *)
(* (isolation/agent_context.rs).                                           *)
(*                                                                         *)
(* switch(from, to) takes no lock: it collects from's entries, saves them, *)
(* drains from's keys one by one and puts to's saved entries back one by   *)
(* one.  Cache operations of other tasks, other switches, expiry, a failed *)
(* save or load and a crash may fall between any two of those steps, so    *)
(* each is an action of its own.                                           *)
(***************************************************************************)
EXTENDS MemoryCache

CONSTANTS
    Tasks,      \* concurrent callers of switch() and evict_agent()
    NoAgent,    \* "nothing to restore": the call is a plain evict_agent()
    Faults      \* which of "save", "load" and "crash" may happen

ASSUME AgentSwitchAssumption ==
    /\ NoAgent \notin Agents
    /\ Faults \subseteq {"save", "load", "crash"}

VARIABLES
    snapshots,  \* snapshots[a]: the entries of a's row, {} without a row
    task        \* task[t]: the call t is executing

vars == <<cache, puts, snapshots, task>>

Phases == {"idle", "collectL1", "save", "listL0", "drainL0", "listL1", "drainL1",
           "load", "restore"}

(* buf: entries collected and not yet saved, or loaded and not yet put     *)
(* back.  keys: the keys drain_agent_entries() has still to invalidate.    *)
Idle == [pc |-> "idle", from |-> NoAgent, to |-> NoAgent, buf |-> {}, keys |-> {}]

TaskType == [pc : Phases, from : Agents \cup {NoAgent}, to : Agents \cup {NoAgent},
             buf : SUBSET Entries, keys : SUBSET Mems]

(* Every variable has its type; a running call knows its agents.           *)
TypeOK ==
    /\ CacheTypeOK
    /\ snapshots \in [Agents -> SUBSET Entries]
    /\ task \in [Tasks -> TaskType]
    /\ \A t \in Tasks :
          /\ task[t].pc # "idle" => task[t].from \in Agents
          /\ task[t].pc \in {"collectL1", "save", "load", "restore"} => task[t].to \in Agents

Init ==
    /\ CacheInit
    /\ snapshots = [a \in Agents |-> {}]
    /\ task = [t \in Tasks |-> Idle]

OfLayer(entries, l) == {e \in entries : e.layer = l}

-----------------------------------------------------------------------------
(* switch(from, to) *)

(* entries_for_agent(from), first half: collect from L0.                   *)
BeginSwitch(t, from, to) ==
    /\ task[t].pc = "idle"
    /\ task' = [task EXCEPT ![t] = [pc |-> "collectL1", from |-> from, to |-> to,
                                    buf |-> Live(cache, "L0", from), keys |-> {}]]
    /\ UNCHANGED <<cacheVars, snapshots>>

(* Mutant: the second half of the collection is forgotten.                 *)
CollectOnlyL0(t) ==
    /\ task[t].pc = "collectL1"
    /\ task' = [task EXCEPT ![t].pc = "save"]
    /\ UNCHANGED <<cacheVars, snapshots>>

(* entries_for_agent(from), second half: append what L1 holds now.         *)
CollectL1(t) ==
    /\ task[t].pc = "collectL1"
    /\ task' = [task EXCEPT ![t].pc = "save",
                            ![t].buf = @ \cup Live(cache, "L1", task[t].from)]
    /\ UNCHANGED <<cacheVars, snapshots>>

(* Mutant: the row is written under the incoming agent's id.               *)
SaveUnderWrongAgent(t) ==
    /\ task[t].pc = "save"
    /\ snapshots' = [snapshots EXCEPT ![task[t].to] = task[t].buf]
    /\ task' = [task EXCEPT ![t].pc = "listL0", ![t].buf = {}]
    /\ UNCHANGED cacheVars

(* Mutant: the new entries are added to the row instead of replacing it.   *)
SaveMerged(t) ==
    /\ task[t].pc = "save"
    /\ snapshots' = [snapshots EXCEPT ![task[t].from] = @ \cup task[t].buf]
    /\ task' = [task EXCEPT ![t].pc = "listL0", ![t].buf = {}]
    /\ UNCHANGED cacheVars

(* The SQL row keeps the L0 and the L1 entries in two columns; a reader    *)
(* gets both back, L0 first.                                               *)
SaveSnapshot(t) ==
    /\ task[t].pc = "save"
    /\ snapshots' = [snapshots EXCEPT ![task[t].from] = task[t].buf]
    /\ task' = [task EXCEPT ![t].pc = "listL0", ![t].buf = {}]
    /\ UNCHANGED cacheVars

(* Mutant: the error of the save is ignored and eviction goes ahead.       *)
SaveErrorIgnored(t) ==
    /\ "save" \in Faults
    /\ task[t].pc = "save"
    /\ task' = [task EXCEPT ![t].pc = "listL0", ![t].buf = {}]
    /\ UNCHANGED <<cacheVars, snapshots>>

(* The save fails: switch() returns the error and evicts nothing.          *)
SaveFails(t) ==
    /\ "save" \in Faults
    /\ task[t].pc = "save"
    /\ task' = [task EXCEPT ![t] = Idle]
    /\ UNCHANGED <<cacheVars, snapshots>>

(* evict_agent(a) called on its own, by the clear-all-data handler.        *)
BeginEvict(t, a) ==
    /\ task[t].pc = "idle"
    /\ task' = [task EXCEPT ![t] = [pc |-> "listL0", from |-> a, to |-> NoAgent,
                                    buf |-> {}, keys |-> {}]]
    /\ UNCHANGED <<cacheVars, snapshots>>

(* drain_agent_entries() of one cache: list the keys, then get and         *)
(* invalidate them one by one.                                             *)
ListKeys(t, l) ==
    /\ task[t].pc = IF l = "L0" THEN "listL0" ELSE "listL1"
    /\ task' = [task EXCEPT ![t].pc = IF l = "L0" THEN "drainL0" ELSE "drainL1",
                            ![t].keys = LiveKeys(cache, l, task[t].from)]
    /\ UNCHANGED <<cacheVars, snapshots>>

DrainKey(t, l, m) ==
    /\ task[t].pc = IF l = "L0" THEN "drainL0" ELSE "drainL1"
    /\ m \in task[t].keys
    /\ cache' = Invalidated(cache, l, task[t].from, m)
    /\ task' = [task EXCEPT ![t].keys = @ \ {m}]
    /\ UNCHANGED <<puts, snapshots>>

(* Mutant: a plain eviction goes on to load a snapshot.                    *)
DrainThenLoad(t, l) ==
    /\ task[t].pc = IF l = "L0" THEN "drainL0" ELSE "drainL1"
    /\ task[t].keys = {}
    /\ task' = [task EXCEPT ![t].pc = IF l = "L0" THEN "listL1" ELSE "load"]
    /\ UNCHANGED <<cacheVars, snapshots>>

(* The keys of one cache are gone: go on to the next one, then to the load. *)
DrainDone(t, l) ==
    /\ task[t].pc = IF l = "L0" THEN "drainL0" ELSE "drainL1"
    /\ task[t].keys = {}
    /\ task' = IF l = "L0" THEN [task EXCEPT ![t].pc = "listL1"]
               ELSE IF task[t].to = NoAgent THEN [task EXCEPT ![t] = Idle]
               ELSE [task EXCEPT ![t].pc = "load"]
    /\ UNCHANGED <<cacheVars, snapshots>>

(* load_snapshot(to).  A missing row (cold start) and a row without        *)
(* entries restore the same nothing.                                       *)
LoadSnapshot(t) ==
    /\ task[t].pc = "load"
    /\ task' = [task EXCEPT ![t].pc = "restore", ![t].buf = snapshots[task[t].to]]
    /\ UNCHANGED <<cacheVars, snapshots>>

(* The load fails: switch() returns the error, from is already evicted.    *)
LoadFails(t) ==
    /\ "load" \in Faults
    /\ task[t].pc = "load"
    /\ task' = [task EXCEPT ![t] = Idle]
    /\ UNCHANGED <<cacheVars, snapshots>>

(* Mutant: the entries are put back under the outgoing agent's keys.       *)
RestoreUnderFrom(t, e) ==
    /\ task[t].pc = "restore"
    /\ e \in task[t].buf
    /\ e.layer = "L1" => OfLayer(task[t].buf, "L0") = {}
    /\ cache' = Stored(cache, task[t].from, e.mem, e)
    /\ task' = [task EXCEPT ![t].buf = @ \ {e}]
    /\ UNCHANGED <<puts, snapshots>>

(* Mutant: the loop never advances past the entry it has put.              *)
RestoreForever(t, e) ==
    /\ task[t].pc = "restore"
    /\ e \in task[t].buf
    /\ cache' = Stored(cache, task[t].to, e.mem, e)
    /\ UNCHANGED <<puts, snapshots, task>>

(* One put of the restore loops: the L0 entries, then the L1 entries,      *)
(* under to and the entry's own id.                                        *)
RestoreEntry(t, e) ==
    /\ task[t].pc = "restore"
    /\ e \in task[t].buf
    /\ e.layer = "L1" => OfLayer(task[t].buf, "L0") = {}
    /\ cache' = Stored(cache, task[t].to, e.mem, e)
    /\ task' = [task EXCEPT ![t].buf = @ \ {e}]
    /\ UNCHANGED <<puts, snapshots>>

RestoreDone(t) ==
    /\ task[t].pc = "restore"
    /\ task[t].buf = {}
    /\ task' = [task EXCEPT ![t] = Idle]
    /\ UNCHANGED <<cacheVars, snapshots>>

(* The process dies: the cache and every call in progress are gone, the    *)
(* SQLite rows are not.                                                    *)
Crash ==
    /\ "crash" \in Faults
    /\ cache' = EmptyCache
    /\ task' = [t \in Tasks |-> Idle]
    /\ UNCHANGED <<puts, snapshots>>

-----------------------------------------------------------------------------

(* What a call in progress may do next.                                    *)
Step(t) ==
    \/ CollectL1(t) \/ SaveSnapshot(t) \/ SaveFails(t)
    \/ \E l \in Layers : ListKeys(t, l) \/ DrainDone(t, l)
    \/ \E l \in Layers, m \in Mems : DrainKey(t, l, m)
    \/ LoadSnapshot(t) \/ LoadFails(t)
    \/ \E e \in task[t].buf : RestoreEntry(t, e)
    \/ RestoreDone(t)

(* Cache clients use the cache directly, whatever the switches are doing.  *)
Client ==
    /\ \E a \in Agents, m \in Mems, l \in Layers :
          Put(a, m, l) \/ Expire(a, m, l) \/ Remove(a, m, l)
    /\ UNCHANGED <<snapshots, task>>

Next ==
    \/ Client
    \/ \E t \in Tasks, a, b \in Agents : BeginSwitch(t, a, b)
    \/ \E t \in Tasks, a \in Agents : BeginEvict(t, a)
    \/ \E t \in Tasks : Step(t)
    \/ Crash

Spec == Init /\ [][Next]_vars

-----------------------------------------------------------------------------
(* Properties that survive any interleaving of clients, switches, faults.  *)

(* An entry sits where it belongs: under its owner's key, its own id, in   *)
(* the cache of its layer.  No switch, however it is overlapped, may move  *)
(* one agent's memory into another agent's working set.                    *)
CacheIsolated ==
    \A l \in Layers, a \in Agents, m \in Mems :
        LET e == cache[l][a][m] IN
        e # NoEntry => e.owner = a /\ e.mem = m /\ e.layer = l

(* The row saved for an agent holds that agent's entries only.             *)
SnapshotsIsolated ==
    \A a \in Agents : \A e \in snapshots[a] : e.owner = a

(* A set of entries that can be put back in any order: at most one entry   *)
(* per id and layer.                                                       *)
Replayable(entries) ==
    \A e, f \in entries : e.mem = f.mem /\ e.layer = f.layer => e = f

(* A saved row restores to one cache content whatever order the entries    *)
(* were collected in: overlapped collections never save two versions of    *)
(* one cached entry.                                                       *)
SnapshotsReplayable ==
    \A a \in Agents : Replayable(snapshots[a])

=============================================================================
