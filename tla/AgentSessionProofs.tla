------------------------- MODULE AgentSessionProofs -------------------------
(***************************************************************************)
(* Proofs about AgentSwitch and AgentSession, for any agents, ids, callers, *)
(* faults and number of puts.                                              *)
(*                                                                         *)
(* Of the switcher under any client: types, isolation of the agents'       *)
(* working sets, and saved rows that restore to one cache content.         *)
(*                                                                         *)
(* The client of a session is one of those clients: each of its steps is a *)
(* step of the switcher, and so all of that holds of sessions.  On top of  *)
(* it: one call overlapped by any puts, removals and expiries loses        *)
(* nothing that was put before it; and calls that do not overlap leave one *)
(* agent live, lose nothing, and implement the switch of contexts.         *)
(***************************************************************************)
EXTENDS AgentSession, FiniteSetTheorems, TLAPS

(***************************************************************************)
(* Types                                                                   *)
(***************************************************************************)

LEMMA LiveType ==
    ASSUME CacheTypeOK, NEW l \in Layers, NEW a \in Agents
    PROVE  /\ LiveKeys(cache, l, a) \subseteq Mems
           /\ Live(cache, l, a) \subseteq Entries
BY DEF CacheTypeOK, LiveKeys, Live

LEMMA IdleType == Idle \in TaskType
BY DEF Idle, TaskType, Phases

(* The cache part of the type invariant, for the operations on the cache.  *)
LEMMA StoredType ==
    ASSUME CacheTypeOK, NEW a \in Agents, NEW m \in Mems, NEW e \in Entries
    PROVE  Stored(cache, a, m, e) \in [Layers -> [Agents -> [Mems -> Entries \cup {NoEntry}]]]
BY DEF CacheTypeOK, Stored, Entries, Layers

LEMMA InvalidatedType ==
    ASSUME NEW c \in [Layers -> [Agents -> [Mems -> Entries \cup {NoEntry}]]],
           NEW l \in Layers, NEW a \in Agents, NEW m \in Mems
    PROVE  Invalidated(c, l, a, m) \in [Layers -> [Agents -> [Mems -> Entries \cup {NoEntry}]]]
BY DEF Invalidated, Layers

LEMMA ClientType ==
    ASSUME TypeOK, Client
    PROVE  TypeOK'
<1>1. CacheTypeOK /\ MaxPuts \in Nat
  BY MemoryCacheAssumption DEF TypeOK
<1>2. ASSUME NEW a \in Agents, NEW m \in Mems, NEW l \in Layers, Put(a, m, l)
      PROVE  CacheTypeOK'
  <2>1. NewEntry(a, m, l) \in Entries
    BY <1>1 DEF NewEntry, Entries, CacheTypeOK
  <2>2. puts' \in 0..MaxPuts
    BY <1>1, <1>2 DEF Put, CacheTypeOK
  <2> QED
    BY <1>1, <1>2, <2>1, <2>2, StoredType DEF Put, CacheTypeOK
<1>3. ASSUME NEW a \in Agents, NEW m \in Mems, NEW l \in Layers, Expire(a, m, l)
      PROVE  CacheTypeOK'
  BY <1>1, <1>3, InvalidatedType DEF Expire, CacheTypeOK
<1>4. ASSUME NEW a \in Agents, NEW m \in Mems, NEW l \in Layers, Remove(a, m, l)
      PROVE  CacheTypeOK'
  BY <1>1, <1>4, InvalidatedType DEF Remove, CacheTypeOK
<1>5. CacheTypeOK'
  BY <1>2, <1>3, <1>4 DEF Client
<1> QED
  BY <1>5 DEF TypeOK, Client

LEMMA StepType ==
    ASSUME TypeOK, NEW t \in Tasks, Step(t)
    PROVE  TypeOK'
<1> USE DEF TaskType, Phases
<1>a. /\ CacheTypeOK
      /\ task[t] \in TaskType
      /\ Idle \in TaskType
  BY IdleType DEF TypeOK
<1>1. CASE CollectL1(t)
  <2>1. Live(cache, "L1", task[t].from) \subseteq Entries
    BY <1>1, LiveType DEF TypeOK, CollectL1, Layers
  <2>2. [task[t] EXCEPT !.pc = "save", !.buf = @ \cup Live(cache, "L1", task[t].from)] \in TaskType
    BY <1>a, <2>1
  <2>3. task' \in [Tasks -> TaskType]
    BY <1>1, <2>2 DEF TypeOK, CollectL1
  <2>4. CacheTypeOK'
    BY <1>1, <1>a DEF CollectL1, CacheTypeOK, cacheVars
  <2> QED
    BY <1>1, <1>a, <2>3, <2>4 DEF TypeOK, CollectL1
<1>2. CASE SaveSnapshot(t)
  <2>1. snapshots' \in [Agents -> SUBSET Entries]
    BY <1>2, <1>a DEF TypeOK, SaveSnapshot
  <2>2. CacheTypeOK'
    BY <1>2, <1>a DEF SaveSnapshot, CacheTypeOK, cacheVars
  <2> QED
    BY <1>2, <1>a, <2>1, <2>2 DEF TypeOK, SaveSnapshot
<1>3. CASE SaveFails(t) \/ LoadFails(t) \/ RestoreDone(t)
  BY <1>3, <1>a DEF TypeOK, SaveFails, LoadFails, RestoreDone, CacheTypeOK, cacheVars, Idle
<1>4. ASSUME NEW l \in Layers, ListKeys(t, l)
      PROVE  TypeOK'
  <2>1. LiveKeys(cache, l, task[t].from) \subseteq Mems
    BY DEF LiveKeys
  <2> QED
    BY <1>4, <1>a, <2>1 DEF TypeOK, ListKeys, CacheTypeOK, cacheVars
<1>5. ASSUME NEW l \in Layers, DrainDone(t, l)
      PROVE  TypeOK'
  BY <1>5, <1>a DEF TypeOK, DrainDone, CacheTypeOK, cacheVars, Idle
<1>6. ASSUME NEW l \in Layers, NEW m \in Mems, DrainKey(t, l, m)
      PROVE  TypeOK'
  <2>1. task[t].from \in Agents
    BY <1>6 DEF TypeOK, DrainKey
  <2>2. CacheTypeOK'
    BY <1>6, <1>a, <2>1, InvalidatedType DEF DrainKey, CacheTypeOK
  <2> QED
    BY <1>6, <2>2 DEF TypeOK, DrainKey
<1>7. CASE LoadSnapshot(t)
  <2>1. snapshots[task[t].to] \in SUBSET Entries
    BY <1>7 DEF TypeOK, LoadSnapshot
  <2> QED
    BY <1>7, <1>a, <2>1 DEF TypeOK, LoadSnapshot, CacheTypeOK, cacheVars
<1>8. ASSUME NEW e \in task[t].buf, RestoreEntry(t, e)
      PROVE  TypeOK'
  <2>1. task[t].to \in Agents /\ e \in Entries /\ e.mem \in Mems
    BY <1>8, <1>a DEF TypeOK, RestoreEntry, Entries
  <2>2. CacheTypeOK'
    BY <1>8, <1>a, <2>1, StoredType DEF RestoreEntry, CacheTypeOK
  <2> QED
    BY <1>8, <2>2 DEF TypeOK, RestoreEntry
<1> QED
  BY <1>1, <1>2, <1>3, <1>4, <1>5, <1>6, <1>7, <1>8 DEF Step

LEMMA TypeInductive == TypeOK /\ [Next]_vars => TypeOK'
<1> SUFFICES ASSUME TypeOK, [Next]_vars
             PROVE  TypeOK'
  OBVIOUS
<1>1. ASSUME NEW t \in Tasks, NEW a \in Agents, NEW b \in Agents, BeginSwitch(t, a, b)
      PROVE  TypeOK'
  <2>1. Live(cache, "L0", a) \subseteq Entries
    BY LiveType DEF TypeOK, Layers
  <2> QED
    BY <1>1, <2>1 DEF TypeOK, BeginSwitch, CacheTypeOK, cacheVars, TaskType, Phases
<1>2. ASSUME NEW t \in Tasks, NEW a \in Agents, BeginEvict(t, a)
      PROVE  TypeOK'
  BY <1>2 DEF TypeOK, BeginEvict, CacheTypeOK, cacheVars, TaskType, Phases
<1>3. CASE Crash
  <2>1. CacheTypeOK'
    BY <1>3 DEF TypeOK, Crash, CacheTypeOK, EmptyCache
  <2> QED
    BY <1>3, <2>1, IdleType DEF TypeOK, Crash, Idle
<1>4. CASE UNCHANGED vars
  BY <1>4 DEF TypeOK, CacheTypeOK, vars
<1> QED
  BY <1>1, <1>2, <1>3, <1>4, ClientType, StepType DEF Next

LEMMA InitTypeOK == Init => TypeOK
<1> SUFFICES ASSUME Init PROVE TypeOK
  OBVIOUS
<1>1. CacheTypeOK
  BY MemoryCacheAssumption DEF Init, CacheInit, EmptyCache, CacheTypeOK
<1> QED
  BY <1>1, IdleType DEF Init, TypeOK, Idle

(* Every reachable state is well typed, whatever overlaps and fails.       *)
THEOREM TypeCorrect == Spec => []TypeOK
BY InitTypeOK, TypeInductive, PTL DEF Spec

-----------------------------------------------------------------------------

(***************************************************************************)
(* Isolation and replayable rows.                                          *)
(*                                                                         *)
(* Neither is inductive alone: an entry travels from the cache through the *)
(* buffer of a call to a saved row, and back through the buffer of another *)
(* call.  The invariant says what each of the four places may hold.        *)
(***************************************************************************)

BuffersIsolated ==
    \A t \in Tasks : \A e \in task[t].buf :
        /\ task[t].pc \in {"collectL1", "save"} => e.owner = task[t].from
        /\ task[t].pc = "restore" => e.owner = task[t].to

BuffersReplayable ==
    \A t \in Tasks :
        /\ task[t].pc \in {"collectL1", "save"} => Replayable(task[t].buf)
        /\ task[t].pc = "collectL1" => \A e \in task[t].buf : e.layer = "L0"

IsolationInv ==
    /\ CacheIsolated
    /\ SnapshotsIsolated
    /\ SnapshotsReplayable
    /\ BuffersIsolated
    /\ BuffersReplayable

(* What a collection of one cache returns: the agent's entries, one per id. *)
LEMMA LiveIsolated ==
    ASSUME CacheIsolated, NEW l \in Layers, NEW a \in Agents
    PROVE  /\ \A e \in Live(cache, l, a) : e.owner = a /\ e.layer = l
           /\ Replayable(Live(cache, l, a))
BY DEF CacheIsolated, Live, LiveKeys, Replayable

LEMMA ReplayableUnion ==
    ASSUME NEW S, NEW T, Replayable(S), Replayable(T),
           \A e \in S, f \in T : e.layer # f.layer
    PROVE  Replayable(S \cup T)
BY DEF Replayable

(* Storing an entry under its own key, and invalidating any key, keep the  *)
(* cache isolated.                                                         *)
LEMMA StoredIsolated ==
    ASSUME CacheTypeOK, CacheIsolated, NEW a \in Agents, NEW e \in Entries, e.owner = a,
           cache' = Stored(cache, a, e.mem, e)
    PROVE  CacheIsolated'
BY DEF CacheTypeOK, CacheIsolated, Stored, Entries

LEMMA InvalidatedIsolated ==
    ASSUME CacheTypeOK, CacheIsolated,
           NEW l \in Layers, NEW a \in Agents, NEW m \in Mems,
           cache' = Invalidated(cache, l, a, m)
    PROVE  CacheIsolated'
BY DEF CacheTypeOK, CacheIsolated, Invalidated

LEMMA ClientIsolation ==
    ASSUME TypeOK, IsolationInv, Client
    PROVE  IsolationInv'
<1>a. CacheTypeOK
  BY DEF TypeOK
<1>1. ASSUME NEW a \in Agents, NEW m \in Mems, NEW l \in Layers, Put(a, m, l)
      PROVE  CacheIsolated'
  <2>1. /\ NewEntry(a, m, l) \in Entries
        /\ NewEntry(a, m, l).owner = a
        /\ NewEntry(a, m, l).mem = m
    BY <1>a, MemoryCacheAssumption DEF NewEntry, Entries, CacheTypeOK
  <2> QED
    BY <1>1, <1>a, <2>1, StoredIsolated DEF Put, IsolationInv
<1>2. ASSUME NEW a \in Agents, NEW m \in Mems, NEW l \in Layers, Expire(a, m, l)
      PROVE  CacheIsolated'
  BY <1>2, <1>a, InvalidatedIsolated DEF Expire, IsolationInv
<1>3. ASSUME NEW a \in Agents, NEW m \in Mems, NEW l \in Layers, Remove(a, m, l)
      PROVE  CacheIsolated'
  BY <1>3, <1>a, InvalidatedIsolated DEF Remove, IsolationInv
<1>4. CacheIsolated'
  BY <1>1, <1>2, <1>3 DEF Client
<1> QED
  BY <1>4 DEF Client, IsolationInv, SnapshotsIsolated, SnapshotsReplayable,
              BuffersIsolated, BuffersReplayable

LEMMA StepIsolation ==
    ASSUME TypeOK, IsolationInv, NEW t \in Tasks, Step(t)
    PROVE  IsolationInv'
<1> USE DEF TaskType
<1>a. /\ CacheTypeOK
      /\ task \in [Tasks -> TaskType]
      /\ snapshots \in [Agents -> SUBSET Entries]
      /\ task[t].pc # "idle" => task[t].from \in Agents
      /\ task[t].pc \in {"collectL1", "save", "load", "restore"} => task[t].to \in Agents
  BY DEF TypeOK
<1>b. /\ CacheIsolated
      /\ SnapshotsIsolated
      /\ SnapshotsReplayable
      /\ BuffersIsolated
      /\ BuffersReplayable
  BY DEF IsolationInv
<1>c. ASSUME UNCHANGED cache
      PROVE  CacheIsolated'
  BY <1>b, <1>c DEF CacheIsolated
<1>d. ASSUME UNCHANGED snapshots
      PROVE  SnapshotsIsolated' /\ SnapshotsReplayable'
  BY <1>b, <1>d DEF SnapshotsIsolated, SnapshotsReplayable
<1>1. CASE CollectL1(t)
  <2>1. /\ \A e \in Live(cache, "L1", task[t].from) :
              e.owner = task[t].from /\ e.layer = "L1"
        /\ Replayable(Live(cache, "L1", task[t].from))
    BY <1>1, <1>a, <1>b, LiveIsolated DEF CollectL1, Layers
  <2>2. Replayable(task[t].buf \cup Live(cache, "L1", task[t].from))
    BY <1>1, <1>b, <2>1, ReplayableUnion DEF CollectL1, BuffersReplayable
  <2>3. BuffersIsolated'
    BY <1>1, <1>a, <1>b, <2>1 DEF CollectL1, BuffersIsolated
  <2>4. BuffersReplayable'
    BY <1>1, <1>a, <1>b, <2>2 DEF CollectL1, BuffersReplayable
  <2> QED
    BY <1>1, <1>c, <1>d, <2>3, <2>4 DEF CollectL1, IsolationInv, cacheVars
<1>2. CASE SaveSnapshot(t)
  <2>1. SnapshotsIsolated'
    BY <1>2, <1>a, <1>b DEF SaveSnapshot, SnapshotsIsolated, BuffersIsolated
  <2>2. SnapshotsReplayable'
    BY <1>2, <1>a, <1>b DEF SaveSnapshot, SnapshotsReplayable, BuffersReplayable
  <2>3. BuffersIsolated'
    BY <1>2, <1>a, <1>b DEF SaveSnapshot, BuffersIsolated
  <2>4. BuffersReplayable'
    BY <1>2, <1>a, <1>b DEF SaveSnapshot, BuffersReplayable
  <2> QED
    BY <1>2, <1>c, <2>1, <2>2, <2>3, <2>4 DEF SaveSnapshot, IsolationInv, cacheVars
<1>3. CASE SaveFails(t) \/ LoadFails(t) \/ RestoreDone(t)
  <2>1. task' = [task EXCEPT ![t] = Idle] /\ UNCHANGED <<cache, snapshots>>
    BY <1>3 DEF SaveFails, LoadFails, RestoreDone, cacheVars
  <2>2. BuffersIsolated' /\ BuffersReplayable'
    BY <1>a, <1>b, <2>1 DEF BuffersIsolated, BuffersReplayable, Idle
  <2> QED
    BY <1>c, <1>d, <2>1, <2>2 DEF IsolationInv
<1>4. ASSUME NEW l \in Layers, ListKeys(t, l)
      PROVE  IsolationInv'
  <2>1. BuffersIsolated' /\ BuffersReplayable'
    BY <1>4, <1>a, <1>b DEF ListKeys, BuffersIsolated, BuffersReplayable
  <2> QED
    BY <1>4, <1>c, <1>d, <2>1 DEF ListKeys, IsolationInv, cacheVars
<1>5. ASSUME NEW l \in Layers, DrainDone(t, l)
      PROVE  IsolationInv'
  <2>1. BuffersIsolated' /\ BuffersReplayable'
    BY <1>5, <1>a, <1>b DEF DrainDone, BuffersIsolated, BuffersReplayable, Idle
  <2> QED
    BY <1>5, <1>c, <1>d, <2>1 DEF DrainDone, IsolationInv, cacheVars
<1>6. ASSUME NEW l \in Layers, NEW m \in Mems, DrainKey(t, l, m)
      PROVE  IsolationInv'
  <2>1. CacheIsolated'
    BY <1>6, <1>a, <1>b, InvalidatedIsolated DEF DrainKey
  <2>2. BuffersIsolated' /\ BuffersReplayable'
    BY <1>6, <1>a, <1>b DEF DrainKey, BuffersIsolated, BuffersReplayable
  <2> QED
    BY <1>6, <1>d, <2>1, <2>2 DEF DrainKey, IsolationInv
<1>7. CASE LoadSnapshot(t)
  <2>1. BuffersIsolated' /\ BuffersReplayable'
    BY <1>7, <1>a, <1>b DEF LoadSnapshot, BuffersIsolated, BuffersReplayable, SnapshotsIsolated
  <2> QED
    BY <1>7, <1>c, <1>d, <2>1 DEF LoadSnapshot, IsolationInv, cacheVars
<1>8. ASSUME NEW e \in task[t].buf, RestoreEntry(t, e)
      PROVE  IsolationInv'
  <2>1. e \in Entries /\ e.owner = task[t].to /\ task[t].to \in Agents
    BY <1>8, <1>a, <1>b DEF RestoreEntry, BuffersIsolated
  <2>2. CacheIsolated'
    BY <1>8, <1>a, <1>b, <2>1, StoredIsolated DEF RestoreEntry
  <2>3. BuffersIsolated' /\ BuffersReplayable'
    BY <1>8, <1>a, <1>b DEF RestoreEntry, BuffersIsolated, BuffersReplayable
  <2> QED
    BY <1>8, <1>d, <2>2, <2>3 DEF RestoreEntry, IsolationInv
<1> QED
  BY <1>1, <1>2, <1>3, <1>4, <1>5, <1>6, <1>7, <1>8 DEF Step

LEMMA IsolationInductive == TypeOK /\ IsolationInv /\ [Next]_vars => IsolationInv'
<1> SUFFICES ASSUME TypeOK, IsolationInv, [Next]_vars
             PROVE  IsolationInv'
  OBVIOUS
<1> USE DEF IsolationInv
<1>1. ASSUME NEW t \in Tasks, NEW a \in Agents, NEW b \in Agents, BeginSwitch(t, a, b)
      PROVE  IsolationInv'
  <2>1. /\ \A e \in Live(cache, "L0", a) : e.owner = a /\ e.layer = "L0"
        /\ Replayable(Live(cache, "L0", a))
    BY LiveIsolated DEF Layers
  <2>2. BuffersIsolated'
    BY <1>1, <2>1 DEF TypeOK, BeginSwitch, BuffersIsolated
  <2>3. BuffersReplayable'
    BY <1>1, <2>1 DEF TypeOK, BeginSwitch, BuffersReplayable
  <2> QED
    BY <1>1, <2>2, <2>3
       DEF BeginSwitch, CacheIsolated, SnapshotsIsolated, SnapshotsReplayable, cacheVars
<1>2. ASSUME NEW t \in Tasks, NEW a \in Agents, BeginEvict(t, a)
      PROVE  IsolationInv'
  BY <1>2 DEF TypeOK, BeginEvict, CacheIsolated, SnapshotsIsolated, SnapshotsReplayable,
              BuffersIsolated, BuffersReplayable, cacheVars
<1>3. CASE Crash
  <2>1. CacheIsolated'
    BY <1>3 DEF Crash, CacheIsolated, EmptyCache
  <2>2. BuffersIsolated' /\ BuffersReplayable'
    BY <1>3 DEF Crash, BuffersIsolated, BuffersReplayable, Idle
  <2> QED
    BY <1>3, <2>1, <2>2 DEF Crash, SnapshotsIsolated, SnapshotsReplayable
<1>4. CASE UNCHANGED vars
  BY <1>4 DEF vars, CacheIsolated, SnapshotsIsolated, SnapshotsReplayable,
              BuffersIsolated, BuffersReplayable
<1> QED
  BY <1>1, <1>2, <1>3, <1>4, ClientIsolation, StepIsolation DEF Next

LEMMA IsolationAlways == Spec => []IsolationInv
<1>1. Init => IsolationInv
  <2> SUFFICES ASSUME Init PROVE IsolationInv
    OBVIOUS
  <2>1. CacheIsolated
    BY DEF Init, CacheInit, EmptyCache, CacheIsolated
  <2>2. BuffersIsolated /\ BuffersReplayable
    BY DEF Init, Idle, BuffersIsolated, BuffersReplayable
  <2> QED
    BY <2>1, <2>2 DEF Init, IsolationInv, SnapshotsIsolated, SnapshotsReplayable, Replayable
<1> QED
  BY <1>1, IsolationInductive, TypeCorrect, PTL DEF Spec

(* No interleaving of puts, removals, expiries, switches, evictions, faults *)
(* and crashes brings an entry of one agent into the cache of another.      *)
THEOREM CacheIsolation == Spec => []CacheIsolated
BY IsolationAlways, PTL DEF IsolationInv

(* Nor into the row saved for another agent.                                *)
THEOREM SnapshotIsolation == Spec => []SnapshotsIsolated
BY IsolationAlways, PTL DEF IsolationInv

(* Every saved row restores to one cache content, in whatever order its     *)
(* entries are put back.                                                    *)
THEOREM SnapshotReplay == Spec => []SnapshotsReplayable
BY IsolationAlways, PTL DEF IsolationInv

-----------------------------------------------------------------------------

(***************************************************************************)
(* Sessions are behaviours of the switcher                                 *)
(***************************************************************************)

(* A step of a session is a step of the switcher and its cache, or leaves  *)
(* them alone.                                                             *)
LEMMA SessionStepIsSwitcherStep ==
    ASSUME active \in Agents, [SessionNext]_sessionVars
    PROVE  [Next]_vars
<1>1. ASSUME NEW m \in Mems, NEW l \in Layers, ClientPut(m, l) PROVE [Next]_vars
  BY <1>1 DEF ClientPut, Next, Client
<1>2. ASSUME NEW m \in Mems, NEW l \in Layers, ClientRemove(m, l) PROVE [Next]_vars
  BY <1>2 DEF ClientRemove, Next, Client
<1>3. ASSUME NEW a \in Agents, NEW m \in Mems, NEW l \in Layers, CacheExpires(a, m, l)
      PROVE  [Next]_vars
  BY <1>3 DEF CacheExpires, Next, Client
<1>4. ASSUME NEW t \in Tasks, NEW a \in Agents, ClientSwitch(t, a) PROVE [Next]_vars
  BY <1>4 DEF ClientSwitch, Next
<1>5. ASSUME NEW t \in Tasks, NEW a \in Agents, ClientEvict(t, a) PROVE [Next]_vars
  BY <1>5 DEF ClientEvict, Next
<1>6. ASSUME NEW t \in Tasks, SwitchStep(t) PROVE [Next]_vars
  BY <1>6 DEF SwitchStep, Next
<1>7. CASE SessionCrash
  BY <1>7 DEF SessionCrash, Next
<1>8. CASE UNCHANGED sessionVars
  BY <1>8 DEF sessionVars
<1> QED
  BY <1>1, <1>2, <1>3, <1>4, <1>5, <1>6, <1>7, <1>8 DEF SessionNext

(* The client always works with an agent: the calls it makes name agents.  *)
SessionTypeOK ==
    /\ TypeOK
    /\ active \in Agents
    /\ owned \in [Agents -> [Layers -> [Mems -> Entries \cup {NoEntry}]]]

LEMMA OwnedType ==
    ASSUME SessionTypeOK, [SessionNext]_sessionVars
    PROVE  owned' \in [Agents -> [Layers -> [Mems -> Entries \cup {NoEntry}]]]
<1> USE DEF SessionTypeOK
<1>a. puts \in Nat
  BY MemoryCacheAssumption DEF TypeOK, CacheTypeOK
<1>1. ASSUME NEW m \in Mems, NEW l \in Layers, ClientPut(m, l)
      PROVE  owned' \in [Agents -> [Layers -> [Mems -> Entries \cup {NoEntry}]]]
  <2>1. NewEntry(active, m, l) \in Entries
    BY <1>a DEF NewEntry, Entries
  <2> QED
    BY <1>1, <2>1 DEF ClientPut
<1>2. ASSUME NEW m \in Mems, NEW l \in Layers, ClientRemove(m, l)
      PROVE  owned' \in [Agents -> [Layers -> [Mems -> Entries \cup {NoEntry}]]]
  BY <1>2 DEF ClientRemove
<1>3. ASSUME NEW a \in Agents, NEW m \in Mems, NEW l \in Layers, CacheExpires(a, m, l)
      PROVE  owned' \in [Agents -> [Layers -> [Mems -> Entries \cup {NoEntry}]]]
  BY <1>3 DEF CacheExpires
<1>4. ASSUME NEW t \in Tasks, NEW a \in Agents, ClientEvict(t, a)
      PROVE  owned' \in [Agents -> [Layers -> [Mems -> Entries \cup {NoEntry}]]]
  BY <1>4 DEF ClientEvict, NothingOwned
<1>5. CASE SessionCrash
  <2>1. \A a \in Agents, l \in Layers, m \in Mems : SavedEntry(a, l, m) \in Entries \cup {NoEntry}
    BY DEF SavedEntry, TypeOK
  <2> QED
    BY <1>5, <2>1 DEF SessionCrash
<1> QED
  BY <1>1, <1>2, <1>3, <1>4, <1>5 DEF SessionNext, ClientSwitch, SwitchStep, sessionVars

LEMMA InitSessionType == SessionInit => SessionTypeOK
BY InitTypeOK DEF SessionInit, SessionTypeOK, NothingOwned

LEMMA SessionTypeInductive == SessionTypeOK /\ [SessionNext]_sessionVars => SessionTypeOK'
<1> SUFFICES ASSUME SessionTypeOK, [SessionNext]_sessionVars
             PROVE  SessionTypeOK'
  OBVIOUS
<1>1. TypeOK'
  BY SessionStepIsSwitcherStep, TypeInductive DEF SessionTypeOK
<1>2. ASSUME NEW t \in Tasks, SwitchStep(t) PROVE active' \in Agents
  BY <1>2 DEF SwitchStep, SessionTypeOK, TypeOK
<1>3. active' \in Agents
  BY <1>2 DEF SessionNext, ClientPut, ClientRemove, CacheExpires, ClientSwitch,
              ClientEvict, SessionCrash, sessionVars, SessionTypeOK
<1> QED
  BY <1>1, <1>3, OwnedType DEF SessionTypeOK

LEMMA SessionTypeAlways == SessionSpec => []SessionTypeOK
BY InitSessionType, SessionTypeInductive, PTL DEF SessionSpec

(* Every session of the switcher, with overlapping calls or without, is a  *)
(* behaviour of AgentSwitch.                                               *)
THEOREM SessionImplementsSwitcher == SessionSpec => Spec
<1>1. SessionInit => Init
  BY DEF SessionInit
<1>2. SessionTypeOK /\ [SessionNext]_sessionVars => [Next]_vars
  BY SessionStepIsSwitcherStep DEF SessionTypeOK
<1> QED
  BY <1>1, <1>2, SessionTypeAlways, PTL DEF SessionSpec, Spec

(* No session brings one agent's entries into another agent's cache or     *)
(* row, or two versions of an entry into a row.                            *)
THEOREM SessionIsolation == SessionSpec => [](CacheIsolated /\ SnapshotsIsolated /\ SnapshotsReplayable)
BY SessionImplementsSwitcher, CacheIsolation, SnapshotIsolation, SnapshotReplay, PTL

-----------------------------------------------------------------------------

(***************************************************************************)
(* What an unexposed entry relies on                                       *)
(***************************************************************************)

(* Everything put so far is exposed.                                       *)
AllExposed == 1..puts \subseteq exposed

Running(t) == task[t].pc # "idle"

Switching(t) == Running(t) /\ task[t].to # NoAgent

(* The row of the outgoing agent has been written.                         *)
Saved(t) == Switching(t) /\ task[t].pc \notin {"collectL1", "save"}

(* Versions are numbers already given out.                                 *)
VersionsKnown ==
    /\ \A l \in Layers, a \in Agents, m \in Mems :
          cache[l][a][m] # NoEntry => cache[l][a][m].ver \in 1..puts
    /\ \A a \in Agents : \A e \in snapshots[a] : e.ver \in 1..puts
    /\ \A t \in Tasks : \A e \in task[t].buf : e.ver \in 1..puts

(* What the client owns is an entry of its place.                          *)
OwnedInPlace ==
    \A a \in Agents, l \in Layers, m \in Mems :
        LET e == owned[a][l][m] IN
        e # NoEntry => e \in Entries /\ e.mem = m /\ e.layer = l /\ e.owner = a /\ e.ver \in 1..puts

(* Two calls at once, and a switch away from an agent the client has left, *)
(* leave nothing unexposed.                                                *)
ContestedIsExposed ==
    \/ AllExposed
    \/ /\ \A t, u \in Tasks : Running(t) /\ Running(u) => t = u
       /\ \A t \in Tasks : Switching(t) => task[t].from = active

(* Where e, which the client owns at this place and which is not exposed,  *)
(* has to be.                                                              *)
InItsPlace(e, a, l, m) ==
    /\ a = active => \/ cache[l][a][m] = e
                     \/ \E t \in Tasks : Saved(t)
    /\ a = active /\ (\E t \in Tasks : Saved(t)) => e \in snapshots[a]
    /\ a # active => e \in snapshots[a]

InItsBuffer(e, a, l, m, t) ==
    /\ Running(t) /\ task[t].to = NoAgent => task[t].from # a
    /\ a = active /\ Switching(t) /\ task[t].pc = "collectL1" /\ l = "L0" => e \in task[t].buf
    /\ a = active /\ Switching(t) /\ task[t].pc = "save" => e \in task[t].buf
    /\ task[t].pc = "restore" /\ task[t].to = a =>
          /\ e \in task[t].buf \/ cache[l][a][m] = e
          /\ \A f \in task[t].buf : f.layer = l /\ f.mem = m => f = e

UnexposedInPlace ==
    \A a \in Agents, l \in Layers, m \in Mems :
        LET e == owned[a][l][m] IN
        e # NoEntry /\ e.ver \notin exposed =>
            /\ InItsPlace(e, a, l, m)
            /\ \A t \in Tasks : InItsBuffer(e, a, l, m, t)

SessionInv ==
    /\ VersionsKnown
    /\ OwnedInPlace
    /\ ContestedIsExposed
    /\ UnexposedInPlace

(***************************************************************************)
(* What the operations do to one place of the cache                        *)
(***************************************************************************)

LEMMA StoredAt ==
    ASSUME CacheTypeOK, NEW a \in Agents, NEW e \in Entries, cache' = Stored(cache, a, e.mem, e),
           NEW b \in Agents, NEW l \in Layers, NEW m \in Mems
    PROVE  cache'[l][b][m] = IF b = a /\ l = e.layer /\ m = e.mem THEN e ELSE cache[l][b][m]
BY DEF CacheTypeOK, Stored, Entries

LEMMA InvalidatedAt ==
    ASSUME CacheTypeOK, NEW k \in Layers, NEW a \in Agents, NEW n \in Mems,
           cache' = Invalidated(cache, k, a, n),
           NEW b \in Agents, NEW l \in Layers, NEW m \in Mems
    PROVE  cache'[l][b][m] = IF b = a /\ l = k /\ m = n THEN NoEntry ELSE cache[l][b][m]
BY DEF CacheTypeOK, Invalidated

LEMMA CollectedIsLive ==
    ASSUME NEW l \in Layers, NEW a \in Agents, NEW m \in Mems, cache[l][a][m] # NoEntry
    PROVE  cache[l][a][m] \in Live(cache, l, a)
BY DEF Live, LiveKeys

LEMMA LiveIsCached ==
    ASSUME NEW l \in Layers, NEW a \in Agents, NEW e \in Live(cache, l, a)
    PROVE  \E m \in Mems : e = cache[l][a][m] /\ e # NoEntry
BY DEF Live, LiveKeys

LEMMA NewEntryIs ==
    ASSUME puts \in Nat, NEW a \in Agents, NEW m \in Mems, NEW l \in Layers
    PROVE  /\ NewEntry(a, m, l) \in Entries
           /\ NewEntry(a, m, l).owner = a
           /\ NewEntry(a, m, l).mem = m
           /\ NewEntry(a, m, l).layer = l
           /\ NewEntry(a, m, l).ver = puts + 1
           /\ NewEntry(a, m, l) # NoEntry
BY MemoryCacheAssumption DEF NewEntry, Entries, Layers

(***************************************************************************)
(* Versions                                                                *)
(***************************************************************************)

LEMMA VersionsStep ==
    ASSUME TypeOK, VersionsKnown, [Next]_vars
    PROVE  VersionsKnown'
<1>a. /\ puts \in Nat /\ CacheTypeOK /\ task \in [Tasks -> TaskType]
      /\ snapshots \in [Agents -> SUBSET Entries]
  BY MemoryCacheAssumption DEF TypeOK, CacheTypeOK
<1>1. CASE Client
  <2>1. ASSUME NEW a \in Agents, NEW n \in Mems, NEW k \in Layers, Put(a, n, k)
        PROVE  VersionsKnown'
    <3>1. puts' = puts + 1 /\ cache' = Stored(cache, a, n, NewEntry(a, n, k))
      BY <2>1 DEF Put
    <3>2. \A l \in Layers, b \in Agents, m \in Mems :
              cache'[l][b][m] # NoEntry => cache'[l][b][m].ver \in 1..puts'
      <4> SUFFICES ASSUME NEW l \in Layers, NEW b \in Agents, NEW m \in Mems,
                          cache'[l][b][m] # NoEntry
                   PROVE  cache'[l][b][m].ver \in 1..puts'
        OBVIOUS
      <4>1. \/ cache'[l][b][m] = NewEntry(a, n, k)
            \/ cache'[l][b][m] = cache[l][b][m]
        BY <1>a, <3>1, NewEntryIs, StoredAt
      <4> QED
        BY <4>1, <1>a, <3>1, NewEntryIs DEF VersionsKnown
    <3> QED
      BY <1>1, <1>a, <3>1, <3>2 DEF VersionsKnown, Client
  <2>2. ASSUME NEW a \in Agents, NEW n \in Mems, NEW k \in Layers, Expire(a, n, k)
        PROVE  VersionsKnown'
    BY <1>1, <1>a, <2>2, InvalidatedAt DEF Expire, VersionsKnown, Client
  <2>3. ASSUME NEW a \in Agents, NEW n \in Mems, NEW k \in Layers, Remove(a, n, k)
        PROVE  VersionsKnown'
    <3>1. puts' = puts
      BY <2>3 DEF Remove
    <3> QED
      BY <1>1, <1>a, <2>3, <3>1, InvalidatedAt DEF Remove, VersionsKnown, Client
  <2> QED
    BY <1>1, <2>1, <2>2, <2>3 DEF Client
<1>2. ASSUME NEW t \in Tasks, NEW a \in Agents, NEW b \in Agents, BeginSwitch(t, a, b)
      PROVE  VersionsKnown'
  <2>1. \A e \in Live(cache, "L0", a) : e.ver \in 1..puts
    BY LiveIsCached DEF VersionsKnown, Layers
  <2> QED
    BY <1>2, <1>a, <2>1 DEF BeginSwitch, VersionsKnown, cacheVars
<1>3. ASSUME NEW t \in Tasks, NEW a \in Agents, BeginEvict(t, a)
      PROVE  VersionsKnown'
  BY <1>3, <1>a DEF BeginEvict, VersionsKnown, cacheVars
<1>4. ASSUME NEW t \in Tasks, Step(t)
      PROVE  VersionsKnown'
  <2>1. CASE CollectL1(t)
    <3>1. task[t].from \in Agents
      BY <2>1 DEF CollectL1, TypeOK
    <3>2. \A e \in Live(cache, "L1", task[t].from) : e.ver \in 1..puts
      BY <3>1, LiveIsCached DEF VersionsKnown, Layers
    <3> QED
      BY <2>1, <1>a, <3>2 DEF CollectL1, VersionsKnown, cacheVars
  <2>2. CASE SaveSnapshot(t)
    BY <2>2, <1>a DEF SaveSnapshot, VersionsKnown, cacheVars
  <2>3. CASE SaveFails(t) \/ LoadFails(t) \/ RestoreDone(t)
    BY <2>3, <1>a DEF SaveFails, LoadFails, RestoreDone, VersionsKnown, cacheVars, Idle
  <2>4. ASSUME NEW l \in Layers, ListKeys(t, l) \/ DrainDone(t, l)
        PROVE  VersionsKnown'
    <3>1. \A u \in Tasks : task'[u].buf \subseteq task[u].buf
      <4>1. CASE ListKeys(t, l)
        BY <4>1, <1>a DEF ListKeys, TaskType
      <4>2. CASE DrainDone(t, l)
        BY <4>2, <1>a DEF DrainDone, TaskType, Idle
      <4> QED
        BY <2>4, <4>1, <4>2
    <3> QED
      BY <2>4, <1>a, <3>1 DEF ListKeys, DrainDone, VersionsKnown, cacheVars
  <2>5. ASSUME NEW l \in Layers, NEW m \in Mems, DrainKey(t, l, m)
        PROVE  VersionsKnown'
    <3>1. task[t].from \in Agents
      BY <2>5 DEF DrainKey, TypeOK
    <3>2. \A k \in Layers, b \in Agents, n \in Mems :
              cache'[k][b][n] = NoEntry \/ cache'[k][b][n] = cache[k][b][n]
      BY <2>5, <1>a, <3>1, InvalidatedAt DEF DrainKey
    <3> QED
      BY <2>5, <1>a, <3>2 DEF DrainKey, VersionsKnown
  <2>6. CASE LoadSnapshot(t)
    <3>1. task[t].to \in Agents
      BY <2>6 DEF LoadSnapshot, TypeOK
    <3> QED
      BY <2>6, <1>a, <3>1 DEF LoadSnapshot, VersionsKnown, cacheVars
  <2>7. ASSUME NEW e \in task[t].buf, RestoreEntry(t, e)
        PROVE  VersionsKnown'
    <3>1. task[t].to \in Agents /\ e \in Entries /\ e.ver \in 1..puts
      BY <2>7, <1>a DEF RestoreEntry, TypeOK, TaskType, VersionsKnown
    <3>2. cache' = Stored(cache, task[t].to, e.mem, e)
      BY <2>7 DEF RestoreEntry
    <3>3. \A l \in Layers, b \in Agents, m \in Mems :
              cache'[l][b][m] = e \/ cache'[l][b][m] = cache[l][b][m]
      BY <1>a, <3>1, <3>2, StoredAt
    <3> QED
      BY <2>7, <1>a, <3>1, <3>3 DEF RestoreEntry, VersionsKnown
  <2> QED
    BY <1>4, <2>1, <2>2, <2>3, <2>4, <2>5, <2>6, <2>7 DEF Step
<1>5. CASE Crash
  BY <1>5, <1>a DEF Crash, VersionsKnown, EmptyCache, Idle
<1>6. CASE UNCHANGED vars
  BY <1>6 DEF vars, VersionsKnown
<1> QED
  BY <1>1, <1>2, <1>3, <1>4, <1>5, <1>6 DEF Next

(* A step of one call leaves the others and its own agents alone.          *)
OwnStep(t) ==
    /\ puts' = puts /\ Running(t)
    /\ \A u \in Tasks : u # t => task'[u] = task[u]
    /\ Running(t)' => task'[t].from = task[t].from /\ task'[t].to = task[t].to

LEMMA StepIsOwn ==
    ASSUME task \in [Tasks -> TaskType], NEW t \in Tasks, Step(t)
    PROVE  OwnStep(t)
<1> USE DEF OwnStep
<1>1. ASSUME NEW l \in Layers, ListKeys(t, l) \/ DrainDone(t, l)
      PROVE  OwnStep(t)
  <2>1. CASE ListKeys(t, l)
    BY <2>1 DEF ListKeys, Running, TaskType, cacheVars
  <2>2. CASE DrainDone(t, l)
    BY <2>2 DEF DrainDone, Running, Idle, TaskType, cacheVars
  <2> QED
    BY <1>1, <2>1, <2>2
<1>2. ASSUME NEW l \in Layers, NEW m \in Mems, DrainKey(t, l, m)
      PROVE  OwnStep(t)
  BY <1>2 DEF DrainKey, Running, TaskType
<1>3. ASSUME NEW e \in task[t].buf, RestoreEntry(t, e)
      PROVE  OwnStep(t)
  BY <1>3 DEF RestoreEntry, Running, TaskType
<1>4. CASE CollectL1(t) \/ SaveSnapshot(t) \/ LoadSnapshot(t)
  BY <1>4 DEF CollectL1, SaveSnapshot, LoadSnapshot, Running, TaskType, cacheVars
<1>5. CASE SaveFails(t) \/ LoadFails(t) \/ RestoreDone(t)
  BY <1>5 DEF SaveFails, LoadFails, RestoreDone, Running, Idle, TaskType, cacheVars
<1> QED
  BY <1>1, <1>2, <1>3, <1>4, <1>5 DEF Step

(***************************************************************************)
(* What the client owns                                                    *)
(***************************************************************************)

LEMMA OwnedStep ==
    ASSUME SessionTypeOK, VersionsKnown, SnapshotsIsolated, OwnedInPlace,
           [SessionNext]_sessionVars
    PROVE  OwnedInPlace'
<1>a. puts \in Nat /\ active \in Agents
  BY MemoryCacheAssumption DEF SessionTypeOK, TypeOK, CacheTypeOK
<1> SUFFICES ASSUME NEW a \in Agents, NEW l \in Layers, NEW m \in Mems, NEW e,
                    e = owned'[a][l][m], e # NoEntry
             PROVE  e \in Entries /\ e.mem = m /\ e.layer = l /\ e.owner = a /\ e.ver \in 1..puts'
  BY DEF OwnedInPlace
<1>b. puts' \in Nat /\ puts <= puts'
  <2>1. ASSUME NEW t \in Tasks, SwitchStep(t) PROVE puts' = puts
    BY <2>1, StepIsOwn DEF SwitchStep, OwnStep, SessionTypeOK, TypeOK
  <2>2. ASSUME NEW n \in Mems, NEW k \in Layers, ClientPut(n, k) PROVE puts' = puts + 1
    BY <2>2 DEF ClientPut, Put
  <2>3. puts' = puts \/ puts' = puts + 1
    BY <2>1, <2>2 DEF SessionNext, ClientRemove, CacheExpires, ClientSwitch, ClientEvict,
                      SessionCrash, sessionVars, vars, Remove, Expire, BeginSwitch, BeginEvict,
                      Crash, cacheVars
  <2> QED
    BY <1>a, <2>3
<1>c. e = owned[a][l][m] => e \in Entries /\ e.mem = m /\ e.layer = l /\ e.owner = a /\ e.ver \in 1..puts'
  BY <1>a, <1>b DEF OwnedInPlace
<1>1. ASSUME NEW n \in Mems, NEW k \in Layers, ClientPut(n, k)
      PROVE  \/ e = owned[a][l][m]
             \/ e = NewEntry(a, m, l) /\ puts' = puts + 1
  BY <1>1 DEF ClientPut, Put, SessionTypeOK
<1>2. ASSUME NEW n \in Mems, NEW k \in Layers, ClientRemove(n, k)
      PROVE  e = owned[a][l][m]
  BY <1>2 DEF ClientRemove, SessionTypeOK
<1>3. ASSUME NEW b \in Agents, NEW n \in Mems, NEW k \in Layers, CacheExpires(b, n, k)
      PROVE  e = owned[a][l][m]
  BY <1>3 DEF CacheExpires, SessionTypeOK
<1>4. ASSUME NEW t \in Tasks, NEW b \in Agents, ClientEvict(t, b)
      PROVE  e = owned[a][l][m]
  BY <1>4 DEF ClientEvict, NothingOwned, SessionTypeOK
<1>5. ASSUME SessionCrash
      PROVE  e \in snapshots[a] /\ e.layer = l /\ e.mem = m /\ puts' = puts
  <2>1. e = SavedEntry(a, l, m) /\ puts' = puts
    BY <1>5 DEF SessionCrash, Crash
  <2> QED
    BY <2>1 DEF SavedEntry
<1>6. CASE e = NewEntry(a, m, l) /\ puts' = puts + 1
  BY <1>6, <1>a, NewEntryIs
<1>7. CASE e \in snapshots[a] /\ e.layer = l /\ e.mem = m /\ puts' = puts
  BY <1>7 DEF SessionTypeOK, TypeOK, SnapshotsIsolated, VersionsKnown
<1> QED
  BY <1>c, <1>1, <1>2, <1>3, <1>4, <1>5, <1>6, <1>7
     DEF SessionNext, ClientSwitch, SwitchStep, sessionVars

(***************************************************************************)
(* Contested calls                                                         *)
(***************************************************************************)

LEMMA ContestedStep ==
    ASSUME SessionTypeOK, ContestedIsExposed, [SessionNext]_sessionVars
    PROVE  ContestedIsExposed'
<1>a. puts \in Nat /\ active \in Agents /\ task \in [Tasks -> TaskType]
  BY MemoryCacheAssumption DEF SessionTypeOK, TypeOK, CacheTypeOK
<1>1. ASSUME NEW n \in Mems, NEW k \in Layers, ClientPut(n, k)
      PROVE  ContestedIsExposed'
  <2>1. UNCHANGED <<task, active>> /\ puts' = puts + 1
    BY <1>1 DEF ClientPut, Put
  <2>2. CASE Quiet
    BY <2>1, <2>2 DEF Quiet, ContestedIsExposed, Running, Switching
  <2>3. CASE ~Quiet
    <3>1. exposed' = exposed \cup {puts + 1}
      BY <1>1, <2>3 DEF ClientPut
    <3>2. AllExposed => AllExposed'
      BY <2>1, <3>1, <1>a DEF AllExposed
    <3> QED
      BY <2>1, <3>2 DEF ContestedIsExposed, Running, Switching
  <2> QED
    BY <2>2, <2>3
<1>2. CASE \/ \E n \in Mems, k \in Layers : ClientRemove(n, k)
           \/ \E b \in Agents, n \in Mems, k \in Layers : CacheExpires(b, n, k)
  <2>1. UNCHANGED <<task, active, puts, exposed>>
    BY <1>2 DEF ClientRemove, CacheExpires, Remove, Expire
  <2> QED
    BY <2>1 DEF ContestedIsExposed, AllExposed, Running, Switching
<1>3. ASSUME NEW t \in Tasks, NEW b \in Agents, ClientSwitch(t, b) \/ ClientEvict(t, b)
      PROVE  ContestedIsExposed'
  <2>1. puts' = puts /\ active' = active /\ ExposeAllIf(~Quiet)
    BY <1>3 DEF ClientSwitch, ClientEvict, BeginSwitch, BeginEvict, cacheVars
  <2>2. CASE ~Quiet
    BY <2>1, <2>2 DEF ExposeAllIf, ContestedIsExposed, AllExposed
  <2>3. CASE Quiet
    <3>1. \A u \in Tasks : u # t => task'[u] = task[u]
      BY <1>3, <1>a DEF ClientSwitch, ClientEvict, BeginSwitch, BeginEvict
    <3>2. \A u \in Tasks : u # t => ~Running(u)'
      BY <2>3, <3>1 DEF Quiet, Running
    <3>3. Switching(t)' => task'[t].from = active
      BY <1>3, <1>a DEF ClientSwitch, ClientEvict, BeginSwitch, BeginEvict, Switching, Running
    <3> QED
      BY <2>1, <3>2, <3>3 DEF ContestedIsExposed, Switching
  <2> QED
    BY <2>2, <2>3
<1>4. ASSUME NEW t \in Tasks, SwitchStep(t)
      PROVE  ContestedIsExposed'
  <2>1. OwnStep(t)
    BY <1>4, <1>a, StepIsOwn DEF SwitchStep
  <2>2. AllExposed => AllExposed'
    BY <1>4, <2>1 DEF OwnStep, SwitchStep, ExposeAllIf, AllExposed
  <2>3. Running(t)' => active' = active
    <3>1. task[t].pc = "restore" /\ task[t].buf = {} => task'[t].pc = "idle"
      BY <1>4, <1>a DEF SwitchStep, Step, CollectL1, SaveSnapshot, SaveFails, ListKeys, DrainDone,
                        DrainKey, LoadSnapshot, LoadFails, RestoreEntry, RestoreDone, Idle
    <3> QED
      BY <1>4, <3>1 DEF SwitchStep, Running
  <2>4. CASE \A u, v \in Tasks : Running(u) /\ Running(v) => u = v
    <3>1. \A u \in Tasks : u # t => ~Running(u)'
      BY <2>1, <2>4 DEF OwnStep, Running
    <3> QED
      BY <2>1, <2>2, <2>3, <3>1 DEF OwnStep, ContestedIsExposed, Switching
  <2> QED
    BY <2>2, <2>4 DEF ContestedIsExposed
<1>5. CASE SessionCrash
  BY <1>5 DEF SessionCrash, Crash, ExposeAllIf, ContestedIsExposed, AllExposed
<1>6. CASE UNCHANGED sessionVars
  BY <1>6 DEF sessionVars, vars, ContestedIsExposed, AllExposed, Running, Switching
<1> QED
  BY <1>1, <1>2, <1>3, <1>4, <1>5, <1>6 DEF SessionNext

(***************************************************************************)
(* Where unexposed entries are                                             *)
(***************************************************************************)

Placed(e, a, l, m) ==
    /\ InItsPlace(e, a, l, m)
    /\ \A t \in Tasks : InItsBuffer(e, a, l, m, t)

Uncontested ==
    /\ \A t, u \in Tasks : Running(t) /\ Running(u) => t = u
    /\ \A t \in Tasks : Switching(t) => task[t].from = active

(* The steps of the one running call t, seen from the place of e.          *)
LEMMA CallKeepsPlace ==
    ASSUME SessionTypeOK, IsolationInv, Uncontested,
           NEW a \in Agents, NEW l \in Layers, NEW m \in Mems, NEW e \in Entries,
           e.owner = a, e.mem = m, e.layer = l, e # NoEntry, e.ver \in 1..puts,
           Placed(e, a, l, m),
           NEW t \in Tasks, SwitchStep(t), e.ver \notin exposed'
    PROVE  Placed(e, a, l, m)'
<1>a. /\ task \in [Tasks -> TaskType] /\ active \in Agents /\ CacheTypeOK
      /\ snapshots \in [Agents -> SUBSET Entries]
      /\ task[t] \in TaskType
  BY DEF SessionTypeOK, TypeOK
<1>b. OwnStep(t)
  BY <1>a, StepIsOwn DEF SwitchStep
<1>c. \A u \in Tasks : u # t => ~Running(u) /\ ~Running(u)'
  BY <1>b DEF OwnStep, Uncontested, Running
<1>d. \A u \in Tasks : Saved(u) \/ Saved(u)' => u = t
  BY <1>c DEF Saved, Switching
<1>e. \A u \in Tasks : u # t => InItsBuffer(e, a, l, m, u)'
  BY <1>c DEF InItsBuffer, Running, Switching
<1>f. /\ Running(t)
      /\ Switching(t) => task[t].from = active
      /\ InItsPlace(e, a, l, m)
      /\ InItsBuffer(e, a, l, m, t)
  BY <1>b DEF OwnStep, Uncontested, Placed
<1>g. AgentSwitchAssumption
  BY AgentSwitchAssumption
<1> SUFFICES InItsPlace(e, a, l, m)' /\ InItsBuffer(e, a, l, m, t)'
  BY <1>e DEF Placed
<1> USE <1>a
<1>1. CASE CollectL1(t)
  <2>1. /\ task'[t].pc = "save" /\ task'[t].from = task[t].from /\ task'[t].to = task[t].to
        /\ task'[t].buf = task[t].buf \cup Live(cache, "L1", task[t].from)
        /\ task[t].pc = "collectL1" /\ task[t].to \in Agents
        /\ UNCHANGED <<cache, snapshots>> /\ active' = active
    BY <1>1 DEF CollectL1, cacheVars, SwitchStep, SessionTypeOK, TypeOK, TaskType
  <2>2. Switching(t) /\ ~Saved(t) /\ ~Saved(t)' /\ task[t].from = active
    BY <2>1, <1>f, <1>g DEF Switching, Saved, Running, AgentSwitchAssumption
  <2>3. InItsPlace(e, a, l, m)'
    BY <1>d, <1>f, <2>1, <2>2 DEF InItsPlace
  <2>4. a = active => e \in task'[t].buf
    <3> SUFFICES ASSUME a = active PROVE e \in task'[t].buf
      OBVIOUS
    <3>1. cache[l][a][m] = e
      BY <1>d, <1>f, <2>2 DEF InItsPlace
    <3>2. CASE l = "L0"
      BY <1>f, <2>1, <2>2, <3>2 DEF InItsBuffer
    <3>3. CASE l = "L1"
      BY <2>1, <2>2, <3>1, <3>3, CollectedIsLive
    <3> QED
      BY <3>2, <3>3 DEF Layers
  <2> QED
    BY <2>1, <2>3, <2>4, <1>g DEF InItsBuffer, AgentSwitchAssumption
<1>2. CASE SaveSnapshot(t)
  <2>1. /\ task'[t].pc = "listL0" /\ task'[t].from = task[t].from /\ task'[t].to = task[t].to
        /\ task[t].pc = "save" /\ task[t].to \in Agents
        /\ snapshots' = [snapshots EXCEPT ![task[t].from] = task[t].buf]
        /\ UNCHANGED cache /\ active' = active
    BY <1>2 DEF SaveSnapshot, cacheVars, SwitchStep, SessionTypeOK, TypeOK, TaskType
  <2>2. Switching(t) /\ ~Saved(t) /\ Saved(t)' /\ task[t].from = active
    BY <2>1, <1>f, <1>g DEF Switching, Saved, Running, AgentSwitchAssumption
  <2>3. e \in snapshots'[a]
    <3>1. CASE a = active
      BY <3>1, <2>1, <2>2, <1>f DEF InItsBuffer
    <3>2. CASE a # active
      BY <3>2, <2>1, <2>2, <1>f DEF InItsPlace
    <3> QED
      BY <3>1, <3>2
  <2> QED
    BY <2>1, <2>2, <2>3, <1>g DEF InItsPlace, InItsBuffer, AgentSwitchAssumption
<1>3. CASE SaveFails(t)
  <2>1. /\ task'[t] = Idle /\ task[t].pc = "save"
        /\ UNCHANGED <<cache, snapshots>> /\ active' = active
    BY <1>3 DEF SaveFails, cacheVars, SwitchStep
  <2>2. ~Saved(t) /\ ~Saved(t)'
    BY <2>1 DEF Saved, Switching, Running, Idle
  <2> QED
    BY <2>1, <2>2, <1>d, <1>f DEF InItsPlace, InItsBuffer, Idle, Running, Switching
<1>4. ASSUME NEW k \in Layers, ListKeys(t, k)
      PROVE  InItsPlace(e, a, l, m)' /\ InItsBuffer(e, a, l, m, t)'
  <2>1. /\ task[t].pc \in {"listL0", "listL1"} /\ task'[t].pc \in {"drainL0", "drainL1"}
        /\ task'[t].from = task[t].from /\ task'[t].to = task[t].to
        /\ UNCHANGED <<cache, snapshots>> /\ active' = active
    BY <1>4 DEF ListKeys, cacheVars, SwitchStep, TaskType
  <2>2. Saved(t)' = Saved(t)
    BY <2>1 DEF Saved, Switching, Running
  <2> QED
    BY <2>1, <2>2, <1>d, <1>f DEF InItsPlace, InItsBuffer, Running, Switching
<1>5. ASSUME NEW k \in Layers, NEW n \in Mems, DrainKey(t, k, n)
      PROVE  InItsPlace(e, a, l, m)' /\ InItsBuffer(e, a, l, m, t)'
  <2>1. /\ task[t].pc \in {"drainL0", "drainL1"} /\ task'[t].pc = task[t].pc
        /\ task'[t].from = task[t].from /\ task'[t].to = task[t].to
        /\ UNCHANGED snapshots /\ active' = active
        /\ cache' = Invalidated(cache, k, task[t].from, n) /\ task[t].from \in Agents
    BY <1>5 DEF DrainKey, SwitchStep, TaskType, SessionTypeOK, TypeOK
  <2>2. Saved(t)' = Saved(t)
    BY <2>1 DEF Saved, Switching, Running
  <2>3. cache'[l][a][m] = cache[l][a][m] \/ a = task[t].from
    BY <2>1, InvalidatedAt
  <2>4. a = active /\ a = task[t].from => Saved(t)
    BY <2>1, <1>f DEF InItsBuffer, Saved, Switching
  <2> QED
    BY <2>1, <2>2, <2>3, <2>4, <1>d, <1>f DEF InItsPlace, InItsBuffer, Running, Switching
<1>6. ASSUME NEW k \in Layers, DrainDone(t, k)
      PROVE  InItsPlace(e, a, l, m)' /\ InItsBuffer(e, a, l, m, t)'
  <2>1. /\ task[t].pc \in {"drainL0", "drainL1"}
        /\ UNCHANGED <<cache, snapshots>> /\ active' = active
        /\ \/ /\ task'[t].pc \in {"listL1", "load"}
              /\ task'[t].from = task[t].from /\ task'[t].to = task[t].to
           \/ task[t].to = NoAgent /\ task'[t] = Idle
    BY <1>6 DEF DrainDone, cacheVars, SwitchStep, TaskType
  <2>2. Saved(t)' = Saved(t)
    BY <2>1 DEF Saved, Switching, Running, Idle
  <2> QED
    BY <2>1, <2>2, <1>d, <1>f DEF InItsPlace, InItsBuffer, Running, Switching, Idle
<1>7. CASE LoadSnapshot(t)
  <2>1. /\ task[t].pc = "load" /\ task'[t].pc = "restore" /\ task[t].to \in Agents
        /\ task'[t].from = task[t].from /\ task'[t].to = task[t].to
        /\ task'[t].buf = snapshots[task[t].to]
        /\ UNCHANGED <<cache, snapshots>> /\ active' = active
    BY <1>7 DEF LoadSnapshot, cacheVars, SwitchStep, TaskType, SessionTypeOK, TypeOK
  <2>2. Saved(t) /\ Saved(t)'
    BY <2>1, <1>g DEF Saved, Switching, Running, AgentSwitchAssumption
  <2>3. e \in snapshots[a]
    BY <2>2, <1>f DEF InItsPlace
  <2>4. \A f \in snapshots[a] : f.layer = l /\ f.mem = m => f = e
    BY <2>3 DEF IsolationInv, SnapshotsReplayable, Replayable
  <2> QED
    BY <2>1, <2>2, <2>3, <2>4, <1>g DEF InItsPlace, InItsBuffer, Running, Switching, AgentSwitchAssumption
<1>8. CASE LoadFails(t)
  <2>1. exposed' = exposed \cup 1..puts
    BY <1>8 DEF LoadFails, SwitchStep, ExposeAllIf, Idle
  <2> QED
    BY <2>1
<1>9. ASSUME NEW f \in task[t].buf, RestoreEntry(t, f)
      PROVE  InItsPlace(e, a, l, m)' /\ InItsBuffer(e, a, l, m, t)'
  <2>1. /\ task[t].pc = "restore" /\ task'[t].pc = "restore" /\ task[t].to \in Agents
        /\ task'[t].from = task[t].from /\ task'[t].to = task[t].to
        /\ task'[t].buf = task[t].buf \ {f} /\ f \in Entries
        /\ cache' = Stored(cache, task[t].to, f.mem, f)
        /\ UNCHANGED snapshots /\ active' = active
    BY <1>9 DEF RestoreEntry, SwitchStep, TaskType, SessionTypeOK, TypeOK
  <2>2. Saved(t) /\ Saved(t)'
    BY <2>1, <1>g DEF Saved, Switching, Running, AgentSwitchAssumption
  <2>3. e \in snapshots[a]
    BY <2>2, <1>f DEF InItsPlace
  <2>4. ASSUME task[t].to = a
        PROVE  e \in task'[t].buf \/ cache'[l][a][m] = e
    <3>1. cache'[l][a][m] = IF l = f.layer /\ m = f.mem THEN f ELSE cache[l][a][m]
      BY <2>1, <2>4, StoredAt
    <3> QED
      BY <3>1, <2>1, <2>4, <1>f DEF InItsBuffer
  <2> QED
    BY <2>1, <2>2, <2>3, <2>4, <1>f, <1>g DEF InItsPlace, InItsBuffer, Running, Switching, AgentSwitchAssumption
<1>10. CASE RestoreDone(t)
  <2>1. /\ task[t].pc = "restore" /\ task[t].to \in Agents /\ task[t].buf = {}
        /\ task'[t] = Idle /\ active' = task[t].to
        /\ UNCHANGED <<cache, snapshots>>
    BY <1>10 DEF RestoreDone, cacheVars, SwitchStep, SessionTypeOK, TypeOK
  <2>2. Saved(t) /\ ~Saved(t)'
    BY <2>1, <1>g DEF Saved, Switching, Running, AgentSwitchAssumption, Idle
  <2>3. e \in snapshots[a]
    BY <2>2, <1>f DEF InItsPlace
  <2>4. a = task[t].to => cache[l][a][m] = e
    BY <2>1, <1>f DEF InItsBuffer
  <2> QED
    BY <2>1, <2>2, <2>3, <2>4, <1>d DEF InItsPlace, InItsBuffer, Idle, Running, Switching
<1> QED
  BY <1>1, <1>2, <1>3, <1>4, <1>5, <1>6, <1>7, <1>8, <1>9, <1>10 DEF SwitchStep, Step

(* An unexposed entry of the client is where it has to be after any step.  *)
LEMMA PlaceStep ==
    ASSUME SessionTypeOK, IsolationInv, SessionInv, OwnedInPlace', ContestedIsExposed',
           [SessionNext]_sessionVars
    PROVE  UnexposedInPlace'
<1>a. /\ puts \in Nat /\ active \in Agents /\ CacheTypeOK /\ task \in [Tasks -> TaskType]
      /\ owned \in [Agents -> [Layers -> [Mems -> Entries \cup {NoEntry}]]]
      /\ OwnedInPlace /\ ContestedIsExposed /\ UnexposedInPlace
  BY MemoryCacheAssumption DEF SessionTypeOK, TypeOK, CacheTypeOK, SessionInv
<1> SUFFICES ASSUME NEW a \in Agents, NEW l \in Layers, NEW m \in Mems, NEW e,
                    e = owned'[a][l][m], e # NoEntry, e.ver \notin exposed'
             PROVE  Placed(e, a, l, m)'
  BY DEF UnexposedInPlace, Placed
<1>b. /\ e \in Entries /\ e.mem = m /\ e.layer = l /\ e.owner = a /\ e.ver \in 1..puts'
      /\ ~AllExposed' /\ Uncontested'
  BY DEF OwnedInPlace, AllExposed, ContestedIsExposed, Uncontested
<1>c. ASSUME e = owned[a][l][m], e.ver \notin exposed
      PROVE  Placed(e, a, l, m) /\ e.ver \in 1..puts /\ Uncontested
  BY <1>a, <1>c DEF OwnedInPlace, UnexposedInPlace, Placed, AllExposed, ContestedIsExposed, Uncontested
<1>d. CASE Quiet'
           /\ (a = active' => cache'[l][a][m] = e)
           /\ (a # active' => e \in snapshots'[a])
  BY <1>d DEF Placed, InItsPlace, InItsBuffer, Quiet, Running, Switching, Saved
<1>1. ASSUME NEW n \in Mems, NEW k \in Layers, ClientPut(n, k)
      PROVE  Placed(e, a, l, m)'
  <2>1. /\ UNCHANGED <<task, active, snapshots>> /\ exposed \subseteq exposed'
        /\ cache' = Stored(cache, active, n, NewEntry(active, n, k))
        /\ owned' = [owned EXCEPT ![active][k][n] = NewEntry(active, n, k)]
    BY <1>1 DEF ClientPut, Put
  <2>2. cache'[l][a][m] = IF a = active /\ l = k /\ m = n THEN NewEntry(active, n, k)
                          ELSE cache[l][a][m]
    <3>1. /\ NewEntry(active, n, k) \in Entries
          /\ NewEntry(active, n, k).mem = n /\ NewEntry(active, n, k).layer = k
      BY <1>a, NewEntryIs
    <3>2. cache' = Stored(cache, active, NewEntry(active, n, k).mem, NewEntry(active, n, k))
      BY <2>1, <3>1
    <3> QED
      BY <1>a, <3>1, <3>2, StoredAt
  <2>3. CASE a = active /\ l = k /\ m = n
    <3>1. e = NewEntry(active, n, k) /\ e.ver = puts + 1
      BY <1>a, <2>1, <2>3, NewEntryIs
    <3>2. Quiet
      BY <1>1, <3>1 DEF ClientPut
    <3> QED
      BY <1>d, <2>1, <2>2, <2>3, <3>1, <3>2 DEF Quiet
  <2>4. CASE ~(a = active /\ l = k /\ m = n)
    <3>1. e = owned[a][l][m]
      BY <1>a, <2>1, <2>4
    <3> QED
      BY <1>c, <2>1, <2>2, <2>4, <3>1
         DEF Placed, InItsPlace, InItsBuffer, Running, Switching, Saved
  <2> QED
    BY <2>3, <2>4
<1>2. ASSUME NEW n \in Mems, NEW k \in Layers, ClientRemove(n, k)
      PROVE  Placed(e, a, l, m)'
  <2>1. /\ UNCHANGED <<task, active, snapshots, exposed>>
        /\ ~(a = active /\ l = k /\ m = n) /\ e = owned[a][l][m]
    BY <1>2, <1>a DEF ClientRemove
  <2>2. cache'[l][a][m] = cache[l][a][m]
    BY <1>2, <1>a, <2>1, InvalidatedAt DEF ClientRemove, Remove
  <2> QED
    BY <1>c, <2>1, <2>2 DEF Placed, InItsPlace, InItsBuffer, Running, Switching, Saved
<1>3. ASSUME NEW b \in Agents, NEW n \in Mems, NEW k \in Layers, CacheExpires(b, n, k)
      PROVE  Placed(e, a, l, m)'
  <2>1. /\ UNCHANGED <<task, active, snapshots, exposed>>
        /\ cache' = Invalidated(cache, k, b, n)
        /\ e = owned[a][l][m]
        /\ a = b /\ l = k /\ m = n => e # cache[l][a][m]
    BY <1>3, <1>a DEF CacheExpires, Expire
  <2>2. cache[l][a][m] = e => cache'[l][a][m] = e
    BY <1>a, <2>1, InvalidatedAt
  <2> QED
    BY <1>c, <2>1, <2>2 DEF Placed, InItsPlace, InItsBuffer, Running, Switching, Saved
<1>4. ASSUME NEW t \in Tasks, NEW b \in Agents, ClientSwitch(t, b) \/ ClientEvict(t, b)
      PROVE  Placed(e, a, l, m)'
  <2>1. /\ UNCHANGED <<active, snapshots, cache, puts>> /\ ExposeAllIf(~Quiet)
        /\ e = owned[a][l][m]
    <3>1. /\ UNCHANGED <<active, snapshots, cache, puts>> /\ ExposeAllIf(~Quiet)
          /\ owned' = owned \/ owned' = [owned EXCEPT ![b] = NothingOwned]
      BY <1>4 DEF ClientSwitch, ClientEvict, BeginSwitch, BeginEvict, cacheVars
    <3>2. owned' = [owned EXCEPT ![b] = NothingOwned] => a # b
      <4>1. NothingOwned[l][m] = NoEntry
        BY DEF NothingOwned
      <4>2. owned' = [owned EXCEPT ![b] = NothingOwned] /\ a = b => owned'[a] = NothingOwned
        BY <1>a
      <4> QED
        BY <4>1, <4>2
    <3> QED
      BY <3>1, <3>2, <1>a
  <2>2. Quiet /\ exposed' = exposed
    BY <1>b, <2>1 DEF ExposeAllIf, AllExposed
  <2>3. (a = active => cache[l][a][m] = e) /\ (a # active => e \in snapshots[a])
    BY <1>c, <2>1, <2>2 DEF Placed, InItsPlace, Saved, Switching, Running, Quiet
  <2>4. \A u \in Tasks : u # t => task'[u] = task[u] /\ task[u].pc = "idle"
    BY <1>4, <1>a, <2>2 DEF ClientSwitch, ClientEvict, BeginSwitch, BeginEvict, Quiet
  <2>5. CASE ClientSwitch(t, b)
    <3>1. /\ task'[t].pc = "collectL1" /\ task'[t].from = active
          /\ task'[t].buf = Live(cache, "L0", active) /\ task'[t].to \in Agents
      BY <2>5, <1>a DEF ClientSwitch, BeginSwitch
    <3>2. a = active /\ l = "L0" => e \in task'[t].buf
      BY <2>3, <3>1, CollectedIsLive DEF Layers
    <3> QED
      BY <2>1, <2>3, <2>4, <3>1, <3>2, AgentSwitchAssumption
         DEF Placed, InItsPlace, InItsBuffer, Running, Switching, Saved
  <2>6. CASE ClientEvict(t, b)
    <3>1. /\ task'[t].pc = "listL0" /\ task'[t].from = b /\ task'[t].to = NoAgent
          /\ a # b
      BY <2>6, <1>a DEF ClientEvict, BeginEvict, NothingOwned
    <3> QED
      BY <2>1, <2>3, <2>4, <3>1 DEF Placed, InItsPlace, InItsBuffer, Running, Switching, Saved
  <2> QED
    BY <1>4, <2>5, <2>6
<1>5. ASSUME NEW t \in Tasks, SwitchStep(t)
      PROVE  Placed(e, a, l, m)'
  <2>1. e = owned[a][l][m] /\ e.ver \notin exposed
    BY <1>5 DEF SwitchStep, ExposeAllIf
  <2> QED
    BY <1>b, <1>c, <1>5, <2>1, CallKeepsPlace
<1>6. CASE SessionCrash
  BY <1>6, <1>b DEF SessionCrash, Crash, ExposeAllIf, AllExposed
<1>7. CASE UNCHANGED sessionVars
  BY <1>7, <1>c DEF sessionVars, vars, cacheVars, Placed, InItsPlace, InItsBuffer, Running, Switching, Saved
<1> QED
  BY <1>1, <1>2, <1>3, <1>4, <1>5, <1>6, <1>7 DEF SessionNext

(***************************************************************************)
(* Recovery                                                                *)
(***************************************************************************)

LEMMA SessionInvInductive ==
    SessionTypeOK /\ IsolationInv /\ SessionInv /\ [SessionNext]_sessionVars => SessionInv'
<1> SUFFICES ASSUME SessionTypeOK, IsolationInv, SessionInv, [SessionNext]_sessionVars
             PROVE  SessionInv'
  OBVIOUS
<1>1. VersionsKnown'
  BY VersionsStep, SessionStepIsSwitcherStep DEF SessionTypeOK, SessionInv
<1>2. OwnedInPlace'
  BY OwnedStep DEF IsolationInv, SessionInv
<1>3. ContestedIsExposed'
  BY ContestedStep DEF SessionInv
<1>4. UnexposedInPlace'
  BY <1>2, <1>3, PlaceStep
<1> QED
  BY <1>1, <1>2, <1>3, <1>4 DEF SessionInv

LEMMA InitSessionInv == SessionInit => SessionInv
<1> SUFFICES ASSUME SessionInit PROVE SessionInv
  OBVIOUS
<1>1. VersionsKnown
  BY DEF SessionInit, Init, CacheInit, EmptyCache, Idle, VersionsKnown
<1>2. OwnedInPlace /\ UnexposedInPlace
  BY DEF SessionInit, NothingOwned, OwnedInPlace, UnexposedInPlace
<1>3. ContestedIsExposed
  BY DEF SessionInit, Init, Idle, ContestedIsExposed, Running, Switching
<1> QED
  BY <1>1, <1>2, <1>3 DEF SessionInv

LEMMA InvGivesRecovery == SessionInv => UnexposedRecoverable
<1> SUFFICES ASSUME SessionInv, NEW a \in Agents, NEW l \in Layers, NEW m \in Mems, NEW e,
                    e = owned[a][l][m], e # NoEntry, e.ver \notin exposed
             PROVE  Recoverable(e)
  BY DEF UnexposedRecoverable
<1>1. e.owner = a /\ e.layer = l /\ e.mem = m /\ InItsPlace(e, a, l, m)
  BY DEF SessionInv, OwnedInPlace, UnexposedInPlace
<1> QED
  BY <1>1 DEF InItsPlace, Recoverable

LEMMA SessionInvAlways == SessionSpec => []SessionInv
<1>1. SessionSpec => []IsolationInv
  BY SessionImplementsSwitcher, IsolationAlways, PTL
<1> QED
  BY <1>1, SessionTypeAlways, InitSessionInv, SessionInvInductive, PTL DEF SessionSpec

(* What the client put while no call ran, and has not removed, is in the   *)
(* cache or in its owner's saved row at every step of every switch,        *)
(* whatever is put, removed or expires meanwhile and although saves may    *)
(* fail, until two calls overlap, a load fails or the process dies.        *)
THEOREM UnexposedRecovery == SessionSpec => []UnexposedRecoverable
BY SessionInvAlways, InvGivesRecovery, PTL

-----------------------------------------------------------------------------

(***************************************************************************)
(* Calls that do not overlap                                               *)
(*                                                                         *)
(* The client waits for its calls, and only saves may fail.  One call runs *)
(* at a time, and so the phase of the call says where in the cache entries *)
(* can be and what its buffer has to hold.                                 *)
(***************************************************************************)

Waits == ~Overlap /\ Faults \subseteq {"save"}

OneCall ==
    /\ exposed = {}
    /\ \A t, u \in Tasks : Running(t) /\ Running(u) => t = u
    /\ \A t \in Tasks : Switching(t) => task[t].from = active

(* Where an entry can be while t switches: with the outgoing agent, and    *)
(* there only under keys not yet drained, or with the incoming one.        *)
LiveDuring(t, l, a, m) ==
    /\ a = IF task[t].pc = "restore" THEN task[t].to ELSE active
    /\ task[t].pc = "drainL0" /\ l = "L0" => m \in task[t].keys
    /\ task[t].pc \in {"listL1", "drainL1"} => l = "L1"
    /\ task[t].pc = "drainL1" => m \in task[t].keys
    /\ task[t].pc # "load"

LiveInPlace ==
    \A l \in Layers, a \in Agents, m \in Mems : cache[l][a][m] # NoEntry =>
        /\ (\A t \in Tasks : ~Switching(t)) => a = active
        /\ \A t \in Tasks : Switching(t) => LiveDuring(t, l, a, m)

(* What has been collected and is still in the cache is in the buffer; what *)
(* is being put back has one entry for each place.                          *)
BufferComplete ==
    \A t \in Tasks :
        /\ task[t].pc = "restore" => Replayable(task[t].buf)
        /\ \A l \in Layers, m \in Mems :
              /\ (task[t].pc = "collectL1" /\ l = "L0") \/ task[t].pc = "save"
              /\ cache[l][task[t].from][m] # NoEntry
              => cache[l][task[t].from][m] \in task[t].buf

WaitingInv == OneCall /\ LiveInPlace /\ BufferComplete

LEMMA InitWaiting == SessionInit => WaitingInv
<1> SUFFICES ASSUME SessionInit PROVE WaitingInv
  OBVIOUS
<1>1. OneCall /\ BufferComplete
  BY DEF SessionInit, Init, Idle, OneCall, BufferComplete, Running, Switching
<1>2. LiveInPlace
  BY DEF SessionInit, Init, CacheInit, EmptyCache, LiveInPlace
<1> QED
  BY <1>1, <1>2 DEF WaitingInv

LEMMA OneCallStep ==
    ASSUME Waits, SessionTypeOK, OneCall, [SessionNext]_sessionVars
    PROVE  OneCall'
<1>a. task \in [Tasks -> TaskType]
  BY DEF SessionTypeOK, TypeOK
<1>1. ASSUME NEW m \in Mems, NEW l \in Layers, ClientPut(m, l) PROVE OneCall'
  BY <1>1 DEF ClientPut, MayAct, Waits, OneCall, Running, Switching
<1>2. ASSUME NEW m \in Mems, NEW l \in Layers, ClientRemove(m, l) PROVE OneCall'
  BY <1>2 DEF ClientRemove, OneCall, Running, Switching
<1>3. ASSUME NEW a \in Agents, NEW m \in Mems, NEW l \in Layers, CacheExpires(a, m, l)
      PROVE  OneCall'
  BY <1>3 DEF CacheExpires, OneCall, Running, Switching
<1>4. ASSUME NEW t \in Tasks, NEW a \in Agents, ClientSwitch(t, a) PROVE OneCall'
  <2>1. Quiet /\ exposed' = {} /\ active' = active
    BY <1>4 DEF ClientSwitch, MayAct, ExposeAllIf, Waits, OneCall
  <2>2. /\ task'[t].from = active
        /\ \A u \in Tasks : u # t => task'[u].pc = "idle"
    BY <1>4, <1>a, <2>1 DEF ClientSwitch, BeginSwitch, Quiet
  <2> QED
    BY <2>1, <2>2 DEF OneCall, Running, Switching
<1>5. ASSUME NEW t \in Tasks, NEW a \in Agents, ClientEvict(t, a) PROVE OneCall'
  <2>1. Quiet /\ exposed' = {} /\ active' = active
    BY <1>5 DEF ClientEvict, MayAct, ExposeAllIf, Waits, OneCall
  <2>2. /\ task'[t].to = NoAgent
        /\ \A u \in Tasks : u # t => task'[u].pc = "idle"
    BY <1>5, <1>a, <2>1 DEF ClientEvict, BeginEvict, Quiet
  <2> QED
    BY <2>1, <2>2 DEF OneCall, Running, Switching
<1>6. ASSUME NEW t \in Tasks, SwitchStep(t) PROVE OneCall'
  <2>1. OwnStep(t)
    BY <1>6, <1>a, StepIsOwn DEF SwitchStep
  <2>2. exposed' = {}
    <3>1. CASE task[t].pc # "load"
      BY <1>6, <3>1 DEF SwitchStep, ExposeAllIf, OneCall
    <3>2. CASE task[t].pc = "load"
      <4>1. task'[t].pc = "restore"
        BY <1>6, <1>a, <3>2 DEF SwitchStep, Step, CollectL1, SaveSnapshot, SaveFails, ListKeys,
             DrainDone, DrainKey, LoadSnapshot, LoadFails, RestoreEntry, RestoreDone, Waits, TaskType
      <4> QED
        BY <1>6, <4>1 DEF SwitchStep, ExposeAllIf, OneCall
    <3> QED
      BY <3>1, <3>2
  <2>3. \A u \in Tasks : u # t => ~Running(u) /\ ~Running(u)'
    BY <2>1 DEF OwnStep, OneCall, Running
  <2>4. Switching(t)' => task'[t].from = active'
    <3>1. CASE active' = active
      BY <2>1, <3>1 DEF OwnStep, OneCall, Running, Switching
    <3>2. CASE active' # active
      <4>1. task[t].pc = "restore" /\ task[t].buf = {}
        BY <1>6, <3>2 DEF SwitchStep
      <4>2. task'[t].pc = "idle"
        BY <1>6, <1>a, <4>1 DEF SwitchStep, Step, CollectL1, SaveSnapshot, SaveFails, ListKeys,
             DrainDone, DrainKey, LoadSnapshot, LoadFails, RestoreEntry, RestoreDone, Idle
      <4> QED
        BY <4>2 DEF Switching, Running
    <3> QED
      BY <3>1, <3>2
  <2> QED
    BY <2>2, <2>3, <2>4 DEF OneCall, Switching
<1>7. ~SessionCrash
  BY DEF SessionCrash, Crash, Waits
<1>8. CASE UNCHANGED sessionVars
  BY <1>8 DEF sessionVars, vars, OneCall, Running, Switching
<1> QED
  BY <1>1, <1>2, <1>3, <1>4, <1>5, <1>6, <1>7, <1>8 DEF SessionNext

(* Nothing new is in the cache.                                            *)
CacheShrinks ==
    \A l \in Layers, a \in Agents, m \in Mems :
        cache'[l][a][m] = NoEntry \/ cache'[l][a][m] = cache[l][a][m]

LEMMA ShrinkKeepsPlaces ==
    ASSUME LiveInPlace, BufferComplete, CacheShrinks, UNCHANGED <<task, active>>,
           \A t \in Tasks : task[t].pc \in {"collectL1", "save"} => task[t].from \in Agents
    PROVE  LiveInPlace' /\ BufferComplete'
<1>1. LiveInPlace'
  BY DEF LiveInPlace, LiveDuring, CacheShrinks, Switching, Running
<1>2. BufferComplete'
  BY DEF BufferComplete, CacheShrinks
<1> QED
  BY <1>1, <1>2

(* What a call does to the cache: it puts back what it has loaded, and     *)
(* otherwise takes entries out.                                            *)
LEMMA CallShrinksCache ==
    ASSUME TypeOK, NEW t \in Tasks, Step(t), task[t].pc # "restore"
    PROVE  CacheShrinks
<1>a. CacheTypeOK
  BY DEF TypeOK
<1>1. ASSUME NEW l \in Layers, NEW m \in Mems, DrainKey(t, l, m) PROVE CacheShrinks
  <2>1. task[t].from \in Agents /\ cache' = Invalidated(cache, l, task[t].from, m)
    BY <1>1 DEF DrainKey, TypeOK
  <2> QED
    BY <1>a, <2>1, InvalidatedAt DEF CacheShrinks
<1>2. CASE UNCHANGED cache
  BY <1>2 DEF CacheShrinks
<1> QED
  BY <1>1, <1>2 DEF Step, CollectL1, SaveSnapshot, SaveFails, ListKeys, DrainDone, LoadSnapshot,
                    LoadFails, RestoreEntry, RestoreDone, cacheVars

LEMMA LiveStep ==
    ASSUME Waits, SessionTypeOK, OneCall, LiveInPlace, NEW t \in Tasks, SwitchStep(t)
    PROVE  LiveInPlace'
<1>a. /\ CacheTypeOK /\ task \in [Tasks -> TaskType] /\ TypeOK /\ active \in Agents
      /\ Step(t) /\ OwnStep(t)
  BY StepIsOwn DEF SessionTypeOK, TypeOK, SwitchStep
<1>b. \A u \in Tasks : u # t => ~Switching(u) /\ ~Switching(u)'
  BY <1>a DEF OwnStep, OneCall, Running, Switching
<1> SUFFICES ASSUME NEW l \in Layers, NEW a \in Agents, NEW m \in Mems,
                    cache'[l][a][m] # NoEntry
             PROVE  /\ ~Switching(t)' => a = active'
                    /\ Switching(t)' => LiveDuring(t, l, a, m)'
  BY <1>b DEF LiveInPlace
<1>c. /\ cache[l][a][m] # NoEntry => (~Switching(t) => a = active)
      /\ cache[l][a][m] # NoEntry => (Switching(t) => LiveDuring(t, l, a, m))
  BY <1>b DEF LiveInPlace
<1>d. /\ task[t].pc # "restore" => active' = active
      /\ task[t].pc = "restore" /\ task[t].buf # {} => active' = active
      /\ task[t].pc = "restore" /\ task[t].buf = {} => active' = task[t].to
  BY DEF SwitchStep
<1>1. CASE ~Switching(t)
  <2>1. ~Switching(t)' /\ task[t].pc # "restore"
    BY <1>1, <1>a, AgentSwitchAssumption DEF OwnStep, Switching, Running, TypeOK
  <2>2. CacheShrinks
    BY <1>a, <2>1, CallShrinksCache
  <2> QED
    BY <1>1, <1>c, <1>d, <2>1, <2>2 DEF CacheShrinks
<1>2. CASE Switching(t) /\ task[t].pc # "restore"
  <2>1. CacheShrinks /\ cache[l][a][m] # NoEntry /\ LiveDuring(t, l, a, m) /\ active' = active
    BY <1>2, <1>a, <1>c, <1>d, CallShrinksCache DEF CacheShrinks
  <2>2. a = active /\ task[t].from = active
    BY <1>2, <2>1 DEF LiveDuring, OneCall
  <2>3. CollectL1(t) \/ SaveSnapshot(t) => LiveDuring(t, l, a, m)' /\ task'[t].pc # "idle"
    BY <1>a, <2>1, <2>2 DEF CollectL1, SaveSnapshot, LiveDuring, TaskType
  <2>4. SaveFails(t) => a = active' /\ ~Switching(t)'
    BY <1>a, <2>1, <2>2 DEF SaveFails, Idle, Switching, Running
  <2>5. ASSUME NEW k \in Layers, ListKeys(t, k)
        PROVE  LiveDuring(t, l, a, m)' /\ task'[t].pc # "idle"
    <3>1. /\ task'[t].keys = LiveKeys(cache, k, a)
          /\ task'[t].pc = IF k = "L0" THEN "drainL0" ELSE "drainL1"
          /\ task[t].pc = IF k = "L0" THEN "listL0" ELSE "listL1"
      BY <2>5, <1>a, <2>2 DEF ListKeys, TaskType
    <3>2. l = k => m \in task'[t].keys
      BY <2>1, <3>1 DEF LiveKeys
    <3> QED
      BY <2>1, <2>2, <3>1, <3>2 DEF LiveDuring, Layers
  <2>6. ASSUME NEW k \in Layers, NEW n \in Mems, DrainKey(t, k, n)
        PROVE  LiveDuring(t, l, a, m)' /\ task'[t].pc # "idle"
    <3>1. /\ task'[t].keys = task[t].keys \ {n} /\ task'[t].pc = task[t].pc
          /\ task[t].pc = IF k = "L0" THEN "drainL0" ELSE "drainL1"
          /\ cache' = Invalidated(cache, k, a, n)
      BY <2>6, <1>a, <2>2 DEF DrainKey, TaskType
    <3>2. ~(l = k /\ m = n)
      BY <1>a, <3>1, InvalidatedAt
    <3> QED
      BY <2>1, <2>2, <3>1, <3>2 DEF LiveDuring, Layers
  <2>7. ASSUME NEW k \in Layers, DrainDone(t, k)
        PROVE  LiveDuring(t, l, a, m)' /\ task'[t].pc # "idle"
    <3>1. k = "L0" /\ task[t].pc = "drainL0" /\ task[t].keys = {}
      BY <2>7, <2>1 DEF DrainDone, LiveDuring, Layers
    <3>2. task'[t].pc = "listL1"
      BY <2>7, <1>a, <3>1 DEF DrainDone, TaskType
    <3> QED
      BY <2>1, <2>2, <3>1, <3>2 DEF LiveDuring, Layers
  <2>8. ~LoadSnapshot(t) /\ ~LoadFails(t)
    BY <2>1 DEF LoadSnapshot, LoadFails, LiveDuring
  <2>9. SaveFails(t) \/ (LiveDuring(t, l, a, m)' /\ task'[t].pc # "idle")
    BY <1>a, <1>2, <2>3, <2>5, <2>6, <2>7, <2>8 DEF Step, RestoreEntry, RestoreDone
  <2>10. task'[t].pc # "idle" => Switching(t)'
    BY <1>a, <1>2 DEF OwnStep, Switching, Running
  <2> QED
    BY <2>4, <2>9, <2>10
<1>3. CASE task[t].pc = "restore"
  <2>1. task[t].to \in Agents /\ Switching(t)
    BY <1>3, <1>a, AgentSwitchAssumption DEF TypeOK, Switching, Running
  <2>2. ASSUME NEW e \in task[t].buf, RestoreEntry(t, e)
        PROVE  LiveDuring(t, l, a, m)' /\ Switching(t)'
    <3>1. /\ e \in Entries /\ cache' = Stored(cache, task[t].to, e.mem, e)
          /\ task'[t].pc = "restore" /\ task'[t].to = task[t].to
      BY <2>2, <1>a DEF RestoreEntry, TaskType
    <3>2. a = task[t].to
      BY <1>3, <1>a, <1>c, <2>1, <3>1, StoredAt DEF LiveDuring
    <3> QED
      BY <2>1, <3>1, <3>2, AgentSwitchAssumption DEF LiveDuring, Switching, Running
  <2>3. CASE RestoreDone(t)
    <3>1. /\ cache' = cache /\ task'[t].pc = "idle" /\ active' = task[t].to
      BY <2>3, <1>a, <1>d DEF RestoreDone, Idle, cacheVars
    <3> QED
      BY <1>3, <1>c, <2>1, <3>1 DEF LiveDuring, Switching, Running
  <2>4. RestoreDone(t) \/ \E e \in task[t].buf : RestoreEntry(t, e)
    BY <1>3, <1>a DEF Step, CollectL1, SaveSnapshot, SaveFails, ListKeys, DrainDone, DrainKey,
                     LoadSnapshot, LoadFails
  <2> QED
    BY <2>2, <2>3, <2>4
<1> QED
  BY <1>1, <1>2, <1>3

LEMMA BufferStep ==
    ASSUME Waits, SessionTypeOK, IsolationInv, OneCall, BufferComplete,
           NEW t \in Tasks, SwitchStep(t)
    PROVE  BufferComplete'
<1>a. /\ CacheTypeOK /\ task \in [Tasks -> TaskType] /\ TypeOK
      /\ Step(t) /\ OwnStep(t)
  BY StepIsOwn DEF SessionTypeOK, TypeOK, SwitchStep
<1>b. \A u \in Tasks : u # t => task'[u].pc = "idle"
  BY <1>a DEF OwnStep, OneCall, Running
<1> SUFFICES /\ task'[t].pc = "restore" => Replayable(task'[t].buf)
             /\ \A l \in Layers, m \in Mems :
                   /\ (task'[t].pc = "collectL1" /\ l = "L0") \/ task'[t].pc = "save"
                   /\ cache'[l][task'[t].from][m] # NoEntry
                   => cache'[l][task'[t].from][m] \in task'[t].buf
  BY <1>b DEF BufferComplete
<1>1. CASE CollectL1(t)
  <2>1. /\ task[t].pc = "collectL1" /\ task'[t].pc = "save" /\ cache' = cache
        /\ task[t].from \in Agents /\ task'[t].from = task[t].from
        /\ task'[t].buf = task[t].buf \cup Live(cache, "L1", task[t].from)
    BY <1>1, <1>a DEF CollectL1, TaskType, TypeOK, cacheVars
  <2> QED
    BY <2>1, CollectedIsLive DEF BufferComplete, Layers
<1>2. CASE LoadSnapshot(t)
  BY <1>2, <1>a DEF LoadSnapshot, TaskType, TypeOK, IsolationInv, SnapshotsReplayable
<1>3. ASSUME NEW e \in task[t].buf, RestoreEntry(t, e)
      PROVE  Replayable(task'[t].buf) /\ task'[t].pc = "restore"
  BY <1>3, <1>a DEF RestoreEntry, TaskType, Replayable, BufferComplete
<1>4. CASE \/ SaveSnapshot(t) \/ SaveFails(t) \/ LoadFails(t) \/ RestoreDone(t)
           \/ \E l \in Layers : ListKeys(t, l) \/ DrainDone(t, l)
           \/ \E l \in Layers, m \in Mems : DrainKey(t, l, m)
  <2>1. ASSUME NEW l \in Layers, ListKeys(t, l) PROVE task'[t].pc \in {"drainL0", "drainL1"}
    BY <1>a, <2>1 DEF ListKeys, TaskType
  <2>2. ASSUME NEW l \in Layers, DrainDone(t, l) PROVE task'[t].pc \in {"listL1", "load", "idle"}
    BY <1>a, <2>2 DEF DrainDone, TaskType, Idle
  <2>3. ASSUME NEW l \in Layers, NEW m \in Mems, DrainKey(t, l, m)
        PROVE  task'[t].pc \in {"drainL0", "drainL1"}
    BY <1>a, <2>3 DEF DrainKey, TaskType
  <2>4. SaveSnapshot(t) => task'[t].pc = "listL0"
    BY <1>a DEF SaveSnapshot, TaskType
  <2>5. SaveFails(t) \/ LoadFails(t) \/ RestoreDone(t) => task'[t].pc = "idle"
    BY <1>a DEF SaveFails, LoadFails, RestoreDone, Idle
  <2>6. task'[t].pc \notin {"collectL1", "save", "restore"}
    BY <1>4, <2>1, <2>2, <2>3, <2>4, <2>5
  <2> QED
    BY <2>6
<1> QED
  BY <1>a, <1>1, <1>2, <1>3, <1>4 DEF Step

LEMMA WaitingStep ==
    ASSUME Waits, SessionTypeOK, IsolationInv, WaitingInv, [SessionNext]_sessionVars
    PROVE  WaitingInv'
<1>a. /\ CacheTypeOK /\ task \in [Tasks -> TaskType] /\ TypeOK /\ active \in Agents
      /\ OneCall /\ LiveInPlace /\ BufferComplete /\ puts \in Nat
      /\ \A t \in Tasks : task[t].pc \in {"collectL1", "save"} => task[t].from \in Agents
  BY MemoryCacheAssumption DEF SessionTypeOK, TypeOK, WaitingInv, CacheTypeOK
<1>b. OneCall'
  BY <1>a, OneCallStep
<1>1. ASSUME NEW n \in Mems, NEW k \in Layers, ClientPut(n, k)
      PROVE  LiveInPlace' /\ BufferComplete'
  <2>1. \A t \in Tasks : task'[t].pc = "idle" /\ task[t].pc = "idle"
    BY <1>1 DEF ClientPut, MayAct, Waits, Quiet
  <2>2. /\ NewEntry(active, n, k) \in Entries
        /\ cache' = Stored(cache, active, NewEntry(active, n, k).mem, NewEntry(active, n, k))
    BY <1>1, <1>a, NewEntryIs DEF ClientPut, Put
  <2>3. \A l \in Layers, a \in Agents, m \in Mems :
            a # active => cache'[l][a][m] = cache[l][a][m]
    BY <1>a, <2>2, StoredAt
  <2>4. LiveInPlace'
    BY <1>1, <1>a, <2>1, <2>3 DEF ClientPut, LiveInPlace, Switching, Running
  <2> QED
    BY <2>1, <2>4 DEF BufferComplete
<1>2. ASSUME NEW n \in Mems, NEW k \in Layers, ClientRemove(n, k)
      PROVE  LiveInPlace' /\ BufferComplete'
  <2>1. CacheShrinks /\ UNCHANGED <<task, active>>
    BY <1>2, <1>a, InvalidatedAt DEF ClientRemove, Remove, CacheShrinks
  <2> QED
    BY <1>a, <2>1, ShrinkKeepsPlaces
<1>3. ASSUME NEW a \in Agents, NEW m \in Mems, NEW l \in Layers, CacheExpires(a, m, l)
      PROVE  LiveInPlace' /\ BufferComplete'
  <2>1. CacheShrinks /\ UNCHANGED <<task, active>>
    BY <1>3, <1>a, InvalidatedAt DEF CacheExpires, Expire, CacheShrinks
  <2> QED
    BY <1>a, <2>1, ShrinkKeepsPlaces
<1>4. ASSUME NEW t \in Tasks, NEW b \in Agents, ClientSwitch(t, b)
      PROVE  LiveInPlace' /\ BufferComplete'
  <2>1. /\ Quiet /\ UNCHANGED <<cache, active>>
        /\ task'[t] = [pc |-> "collectL1", from |-> active, to |-> b,
                       buf |-> Live(cache, "L0", active), keys |-> {}]
        /\ \A u \in Tasks : u # t => task'[u] = task[u]
    BY <1>4, <1>a DEF ClientSwitch, MayAct, Waits, BeginSwitch, cacheVars
  <2>2. \A u \in Tasks : task[u].pc = "idle" /\ (u # t => task'[u].pc = "idle")
    BY <2>1 DEF Quiet
  <2>3. \A l \in Layers, a \in Agents, m \in Mems : cache[l][a][m] # NoEntry => a = active
    BY <1>a, <2>2 DEF LiveInPlace, Switching, Running
  <2>4. LiveInPlace'
    BY <2>1, <2>2, <2>3 DEF LiveInPlace, LiveDuring, Switching, Running
  <2>5. BufferComplete'
    BY <1>a, <2>1, <2>2, CollectedIsLive DEF BufferComplete, Layers
  <2> QED
    BY <2>4, <2>5
<1>5. ASSUME NEW t \in Tasks, NEW b \in Agents, ClientEvict(t, b)
      PROVE  LiveInPlace' /\ BufferComplete'
  <2>1. /\ Quiet /\ UNCHANGED <<cache, active>>
        /\ task'[t].to = NoAgent /\ task'[t].pc = "listL0"
        /\ \A u \in Tasks : u # t => task'[u] = task[u]
    BY <1>5, <1>a DEF ClientEvict, MayAct, Waits, BeginEvict, cacheVars
  <2>2. \A u \in Tasks : task[u].pc = "idle" /\ (u # t => task'[u].pc = "idle")
    BY <2>1 DEF Quiet
  <2> QED
    BY <1>a, <2>1, <2>2 DEF LiveInPlace, BufferComplete, Switching, Running
<1>6. ASSUME NEW t \in Tasks, SwitchStep(t)
      PROVE  LiveInPlace' /\ BufferComplete'
  BY <1>6, <1>a, LiveStep, BufferStep
<1>7. ~SessionCrash
  BY DEF SessionCrash, Crash, Waits
<1>8. CASE UNCHANGED sessionVars
  <2>1. CacheShrinks /\ UNCHANGED <<task, active>>
    BY <1>8 DEF sessionVars, vars, CacheShrinks
  <2>2. LiveInPlace' /\ BufferComplete'
    BY <1>a, <2>1, ShrinkKeepsPlaces
  <2> QED
    BY <1>b, <2>2 DEF WaitingInv
<1> QED
  BY <1>b, <1>1, <1>2, <1>3, <1>4, <1>5, <1>6, <1>7, <1>8 DEF SessionNext, WaitingInv

LEMMA WaitingAlways ==
    ASSUME Waits
    PROVE  SessionSpec => []WaitingInv
<1>1. SessionSpec => []IsolationInv
  BY SessionImplementsSwitcher, IsolationAlways, PTL
<1>2. SessionTypeOK /\ IsolationInv /\ WaitingInv /\ [SessionNext]_sessionVars => WaitingInv'
  BY WaitingStep
<1> QED
  BY <1>1, <1>2, SessionTypeAlways, InitWaiting, PTL DEF SessionSpec

LEMMA InvGivesOneLive ==
    ASSUME WaitingInv
    PROVE  AtMostOneLive
<1> DEFINE live == {a \in Agents : \E l \in Layers : LiveKeys(cache, l, a) # {}}
<1>1. \A a, b \in live : a = b
  <2> SUFFICES ASSUME NEW a \in live, NEW b \in live PROVE a = b
    OBVIOUS
  <2>1. /\ \E l \in Layers, m \in Mems : cache[l][a][m] # NoEntry
        /\ \E l \in Layers, m \in Mems : cache[l][b][m] # NoEntry
        /\ a \in Agents /\ b \in Agents
    BY DEF LiveKeys
  <2> QED
    BY <2>1 DEF WaitingInv, LiveInPlace, LiveDuring
<1> HIDE DEF live
<1>2. Cardinality(live) <= 1
  <2>1. CASE live = {}
    BY <2>1, FS_EmptySet
  <2>2. ASSUME NEW a \in live PROVE Cardinality(live) <= 1
    <3>1. live = {a}
      BY <1>1, <2>2
    <3>2. Cardinality(live) = 1
      BY <3>1, FS_Singleton
    <3> QED
      BY <3>2
  <2> QED
    BY <2>1, <2>2
<1> QED
  BY <1>2 DEF AtMostOneLive, live

(* If the client waits for its calls and only saves fail, one agent's      *)
(* working set is live at a time, and what the client put and nothing      *)
(* removed is in the cache or in its owner's saved row, at every step.     *)
THEOREM OneLiveAllKept ==
    ASSUME Waits
    PROVE  SessionSpec => []OneLiveAllRecoverable
<1>1. WaitingInv /\ UnexposedRecoverable => OneLiveAllRecoverable
  BY InvGivesOneLive DEF WaitingInv, OneCall, UnexposedRecoverable, FullyRecoverable,
                         OneLiveAllRecoverable
<1> QED
  BY <1>1, WaitingAlways, UnexposedRecovery, PTL

(***************************************************************************)
(* The contexts, phase by phase                                            *)
(***************************************************************************)

(* The entries of a set for one place, and the one there is.               *)
AtPlace(S, l, m) == {e \in S : e.layer = l /\ e.mem = m}

Picked(S) == CHOOSE e \in S : TRUE

OneOf(S, l, m) == IF AtPlace(S, l, m) = {} THEN NoEntry ELSE Picked(AtPlace(S, l, m))

LEMMA OneOfIs ==
    ASSUME NEW S, Replayable(S), NEW e \in S
    PROVE  OneOf(S, e.layer, e.mem) = e
<1>1. AtPlace(S, e.layer, e.mem) = {e}
  BY DEF AtPlace, Replayable
<1>2. Picked({e}) = e
  BY DEF Picked
<1> QED
  BY <1>1, <1>2 DEF OneOf

LEMMA NoneIs ==
    ASSUME NEW S, NEW l, NEW m, \A e \in S : ~(e.layer = l /\ e.mem = m)
    PROVE  OneOf(S, l, m) = NoEntry
BY DEF OneOf, AtPlace

LEMMA SavedIs ==
    ASSUME SnapshotsReplayable, NEW a \in Agents, NEW l, NEW m
    PROVE  SavedEntry(a, l, m) = OneOf(snapshots[a], l, m)
<1>1. CASE \E e \in snapshots[a] : e.layer = l /\ e.mem = m
  <2>1. PICK e \in snapshots[a] : e.layer = l /\ e.mem = m
    BY <1>1
  <2>2. \A f \in snapshots[a] : f.layer = l /\ f.mem = m => f = e
    BY <2>1 DEF SnapshotsReplayable, Replayable
  <2>3. SavedEntry(a, l, m) = e
    BY <2>1, <2>2 DEF SavedEntry
  <2> QED
    BY <2>1, <2>3, OneOfIs DEF SnapshotsReplayable
<1>2. CASE ~\E e \in snapshots[a] : e.layer = l /\ e.mem = m
  BY <1>2, NoneIs DEF SavedEntry
<1> QED
  BY <1>1, <1>2

(* The context of a place by the phase of the call.                        *)
PhaseContext(t, a, l, m) ==
    CASE task[t].pc = "collectL1" /\ a = active /\ l = "L0" -> OneOf(task[t].buf, l, m)
      [] task[t].pc = "collectL1" /\ a = active /\ l # "L0" -> cache[l][a][m]
      [] task[t].pc = "save" /\ a = active -> OneOf(task[t].buf, l, m)
      [] task[t].pc = "restore" /\ a = task[t].to ->
            IF AtPlace(task[t].buf, l, m) # {} THEN OneOf(task[t].buf, l, m) ELSE cache[l][a][m]
      [] OTHER -> OneOf(snapshots[a], l, m)

ContextsKnown ==
    \A a \in Agents, l \in Layers, m \in Mems :
        /\ (\A t \in Tasks : ~Switching(t)) =>
              Context(a, l, m) = IF a = active THEN cache[l][a][m] ELSE OneOf(snapshots[a], l, m)
        /\ \A t \in Tasks : Switching(t) => Context(a, l, m) = PhaseContext(t, a, l, m)

LEMMA ContextsAre == SessionTypeOK /\ IsolationInv /\ WaitingInv => ContextsKnown
<1> SUFFICES ASSUME SessionTypeOK, IsolationInv, WaitingInv,
                    NEW a \in Agents, NEW l \in Layers, NEW m \in Mems
             PROVE  /\ (\A t \in Tasks : ~Switching(t)) =>
                          Context(a, l, m) = IF a = active THEN cache[l][a][m]
                                             ELSE OneOf(snapshots[a], l, m)
                    /\ \A t \in Tasks : Switching(t) => Context(a, l, m) = PhaseContext(t, a, l, m)
  BY DEF ContextsKnown
<1>a. /\ SavedEntry(a, l, m) = OneOf(snapshots[a], l, m)
      /\ active \in Agents /\ task \in [Tasks -> TaskType]
  BY SavedIs DEF IsolationInv, SessionTypeOK, TypeOK
<1>b. /\ \A t \in Tasks : task[t].pc \in {"collectL1", "save", "load", "restore"} => Switching(t)
      /\ \A t \in Tasks : task[t].to # NoAgent /\ task[t].pc \in Evicting => Switching(t)
  BY AgentSwitchAssumption DEF SessionTypeOK, TypeOK, Switching, Running, Evicting
<1>1. ASSUME \A t \in Tasks : ~Switching(t)
      PROVE  Context(a, l, m) = IF a = active THEN cache[l][a][m] ELSE OneOf(snapshots[a], l, m)
  <2>1. InCache(a) <=> a = active
    BY <1>1, <1>b DEF InCache
  <2>2. \A t \in Tasks, k \in Layers : ~Holds(t, a, k)
    BY <1>1, <1>b DEF Holds
  <2>3. Buffered(a, l, m) = {} /\ ~Collected(a, l)
    BY <2>2 DEF Buffered, Collected
  <2> QED
    BY <1>a, <2>1, <2>3 DEF Context
<1>2. ASSUME NEW t \in Tasks, Switching(t)
      PROVE  Context(a, l, m) = PhaseContext(t, a, l, m)
  <2>a. /\ \A u \in Tasks : u # t => task[u].pc = "idle"
        /\ task[t].from = active
    BY <1>2 DEF WaitingInv, OneCall, Switching, Running
  <2>b. \A u \in Tasks : Holds(u, a, l) => u = t
    BY <2>a DEF Holds
  <2>c. Buffered(a, l, m) = IF Holds(t, a, l) THEN AtPlace(task[t].buf, l, m) ELSE {}
    <3>1. CASE Holds(t, a, l)
      <4>1. {u \in Tasks : Holds(u, a, l)} = {t}
        BY <2>b, <3>1
      <4>2. UNION {task[v].buf : v \in {u \in Tasks : Holds(u, a, l)}} = task[t].buf
        BY <4>1
      <4> QED
        BY <3>1, <4>2 DEF Buffered, AtPlace
    <3>2. CASE ~Holds(t, a, l)
      <4>1. {u \in Tasks : Holds(u, a, l)} = {}
        BY <2>b, <3>2
      <4> QED
        BY <3>2, <4>1 DEF Buffered
    <3> QED
      BY <3>1, <3>2
  <2>1. CASE task[t].pc \in {"collectL1", "save"}
    <3>1. InCache(a) <=> a = active
      BY <2>1, <2>a DEF InCache, Evicting
    <3>2. Collected(a, l) <=> Holds(t, a, l)
      BY <2>1, <2>b DEF Collected
    <3>3. a = active => (Holds(t, a, l) <=> (task[t].pc = "save" \/ l = "L0"))
      BY <2>1, <2>a DEF Holds
    <3>4. CASE a # active
      BY <1>a, <2>1, <3>1, <3>4 DEF Context, PhaseContext
    <3>5. CASE a = active /\ ~Holds(t, a, l)
      <4>1. Context(a, l, m) = cache[l][a][m]
        BY <2>c, <3>1, <3>2, <3>5 DEF Context
      <4> QED
        BY <2>1, <3>3, <3>5, <4>1 DEF PhaseContext
    <3>6. CASE a = active /\ Holds(t, a, l)
      <4>1. Buffered(a, l, m) = AtPlace(task[t].buf, l, m) /\ InCache(a) /\ Collected(a, l)
        BY <2>c, <3>1, <3>2, <3>6
      <4>2. Context(a, l, m) = OneOf(task[t].buf, l, m)
        BY <4>1 DEF Context, OneOf, Picked
      <4> QED
        BY <2>1, <3>3, <3>6, <4>2 DEF PhaseContext
    <3> QED
      BY <3>4, <3>5, <3>6
  <2>2. CASE task[t].pc \in Evicting
    <3>1. ~InCache(a)
      BY <1>2, <2>2 DEF InCache, Switching
    <3> QED
      BY <1>a, <2>2, <3>1 DEF Context, PhaseContext, Evicting
  <2>3. CASE task[t].pc = "restore"
    <3>1. InCache(a) <=> a = task[t].to
      BY <2>3, <2>a DEF InCache, Evicting
    <3>2. ~Collected(a, l)
      BY <2>3, <2>b DEF Collected
    <3>3. Holds(t, a, l) <=> a = task[t].to
      BY <2>3 DEF Holds
    <3>4. CASE a # task[t].to
      BY <1>a, <2>3, <3>1, <3>4 DEF Context, PhaseContext
    <3>5. CASE a = task[t].to
      <4>1. Buffered(a, l, m) = AtPlace(task[t].buf, l, m) /\ InCache(a)
        BY <2>c, <3>1, <3>3, <3>5
      <4>2. Context(a, l, m) = IF AtPlace(task[t].buf, l, m) # {} THEN OneOf(task[t].buf, l, m)
                               ELSE cache[l][a][m]
        BY <3>2, <4>1 DEF Context, OneOf, Picked
      <4> QED
        BY <2>3, <3>5, <4>2 DEF PhaseContext
    <3> QED
      BY <3>4, <3>5
  <2> QED
    BY <1>2, <1>a, <2>1, <2>2, <2>3 DEF Switching, Running, Evicting, TaskType, Phases
<1> QED
  BY <1>1, <1>2

(* What the client put and nothing has released is in its context.         *)
OwedInContext ==
    \A a \in Agents, l \in Layers, m \in Mems :
        owned[a][l][m] # NoEntry => Context(a, l, m) = owned[a][l][m]

LEMMA OwedIsInContext ==
    SessionTypeOK /\ IsolationInv /\ WaitingInv /\ ContextsKnown /\ SessionInv => OwedInContext
<1> SUFFICES ASSUME SessionTypeOK, IsolationInv, WaitingInv, ContextsKnown, SessionInv,
                    NEW a \in Agents, NEW l \in Layers, NEW m \in Mems,
                    NEW e, e = owned[a][l][m], e # NoEntry
             PROVE  Context(a, l, m) = e
  BY DEF OwedInContext
<1>a. /\ e.layer = l /\ e.mem = m
      /\ InItsPlace(e, a, l, m) /\ \A t \in Tasks : InItsBuffer(e, a, l, m, t)
  BY DEF SessionInv, OwnedInPlace, UnexposedInPlace, WaitingInv, OneCall
<1>b. Replayable(snapshots[a])
  BY DEF IsolationInv, SnapshotsReplayable
<1>c. e \in snapshots[a] => OneOf(snapshots[a], l, m) = e
  BY <1>a, <1>b, OneOfIs
<1>1. CASE \A t \in Tasks : ~Switching(t)
  <2>1. Context(a, l, m) = IF a = active THEN cache[l][a][m] ELSE OneOf(snapshots[a], l, m)
    BY <1>1 DEF ContextsKnown
  <2>2. IF a = active THEN cache[l][a][m] = e ELSE e \in snapshots[a]
    BY <1>1, <1>a DEF InItsPlace, Saved
  <2> QED
    BY <2>1, <2>2, <1>c
<1>2. ASSUME NEW t \in Tasks, Switching(t)
      PROVE  Context(a, l, m) = e
  <2>a. /\ Context(a, l, m) = PhaseContext(t, a, l, m)
        /\ \A u \in Tasks : Switching(u) => u = t
    BY <1>2 DEF ContextsKnown, WaitingInv, OneCall, Switching
  <2>b. InItsBuffer(e, a, l, m, t)
    BY <1>a
  <2>1. CASE task[t].pc \in {"collectL1", "save"} /\ a = active
    <3>1. Replayable(task[t].buf)
      BY <2>1 DEF IsolationInv, BuffersReplayable
    <3>2. e \in task[t].buf => OneOf(task[t].buf, l, m) = e
      BY <1>a, <3>1, OneOfIs
    <3>3. \A u \in Tasks : ~Saved(u)
      BY <2>1, <2>a DEF Saved
    <3>4. cache[l][a][m] = e
      BY <2>1, <3>3, <1>a DEF InItsPlace
    <3> QED
      BY <2>1, <2>a, <2>b, <1>2, <3>2, <3>4 DEF InItsBuffer, PhaseContext
  <2>2. CASE task[t].pc = "restore" /\ a = task[t].to
    <3>1. /\ e \in task[t].buf \/ cache[l][a][m] = e
          /\ \A f \in task[t].buf : f.layer = l /\ f.mem = m => f = e
      BY <2>2, <2>b DEF InItsBuffer
    <3>2. CASE AtPlace(task[t].buf, l, m) = {}
      <4>1. cache[l][a][m] = e
        BY <1>a, <3>1, <3>2 DEF AtPlace
      <4> QED
        BY <2>2, <2>a, <3>2, <4>1 DEF PhaseContext
    <3>3. CASE AtPlace(task[t].buf, l, m) # {}
      <4>1. AtPlace(task[t].buf, l, m) = {e}
        BY <3>1, <3>3 DEF AtPlace
      <4>2. OneOf(task[t].buf, l, m) = e
        BY <4>1 DEF OneOf, Picked
      <4> QED
        BY <2>2, <2>a, <3>3, <4>2 DEF PhaseContext
    <3> QED
      BY <3>2, <3>3
  <2>3. CASE /\ ~(task[t].pc \in {"collectL1", "save"} /\ a = active)
             /\ ~(task[t].pc = "restore" /\ a = task[t].to)
    <3>1. PhaseContext(t, a, l, m) = OneOf(snapshots[a], l, m)
      BY <2>3 DEF PhaseContext
    <3>2. e \in snapshots[a]
      BY <1>2, <1>a, <2>3 DEF InItsPlace, Saved
    <3> QED
      BY <2>a, <3>1, <3>2, <1>c
  <2> QED
    BY <2>1, <2>2, <2>3
<1> QED
  BY <1>1, <1>2

(***************************************************************************)
(* What each step does to the contexts                                     *)
(***************************************************************************)

(* The collection of one cache is that cache, place by place.              *)
LEMMA CollectedIs ==
    ASSUME CacheIsolated, NEW l \in Layers, NEW a \in Agents, NEW m \in Mems
    PROVE  OneOf(Live(cache, l, a), l, m) = cache[l][a][m]
<1>a. Replayable(Live(cache, l, a))
  BY LiveIsolated
<1>1. CASE cache[l][a][m] = NoEntry
  <2>1. \A e \in Live(cache, l, a) : e.mem # m
    BY <1>1, LiveIsCached DEF CacheIsolated
  <2> QED
    BY <1>1, <2>1, NoneIs
<1>2. CASE cache[l][a][m] # NoEntry
  <2>1. /\ cache[l][a][m] \in Live(cache, l, a)
        /\ cache[l][a][m].layer = l /\ cache[l][a][m].mem = m
    BY <1>2, CollectedIsLive DEF CacheIsolated
  <2> QED
    BY <1>a, <2>1, OneOfIs
<1> QED
  BY <1>1, <1>2

LEMMA OneOfSame ==
    ASSUME NEW S, NEW T, NEW l, NEW m, AtPlace(S, l, m) = AtPlace(T, l, m)
    PROVE  OneOf(S, l, m) = OneOf(T, l, m)
BY DEF OneOf

(* The context of a place after a step: as it was, or forgotten.           *)
KeptOrForgotten(a, l, m) ==
    Context(a, l, m)' = Context(a, l, m) \/ Context(a, l, m)' = NoEntry

AllInv == SessionTypeOK /\ IsolationInv /\ WaitingInv /\ ContextsKnown /\ OwedInContext

(* A call that is not about to return from a switch forgets at most.       *)
LEMMA CallContext ==
    ASSUME Waits, AllInv, AllInv', NEW t \in Tasks, SwitchStep(t), ~RestoreDone(t),
           NEW a \in Agents, NEW l \in Layers, NEW m \in Mems
    PROVE  KeptOrForgotten(a, l, m) /\ UNCHANGED <<active, puts>>
<1>a. /\ CacheTypeOK /\ task \in [Tasks -> TaskType] /\ TypeOK /\ active \in Agents
      /\ snapshots \in [Agents -> SUBSET Entries]
      /\ Step(t) /\ OwnStep(t) /\ UNCHANGED puts
  BY StepIsOwn DEF AllInv, SessionTypeOK, TypeOK, SwitchStep, OwnStep
<1>b. \A u \in Tasks : u # t => ~Switching(u) /\ ~Switching(u)'
  BY <1>a DEF OwnStep, AllInv, WaitingInv, OneCall, Running, Switching
<1>c. active' = active
  <2>1. CASE task[t].pc = "restore" /\ task[t].buf = {}
    BY <1>a, <2>1 DEF Step, CollectL1, SaveSnapshot, SaveFails, ListKeys, DrainDone, DrainKey,
         LoadSnapshot, LoadFails, RestoreEntry
  <2> QED
    BY <2>1 DEF SwitchStep
<1>d. /\ ~Switching(t) => Context(a, l, m) = IF a = active THEN cache[l][a][m]
                                             ELSE OneOf(snapshots[a], l, m)
      /\ Switching(t) => Context(a, l, m) = PhaseContext(t, a, l, m)
  BY <1>b DEF AllInv, ContextsKnown
<1>e. /\ ~Switching(t)' => Context(a, l, m)' = IF a = active THEN cache'[l][a][m]
                                               ELSE OneOf(snapshots'[a], l, m)
      /\ Switching(t)' => Context(a, l, m)' = PhaseContext(t, a, l, m)'
  BY <1>b, <1>c DEF AllInv, ContextsKnown
<1>f. task'[t].pc # "idle" => task'[t].to = task[t].to /\ (Switching(t) => Switching(t)')
  BY <1>a DEF OwnStep, Switching, Running
<1>1. CASE ~Switching(t)
  <2>1. ~Switching(t)' /\ task[t].pc \notin {"save", "restore"}
    BY <1>1, <1>a, AgentSwitchAssumption DEF OwnStep, Switching, Running, TypeOK
  <2>2. CacheShrinks
    BY <1>a, <2>1, CallShrinksCache
  <2>3. snapshots' = snapshots
    BY <1>a, <2>1 DEF Step, CollectL1, SaveSnapshot, SaveFails, ListKeys, DrainDone, DrainKey,
         LoadSnapshot, LoadFails, RestoreEntry, RestoreDone
  <2> QED
    BY <1>1, <1>a, <1>c, <1>d, <1>e, <2>1, <2>2, <2>3 DEF CacheShrinks, KeptOrForgotten
<1>2. CASE Switching(t) /\ CollectL1(t)
  <2>1. /\ task[t].pc = "collectL1" /\ task[t].from = active
        /\ task'[t].pc = "save" /\ cache' = cache /\ snapshots' = snapshots
        /\ task'[t].buf = task[t].buf \cup Live(cache, "L1", active)
        /\ \A e \in task[t].buf : e.layer = "L0"
    BY <1>2, <1>a DEF CollectL1, TaskType, cacheVars, AllInv, WaitingInv, OneCall,
                     IsolationInv, BuffersReplayable
  <2>2. \A e \in Live(cache, "L1", active) : e.layer # "L0"
    BY <1>a, LiveIsolated DEF AllInv, IsolationInv, Layers
  <2>3. OneOf(task'[t].buf, "L0", m) = OneOf(task[t].buf, "L0", m)
    <3>1. AtPlace(task'[t].buf, "L0", m) = AtPlace(task[t].buf, "L0", m)
      BY <2>1, <2>2 DEF AtPlace
    <3> QED
      BY <3>1, OneOfSame
  <2>4. OneOf(task'[t].buf, "L1", m) = cache["L1"][active][m]
    <3>1. AtPlace(task'[t].buf, "L1", m) = AtPlace(Live(cache, "L1", active), "L1", m)
      BY <2>1 DEF AtPlace
    <3>2. OneOf(task'[t].buf, "L1", m) = OneOf(Live(cache, "L1", active), "L1", m)
      BY <3>1, OneOfSame
    <3> QED
      BY <1>a, <3>2, CollectedIs DEF AllInv, IsolationInv, Layers
  <2>5. Context(a, l, m)' = PhaseContext(t, a, l, m)'
    BY <1>2, <1>e, <1>f, <2>1
  <2>6. PhaseContext(t, a, l, m)' = PhaseContext(t, a, l, m)
    <3>1. CASE a # active
      BY <1>c, <2>1, <3>1 DEF PhaseContext
    <3>2. CASE a = active
      BY <1>c, <2>1, <2>3, <2>4, <3>2 DEF PhaseContext, Layers
    <3> QED
      BY <3>1, <3>2
  <2> QED
    BY <1>2, <1>a, <1>c, <1>d, <2>5, <2>6 DEF KeptOrForgotten
<1>3. CASE Switching(t) /\ SaveSnapshot(t)
  <2>1. /\ task[t].pc = "save" /\ task[t].from = active /\ task'[t].pc = "listL0"
        /\ snapshots' = [snapshots EXCEPT ![active] = task[t].buf]
    BY <1>3, <1>a DEF SaveSnapshot, TaskType, AllInv, WaitingInv, OneCall
  <2>2. PhaseContext(t, a, l, m)' = OneOf(snapshots'[a], l, m)
    BY <2>1 DEF PhaseContext
  <2>3. PhaseContext(t, a, l, m) = IF a = active THEN OneOf(task[t].buf, l, m)
                                   ELSE OneOf(snapshots[a], l, m)
    BY <2>1 DEF PhaseContext
  <2> QED
    BY <1>3, <1>a, <1>c, <1>d, <1>e, <1>f, <2>1, <2>2, <2>3 DEF KeptOrForgotten
<1>4. CASE Switching(t) /\ SaveFails(t)
  <2>1. /\ task[t].pc = "save" /\ task[t].from = active /\ task'[t].pc = "idle"
        /\ snapshots' = snapshots /\ cache' = cache
    BY <1>4, <1>a DEF SaveFails, Idle, cacheVars, AllInv, WaitingInv, OneCall
  <2>2. ~Switching(t)'
    BY <2>1 DEF Switching, Running
  <2>3. PhaseContext(t, a, l, m) = IF a = active THEN OneOf(task[t].buf, l, m)
                                   ELSE OneOf(snapshots[a], l, m)
    BY <2>1 DEF PhaseContext
  <2>4. a = active /\ cache[l][a][m] # NoEntry => OneOf(task[t].buf, l, m) = cache[l][a][m]
    <3> SUFFICES ASSUME a = active, cache[l][a][m] # NoEntry
                 PROVE  OneOf(task[t].buf, l, m) = cache[l][a][m]
      OBVIOUS
    <3>1. /\ cache[l][a][m] \in task[t].buf /\ Replayable(task[t].buf)
          /\ cache[l][a][m].layer = l /\ cache[l][a][m].mem = m
      BY <2>1 DEF AllInv, WaitingInv, BufferComplete, IsolationInv, BuffersReplayable, CacheIsolated
    <3> QED
      BY <3>1, OneOfIs
  <2> QED
    BY <1>4, <1>a, <1>c, <1>d, <1>e, <2>1, <2>2, <2>3, <2>4 DEF KeptOrForgotten
<1>5. CASE /\ Switching(t)
           /\ \/ \E k \in Layers : ListKeys(t, k) \/ DrainDone(t, k)
              \/ \E k \in Layers, n \in Mems : DrainKey(t, k, n)
  <2>1. /\ task[t].pc \in Evicting /\ task'[t].pc \in Evicting /\ snapshots' = snapshots
    <3>1. ASSUME NEW k \in Layers, ListKeys(t, k) \/ DrainDone(t, k)
          PROVE  task[t].pc \in Evicting /\ task'[t].pc \in Evicting /\ snapshots' = snapshots
      <4>1. CASE ListKeys(t, k)
        BY <1>a, <4>1 DEF ListKeys, Evicting, TaskType
      <4>2. CASE DrainDone(t, k)
        BY <1>5, <1>a, <4>2 DEF DrainDone, Evicting, TaskType, Switching
      <4> QED
        BY <3>1, <4>1, <4>2
    <3>2. ASSUME NEW k \in Layers, NEW n \in Mems, DrainKey(t, k, n)
          PROVE  task[t].pc \in Evicting /\ task'[t].pc \in Evicting /\ snapshots' = snapshots
      BY <1>a, <3>2 DEF DrainKey, Evicting, TaskType
    <3> QED
      BY <1>5, <3>1, <3>2
  <2>2. /\ PhaseContext(t, a, l, m) = OneOf(snapshots[a], l, m)
        /\ PhaseContext(t, a, l, m)' = OneOf(snapshots'[a], l, m)
    BY <2>1 DEF PhaseContext, Evicting
  <2> QED
    BY <1>5, <1>a, <1>c, <1>d, <1>e, <1>f, <2>1, <2>2 DEF KeptOrForgotten, Evicting
<1>6. CASE Switching(t) /\ LoadSnapshot(t)
  <2>1. /\ task[t].pc = "load" /\ task'[t].pc = "restore" /\ task'[t].to = task[t].to
        /\ task'[t].buf = snapshots[task[t].to] /\ snapshots' = snapshots /\ cache' = cache
    BY <1>6, <1>a DEF LoadSnapshot, TaskType, cacheVars
  <2>2. cache[l][a][m] = NoEntry
    BY <1>6, <2>1 DEF AllInv, WaitingInv, LiveInPlace, LiveDuring
  <2>3. PhaseContext(t, a, l, m) = OneOf(snapshots[a], l, m)
    BY <2>1 DEF PhaseContext
  <2>4. PhaseContext(t, a, l, m)' = OneOf(snapshots[a], l, m)
    <3>1. CASE a # task[t].to
      BY <2>1, <3>1 DEF PhaseContext
    <3>2. CASE a = task[t].to /\ AtPlace(snapshots[a], l, m) # {}
      BY <2>1, <3>2 DEF PhaseContext
    <3>3. CASE a = task[t].to /\ AtPlace(snapshots[a], l, m) = {}
      <4>1. OneOf(snapshots[a], l, m) = NoEntry
        BY <3>3 DEF OneOf
      <4> QED
        BY <2>1, <2>2, <3>3, <4>1 DEF PhaseContext
    <3> QED
      BY <3>1, <3>2, <3>3
  <2> QED
    BY <1>6, <1>a, <1>c, <1>d, <1>e, <1>f, <2>1, <2>3, <2>4 DEF KeptOrForgotten
<1>7. ASSUME Switching(t), NEW e \in task[t].buf, RestoreEntry(t, e)
      PROVE  KeptOrForgotten(a, l, m)
  <2>1. /\ task[t].pc = "restore" /\ task'[t].pc = "restore" /\ task'[t].to = task[t].to
        /\ task[t].to \in Agents /\ e \in Entries /\ snapshots' = snapshots
        /\ task'[t].buf = task[t].buf \ {e} /\ Replayable(task[t].buf)
        /\ cache' = Stored(cache, task[t].to, e.mem, e)
    BY <1>7, <1>a DEF RestoreEntry, TaskType, TypeOK, AllInv, WaitingInv, BufferComplete
  <2>2. CASE a # task[t].to
    <3>1. /\ PhaseContext(t, a, l, m) = OneOf(snapshots[a], l, m)
          /\ PhaseContext(t, a, l, m)' = OneOf(snapshots[a], l, m)
      BY <2>1, <2>2 DEF PhaseContext
    <3> QED
      BY <1>7, <1>d, <1>e, <1>f, <2>1, <3>1 DEF KeptOrForgotten
  <2>3. CASE a = task[t].to /\ l = e.layer /\ m = e.mem
    <3>1. AtPlace(task'[t].buf, l, m) = {} /\ e \in AtPlace(task[t].buf, l, m)
      BY <2>1, <2>3 DEF AtPlace, Replayable
    <3>2. OneOf(task[t].buf, l, m) = e /\ cache'[l][a][m] = e
      BY <1>a, <2>1, <2>3, OneOfIs, StoredAt
    <3>3. PhaseContext(t, a, l, m) = e
      BY <2>1, <2>3, <3>1, <3>2 DEF PhaseContext
    <3>4. PhaseContext(t, a, l, m)' = e
      BY <2>1, <2>3, <3>1, <3>2 DEF PhaseContext
    <3> QED
      BY <1>7, <1>d, <1>e, <1>f, <2>1, <3>3, <3>4 DEF KeptOrForgotten
  <2>4. CASE a = task[t].to /\ ~(l = e.layer /\ m = e.mem)
    <3>1. AtPlace(task'[t].buf, l, m) = AtPlace(task[t].buf, l, m)
      BY <2>1, <2>4 DEF AtPlace
    <3>2. OneOf(task'[t].buf, l, m) = OneOf(task[t].buf, l, m) /\ cache'[l][a][m] = cache[l][a][m]
      BY <1>a, <2>1, <2>4, <3>1, OneOfSame, StoredAt
    <3>3. PhaseContext(t, a, l, m)' = PhaseContext(t, a, l, m)
      BY <2>1, <2>4, <3>1, <3>2 DEF PhaseContext
    <3> QED
      BY <1>7, <1>d, <1>e, <1>f, <2>1, <3>3 DEF KeptOrForgotten
  <2> QED
    BY <2>2, <2>3, <2>4
<1>8. ~LoadFails(t)
  BY DEF LoadFails, Waits
<1> QED
  BY <1>a, <1>c, <1>1, <1>2, <1>3, <1>4, <1>5, <1>6, <1>7, <1>8 DEF Step

(***************************************************************************)
(* Sessions implement the switch of contexts                               *)
(***************************************************************************)

Contexts == [a \in Agents |-> [l \in Layers |-> [m \in Mems |-> Context(a, l, m)]]]

(* A step that leaves every context as it was or forgets what is not owed.  *)
LEMMA ForgettingIsAbstract ==
    ASSUME AllInv, AllInv', UNCHANGED <<active, puts>>,
           \A a \in Agents, l \in Layers, m \in Mems :
              KeptOrForgotten(a, l, m) /\ owned'[a][l][m] \in {owned[a][l][m], NoEntry}
    PROVE  Abs!Next
<1> DEFINE kept(a, l, m) == IF Contexts'[a][l][m] = NoEntry THEN NoEntry ELSE Contexts[a][l][m]
           owed(a, l, m) == IF owned'[a][l][m] = NoEntry THEN NoEntry ELSE owned[a][l][m]
<1>1. \A a \in Agents, l \in Layers, m \in Mems : Contexts'[a][l][m] = kept(a, l, m)
  BY DEF KeptOrForgotten, Contexts
<1>2. Abs!Fewer(Contexts, Contexts')
  <2>1. \A a \in Agents, l \in Layers : Contexts'[a][l] = [m \in Mems |-> kept(a, l, m)]
    BY <1>1 DEF Contexts
  <2>2. \A a \in Agents : Contexts'[a] = [l \in Layers |-> [m \in Mems |-> kept(a, l, m)]]
    BY <2>1 DEF Contexts
  <2>3. Contexts' = [a \in Agents |-> [l \in Layers |-> [m \in Mems |-> kept(a, l, m)]]]
    BY <2>2 DEF Contexts
  <2> QED
    BY <2>3 DEF Abs!Fewer
<1>3. Abs!Fewer(owned, owned')
  <2>a. owned' \in [Agents -> [Layers -> [Mems -> Entries \cup {NoEntry}]]]
    BY DEF AllInv, SessionTypeOK
  <2>1. \A a \in Agents, l \in Layers, m \in Mems : owned'[a][l][m] = owed(a, l, m)
    OBVIOUS
  <2>2. \A a \in Agents, l \in Layers : owned'[a][l] = [m \in Mems |-> owed(a, l, m)]
    BY <2>a, <2>1
  <2>3. \A a \in Agents : owned'[a] = [l \in Layers |-> [m \in Mems |-> owed(a, l, m)]]
    BY <2>a, <2>2
  <2>4. owned' = [a \in Agents |-> [l \in Layers |-> [m \in Mems |-> owed(a, l, m)]]]
    BY <2>a, <2>3
  <2> QED
    BY <2>4 DEF Abs!Fewer
<1>4. \A a \in Agents, l \in Layers, m \in Mems :
          owned'[a][l][m] # NoEntry => Contexts'[a][l][m] = owned'[a][l][m]
  BY DEF AllInv, OwedInContext, Contexts
<1> HIDE DEF kept, owed
<1>5. Abs!Forget
  BY <1>2, <1>3, <1>4 DEF Abs!Forget, Contexts
<1> QED
  BY <1>5 DEF Abs!Next

LEMMA PutIsAbstract ==
    ASSUME NEW k \in Layers, NEW n \in Mems, puts < MaxPuts, puts' = puts + 1, active' = active,
           active \in Agents, owned' = [owned EXCEPT ![active][k][n] = NewEntry(active, n, k)],
           \A a \in Agents, l \in Layers, m \in Mems :
               Context(a, l, m)' = IF a = active /\ l = k /\ m = n THEN NewEntry(active, n, k)
                                   ELSE Context(a, l, m)
    PROVE  Abs!Next
<1> DEFINE new == [Contexts EXCEPT ![active][k][n] = NewEntry(active, n, k)]
<1>1. \A a \in Agents, l \in Layers, m \in Mems : new[a][l][m] = Context(a, l, m)'
  BY DEF Contexts
<1>2. \A a \in Agents, l \in Layers : new[a][l] = [m \in Mems |-> Context(a, l, m)']
  BY <1>1 DEF Contexts
<1>3. \A a \in Agents : new[a] = [l \in Layers |-> [m \in Mems |-> Context(a, l, m)']]
  BY <1>2 DEF Contexts
<1>4. Contexts' = new
  BY <1>3 DEF Contexts
<1>5. Abs!Put(n, k)
  BY <1>4 DEF Abs!Put, Contexts, NewEntry
<1> QED
  BY <1>5 DEF Abs!Next

LEMMA SwitchIsAbstract ==
    ASSUME active' \in Agents, puts' = puts, owned' = owned,
           \A a \in Agents, l \in Layers, m \in Mems : Context(a, l, m)' = Context(a, l, m)
    PROVE  Abs!Next
<1>1. \A a \in Agents, l \in Layers :
          [m \in Mems |-> Context(a, l, m)'] = [m \in Mems |-> Context(a, l, m)]
  OBVIOUS
<1>2. \A a \in Agents :
          [l \in Layers |-> [m \in Mems |-> Context(a, l, m)']]
          = [l \in Layers |-> [m \in Mems |-> Context(a, l, m)]]
  BY <1>1
<1>3. Contexts' = Contexts
  BY <1>2 DEF Contexts
<1>4. Abs!SwitchTo(active')
  BY <1>3 DEF Abs!SwitchTo, Contexts
<1> QED
  BY <1>4 DEF Abs!Next

(* A switch that returns changes nobody's context: what it has put back is *)
(* the incoming agent's.                                                   *)
LEMMA ReturnContext ==
    ASSUME AllInv, AllInv', NEW t \in Tasks, SwitchStep(t), RestoreDone(t),
           NEW a \in Agents, NEW l \in Layers, NEW m \in Mems
    PROVE  Context(a, l, m)' = Context(a, l, m) /\ puts' = puts
<1>1. /\ task[t].pc = "restore" /\ task[t].buf = {} /\ Switching(t)
      /\ task'[t].pc = "idle" /\ active' = task[t].to
      /\ UNCHANGED <<cache, puts, snapshots>>
  BY AgentSwitchAssumption DEF RestoreDone, SwitchStep, AllInv, SessionTypeOK, TypeOK, Idle,
                               Switching, Running, cacheVars
<1>2. \A u \in Tasks : ~Switching(u)'
  <2>1. OwnStep(t)
    BY StepIsOwn DEF SwitchStep, AllInv, SessionTypeOK, TypeOK
  <2> QED
    BY <1>1, <2>1 DEF OwnStep, AllInv, WaitingInv, OneCall, Switching, Running
<1>3. PhaseContext(t, a, l, m) = IF a = task[t].to THEN cache[l][a][m] ELSE OneOf(snapshots[a], l, m)
  BY <1>1 DEF PhaseContext, AtPlace
<1> QED
  BY <1>1, <1>2, <1>3 DEF AllInv, ContextsKnown

LEMMA StepIsAbstract ==
    ASSUME Waits, AllInv, AllInv', [SessionNext]_sessionVars
    PROVE  [Abs!Next]_(Abs!absVars)
<1>a. /\ CacheTypeOK /\ task \in [Tasks -> TaskType] /\ active \in Agents /\ active' \in Agents
      /\ ContextsKnown /\ ContextsKnown' /\ CacheIsolated /\ puts \in Nat
      /\ owned \in [Agents -> [Layers -> [Mems -> Entries \cup {NoEntry}]]]
  BY MemoryCacheAssumption DEF AllInv, SessionTypeOK, TypeOK, IsolationInv, CacheTypeOK
<1>b. ASSUME \A t \in Tasks : ~Switching(t) /\ ~Switching(t)',
             UNCHANGED <<snapshots, active>>,
             NEW a \in Agents, NEW l \in Layers, NEW m \in Mems
      PROVE  /\ Context(a, l, m) = IF a = active THEN cache[l][a][m] ELSE OneOf(snapshots[a], l, m)
             /\ Context(a, l, m)' = IF a = active THEN cache'[l][a][m] ELSE OneOf(snapshots[a], l, m)
  BY <1>a, <1>b DEF ContextsKnown
<1>1. ASSUME NEW n \in Mems, NEW k \in Layers, ClientPut(n, k)
      PROVE  Abs!Next
  <2>1. /\ \A t \in Tasks : ~Switching(t) /\ ~Switching(t)'
        /\ UNCHANGED <<snapshots, active>> /\ puts < MaxPuts /\ puts' = puts + 1
        /\ owned' = [owned EXCEPT ![active][k][n] = NewEntry(active, n, k)]
    BY <1>1 DEF ClientPut, Put, MayAct, Waits, Quiet, Switching, Running
  <2>2. /\ NewEntry(active, n, k) \in Entries
        /\ NewEntry(active, n, k).mem = n /\ NewEntry(active, n, k).layer = k
        /\ cache' = Stored(cache, active, NewEntry(active, n, k).mem, NewEntry(active, n, k))
    BY <1>1, <1>a, NewEntryIs DEF ClientPut, Put
  <2>3. \A a \in Agents, l \in Layers, m \in Mems :
            cache'[l][a][m] = IF a = active /\ l = k /\ m = n THEN NewEntry(active, n, k)
                              ELSE cache[l][a][m]
    BY <1>a, <2>2, StoredAt
  <2>4. \A a \in Agents, l \in Layers, m \in Mems :
            Context(a, l, m)' = IF a = active /\ l = k /\ m = n THEN NewEntry(active, n, k)
                                ELSE Context(a, l, m)
    BY <1>b, <2>1, <2>3
  <2> QED
    BY <1>a, <2>1, <2>4, PutIsAbstract
<1>2. ASSUME NEW n \in Mems, NEW k \in Layers, ClientRemove(n, k)
      PROVE  Abs!Next
  <2>1. /\ \A t \in Tasks : ~Switching(t) /\ ~Switching(t)'
        /\ UNCHANGED <<snapshots, active, puts>>
    BY <1>2 DEF ClientRemove, Remove, MayAct, Waits, Quiet, Switching, Running
  <2>2. CacheShrinks
    BY <1>2, <1>a, InvalidatedAt DEF ClientRemove, Remove, CacheShrinks
  <2>3. \A a \in Agents, l \in Layers, m \in Mems : KeptOrForgotten(a, l, m)
    BY <1>b, <2>1, <2>2 DEF KeptOrForgotten, CacheShrinks
  <2>4. \A a \in Agents, l \in Layers, m \in Mems : owned'[a][l][m] \in {owned[a][l][m], NoEntry}
    BY <1>2, <1>a DEF ClientRemove
  <2> QED
    BY <2>1, <2>3, <2>4, ForgettingIsAbstract
<1>3. ASSUME NEW b \in Agents, NEW n \in Mems, NEW k \in Layers, CacheExpires(b, n, k)
      PROVE  Abs!Next
  <2>1. UNCHANGED <<snapshots, task, active, puts>>
    BY <1>3 DEF CacheExpires, Expire
  <2>2. CacheShrinks
    BY <1>3, <1>a, InvalidatedAt DEF CacheExpires, Expire, CacheShrinks
  <2>a. \A a \in Agents, l \in Layers, m \in Mems : owned'[a][l][m] \in {owned[a][l][m], NoEntry}
    BY <1>3, <1>a DEF CacheExpires
  <2>3. CASE \A t \in Tasks : ~Switching(t)
    <3>1. \A a \in Agents, l \in Layers, m \in Mems : KeptOrForgotten(a, l, m)
      BY <1>b, <2>1, <2>2, <2>3 DEF KeptOrForgotten, CacheShrinks, Switching, Running
    <3> QED
      BY <2>1, <2>a, <3>1, ForgettingIsAbstract
  <2>4. ASSUME NEW t \in Tasks, Switching(t)
        PROVE  Abs!Next
    <3>1. Switching(t)'
      BY <2>1, <2>4 DEF Switching, Running
    <3>2. \A a \in Agents, l \in Layers, m \in Mems :
              /\ Context(a, l, m) = PhaseContext(t, a, l, m)
              /\ Context(a, l, m)' = PhaseContext(t, a, l, m)'
      BY <1>a, <2>4, <3>1 DEF ContextsKnown
    <3>3. \A a \in Agents, l \in Layers, m \in Mems :
              \/ PhaseContext(t, a, l, m)' = PhaseContext(t, a, l, m)
              \/ PhaseContext(t, a, l, m)' = NoEntry
      BY <2>1, <2>2 DEF PhaseContext, CacheShrinks
    <3>4. \A a \in Agents, l \in Layers, m \in Mems : KeptOrForgotten(a, l, m)
      BY <3>2, <3>3 DEF KeptOrForgotten
    <3> QED
      BY <2>1, <2>a, <3>4, ForgettingIsAbstract
  <2> QED
    BY <2>3, <2>4
<1>4. ASSUME NEW t \in Tasks, NEW b \in Agents, ClientSwitch(t, b)
      PROVE  Abs!Next
  <2>1. /\ Quiet /\ UNCHANGED <<cache, active, puts, snapshots, owned>>
        /\ task'[t] = [pc |-> "collectL1", from |-> active, to |-> b,
                       buf |-> Live(cache, "L0", active), keys |-> {}]
    BY <1>4, <1>a DEF ClientSwitch, MayAct, Waits, BeginSwitch, cacheVars
  <2>2. /\ \A u \in Tasks : ~Switching(u)
        /\ Switching(t)'
    BY <2>1, AgentSwitchAssumption DEF Quiet, Switching, Running
  <2>3. ASSUME NEW a \in Agents, NEW l \in Layers, NEW m \in Mems
        PROVE  Context(a, l, m)' = Context(a, l, m)
    <3>1. /\ Context(a, l, m) = IF a = active THEN cache[l][a][m] ELSE OneOf(snapshots[a], l, m)
          /\ Context(a, l, m)' = PhaseContext(t, a, l, m)'
      BY <1>a, <2>2 DEF ContextsKnown
    <3>2. OneOf(Live(cache, "L0", active), "L0", m) = cache["L0"][active][m]
      BY <1>a, CollectedIs DEF Layers
    <3>3. PhaseContext(t, a, l, m)' = IF a = active THEN cache[l][a][m] ELSE OneOf(snapshots[a], l, m)
      BY <2>1, <3>2 DEF PhaseContext
    <3> QED
      BY <3>1, <3>3
  <2>4. \A a \in Agents, l \in Layers, m \in Mems : KeptOrForgotten(a, l, m)
    BY <2>3 DEF KeptOrForgotten
  <2> QED
    BY <2>1, <2>4, ForgettingIsAbstract
<1>5. ASSUME NEW t \in Tasks, NEW b \in Agents, ClientEvict(t, b)
      PROVE  Abs!Next
  <2>1. /\ Quiet /\ UNCHANGED <<cache, active, puts, snapshots>>
        /\ task'[t].to = NoAgent
        /\ \A u \in Tasks : u # t => task'[u] = task[u]
    BY <1>5, <1>a DEF ClientEvict, MayAct, Waits, BeginEvict, cacheVars
  <2>2. \A u \in Tasks : ~Switching(u) /\ ~Switching(u)'
    BY <2>1 DEF Quiet, Switching, Running
  <2>3. \A a \in Agents, l \in Layers, m \in Mems : KeptOrForgotten(a, l, m)
    BY <1>b, <2>1, <2>2 DEF KeptOrForgotten
  <2>4. \A a \in Agents, l \in Layers, m \in Mems : owned'[a][l][m] \in {owned[a][l][m], NoEntry}
    BY <1>5, <1>a DEF ClientEvict, NothingOwned
  <2> QED
    BY <2>1, <2>3, <2>4, ForgettingIsAbstract
<1>6. ASSUME NEW t \in Tasks, SwitchStep(t)
      PROVE  Abs!Next \/ UNCHANGED Abs!absVars
  <2>1. CASE RestoreDone(t)
    <3>1. puts' = puts
      BY <2>1 DEF RestoreDone, cacheVars
    <3>2. \A a \in Agents, l \in Layers, m \in Mems : Context(a, l, m)' = Context(a, l, m)
      BY <1>6, <2>1, ReturnContext
    <3> QED
      BY <1>6, <1>a, <3>1, <3>2, SwitchIsAbstract DEF SwitchStep
  <2>2. CASE ~RestoreDone(t)
    <3>1. puts' = puts
      BY <1>6, <1>a, StepIsOwn DEF SwitchStep, OwnStep
    <3>2. active' = active
      BY <1>6, <2>2 DEF SwitchStep, Step, CollectL1, SaveSnapshot, SaveFails, ListKeys, DrainDone,
           DrainKey, LoadSnapshot, LoadFails, RestoreEntry
    <3>3. \A a \in Agents, l \in Layers, m \in Mems : KeptOrForgotten(a, l, m)
      BY <1>6, <2>2, CallContext
    <3> QED
      BY <1>6, <3>1, <3>2, <3>3, ForgettingIsAbstract DEF SwitchStep
  <2> QED
    BY <2>1, <2>2
<1>7. ~SessionCrash
  BY DEF SessionCrash, Crash, Waits
<1>8. CASE UNCHANGED sessionVars
  <2>1. UNCHANGED <<cache, puts, snapshots, task, active, owned>>
    BY <1>8 DEF sessionVars, vars
  <2>2. \A a \in Agents, l \in Layers, m \in Mems : Context(a, l, m)' = Context(a, l, m)
    BY <2>1 DEF Context, InCache, Buffered, Collected, Holds, SavedEntry
  <2> QED
    BY <1>a, <2>1, <2>2, SwitchIsAbstract
<1> QED
  BY <1>1, <1>2, <1>3, <1>4, <1>5, <1>6, <1>7, <1>8 DEF SessionNext

LEMMA InitIsAbstract == SessionInit => Abs!Init
<1> SUFFICES ASSUME SessionInit PROVE Abs!Init
  OBVIOUS
<1>1. \A a \in Agents, l \in Layers, m \in Mems : Context(a, l, m) = NoEntry
  <2> SUFFICES ASSUME NEW a \in Agents, NEW l \in Layers, NEW m \in Mems
               PROVE  Context(a, l, m) = NoEntry
    OBVIOUS
  <2>1. \A t \in Tasks : ~Holds(t, a, l)
    BY DEF SessionInit, Init, Idle, Holds
  <2>2. Buffered(a, l, m) = {} /\ cache[l][a][m] = NoEntry /\ SavedEntry(a, l, m) = NoEntry
    BY <2>1 DEF Buffered, SavedEntry, SessionInit, Init, CacheInit, EmptyCache
  <2> QED
    BY <2>2 DEF Context
<1>2. Contexts = [a \in Agents |-> [l \in Layers |-> [m \in Mems |-> NoEntry]]]
  BY <1>1 DEF Contexts
<1>3. active \in Agents /\ puts = 0
  BY DEF SessionInit, Init, CacheInit
<1>4. owned = [a \in Agents |-> [l \in Layers |-> [m \in Mems |-> NoEntry]]]
  BY DEF SessionInit, NothingOwned
<1> QED
  BY <1>2, <1>3, <1>4 DEF Abs!Init, Abs!NoContext, Contexts

(* If the client waits for its calls and only saves fail, the switcher     *)
(* with its cache, its rows and its steps is a switch of contexts: what     *)
(* was put is in its owner's context until it is removed, evicted or       *)
(* expires, nothing else gets into a context, and a switch that returns    *)
(* has changed the current agent and no context.                           *)
THEOREM ContextsKept ==
    ASSUME Waits
    PROVE  SessionSpec => SwitchKeepsContexts
<1>1. SessionSpec => []IsolationInv
  BY SessionImplementsSwitcher, IsolationAlways, PTL
<1>2. SessionSpec => []AllInv
  BY <1>1, SessionTypeAlways, WaitingAlways, SessionInvAlways, ContextsAre, OwedIsInContext, PTL
     DEF AllInv
<1>3. AllInv /\ AllInv' /\ [SessionNext]_sessionVars => [Abs!Next]_(Abs!absVars)
  BY StepIsAbstract
<1> QED
  BY <1>2, <1>3, InitIsAbstract, PTL DEF SessionSpec, SwitchKeepsContexts, Abs!Spec

=============================================================================
