---------------------------- MODULE AgentSession ----------------------------
(***************************************************************************)
(* The switcher used as its tests use it: a client works with one agent at *)
(* a time, putting and removing entries of that agent, and calls           *)
(* switch(current, next) to change agents; the clear-all-data handler      *)
(* evicts agents.  With Overlap the client keeps using the cache while a   *)
(* switch is running, and may start a second switch or an eviction, as the *)
(* async API lets it.                                                      *)
(***************************************************************************)
EXTENDS AgentSwitch

CONSTANT Overlap    \* may client operations overlap a running switch?

ASSUME AgentSessionAssumption == Overlap \in BOOLEAN

VARIABLES
    active,     \* the agent the client is working with
    owned,      \* history: what the client last put and nothing removed
    exposed     \* history: versions no promise is made about

sessionVars == <<vars, active, owned, exposed>>

NothingOwned == [l \in Layers |-> [m \in Mems |-> NoEntry]]

(* No switch is running.                                                   *)
Quiet == \A t \in Tasks : task[t].pc = "idle"

(* The client may act now.                                                 *)
MayAct == Overlap \/ Quiet

(* Everything put so far is in danger: two calls overlap, a load fails     *)
(* after its eviction, the process dies.                                   *)
ExposeAllIf(danger) == exposed' = IF danger THEN exposed \cup 1..puts ELSE exposed

SessionInit ==
    /\ Init
    /\ active \in Agents
    /\ owned = [a \in Agents |-> NothingOwned]
    /\ exposed = {}

ClientPut(m, l) ==
    /\ MayAct
    /\ Put(active, m, l)
    /\ owned' = [owned EXCEPT ![active][l][m] = NewEntry(active, m, l)]
    /\ exposed' = IF Quiet THEN exposed ELSE exposed \cup {puts + 1}
    /\ UNCHANGED <<snapshots, task, active>>

(* One invalidation of a remove().                                         *)
ClientRemove(m, l) ==
    /\ MayAct
    /\ Remove(active, m, l)
    /\ owned' = [owned EXCEPT ![active][l][m] = NoEntry]
    /\ UNCHANGED <<snapshots, task, active, exposed>>

CacheExpires(a, m, l) ==
    /\ Expire(a, m, l)
    /\ owned' = IF owned[a][l][m] = cache[l][a][m]
                THEN [owned EXCEPT ![a][l][m] = NoEntry] ELSE owned
    /\ UNCHANGED <<snapshots, task, active, exposed>>

ClientSwitch(t, to) ==
    /\ MayAct
    /\ BeginSwitch(t, active, to)
    /\ ExposeAllIf(~Quiet)
    /\ UNCHANGED <<active, owned>>

ClientEvict(t, a) ==
    /\ MayAct
    /\ BeginEvict(t, a)
    /\ owned' = [owned EXCEPT ![a] = NothingOwned]
    /\ ExposeAllIf(~Quiet)
    /\ UNCHANGED active

(* A switch that returns Ok makes its target the client's agent; one that  *)
(* returns an error leaves the client with the agent it had.               *)
SwitchStep(t) ==
    /\ Step(t)
    /\ active' = IF task[t].pc = "restore" /\ task[t].buf = {} THEN task[t].to ELSE active
    /\ ExposeAllIf(task[t].pc = "load" /\ task'[t].pc = "idle")
    /\ UNCHANGED owned

(* What a restart leaves the client: the saved rows.                       *)
SavedEntry(a, l, m) ==
    IF \E e \in snapshots[a] : e.layer = l /\ e.mem = m
    THEN CHOOSE e \in snapshots[a] : e.layer = l /\ e.mem = m
    ELSE NoEntry

SessionCrash ==
    /\ Crash
    /\ owned' = [a \in Agents |-> [l \in Layers |-> [m \in Mems |-> SavedEntry(a, l, m)]]]
    /\ ExposeAllIf(TRUE)
    /\ UNCHANGED active

SessionNext ==
    \/ \E m \in Mems, l \in Layers : ClientPut(m, l) \/ ClientRemove(m, l)
    \/ \E a \in Agents, m \in Mems, l \in Layers : CacheExpires(a, m, l)
    \/ \E t \in Tasks, a \in Agents : ClientSwitch(t, a) \/ ClientEvict(t, a)
    \/ \E t \in Tasks : SwitchStep(t)
    \/ SessionCrash

SessionSpec == SessionInit /\ [][SessionNext]_sessionVars

(* The runtime keeps polling every spawned call.                           *)
FairSessionSpec == SessionSpec /\ \A t \in Tasks : WF_sessionVars(SwitchStep(t))

-----------------------------------------------------------------------------
(* Refinement: where each agent's context is, phase by phase. *)

Evicting == {"listL0", "drainL0", "listL1", "drainL1", "load"}

(* Once the outgoing agent is saved, no context is in the cache until the  *)
(* incoming one is being put back.                                         *)
InCache(a) ==
    /\ \A t \in Tasks : task[t].to # NoAgent => task[t].pc \notin Evicting
    /\ \A t \in Tasks : task[t].pc = "restore" => a = task[t].to
    /\ (\A t \in Tasks : task[t].pc # "restore") => a = active

(* The calls whose buffer stands for what a has in layer l: a collection   *)
(* that has been through l, a restore that puts a back.                    *)
Holds(t, a, l) ==
    \/ task[t].pc = "restore" /\ task[t].to = a
    \/ task[t].pc = "save" /\ task[t].from = a
    \/ task[t].pc = "collectL1" /\ task[t].from = a /\ l = "L0"

Buffered(a, l, m) ==
    {e \in UNION {task[t].buf : t \in {u \in Tasks : Holds(u, a, l)}} : e.layer = l /\ e.mem = m}

(* An entry that expires between its collection and the save is saved all  *)
(* the same, so from its collection on the buffer is what counts.          *)
Collected(a, l) ==
    \E t \in Tasks : task[t].pc \in {"collectL1", "save"} /\ Holds(t, a, l)

Context(a, l, m) ==
    IF ~InCache(a) THEN SavedEntry(a, l, m)
    ELSE IF Buffered(a, l, m) # {} THEN CHOOSE e \in Buffered(a, l, m) : TRUE
    ELSE IF Collected(a, l) THEN NoEntry
    ELSE cache[l][a][m]

Abs == INSTANCE AgentContexts WITH
    current <- active,
    owed <- owned,
    ctx <- [a \in Agents |-> [l \in Layers |-> [m \in Mems |-> Context(a, l, m)]]]

(* A client that waits for its switches sees the abstract contexts.  What   *)
(* it put is in its owner's context until it is removed, evicted or        *)
(* expires, and what is in a context comes from a put: a switch, whatever  *)
(* its intermediate steps and whether or not its save fails, drops, alters *)
(* and moves nothing of it.                                                *)
SwitchKeepsContexts == Abs!Spec

-----------------------------------------------------------------------------
(* Properties *)

(* The switcher's stated invariant (switcher.rs:20): at most one agent's   *)
(* working set is live in the cache.                                       *)
AtMostOneLive ==
    Cardinality({a \in Agents : \E l \in Layers : LiveKeys(cache, l, a) # {}}) <= 1

Recoverable(e) ==
    \/ cache[e.layer][e.owner][e.mem] = e
    \/ e \in snapshots[e.owner]

(* The agent's state is fully recoverable (traits.rs:320): what the client *)
(* put and nothing removed is in the cache or in its owner's saved row.    *)
FullyRecoverable ==
    \A a \in Agents, l \in Layers, m \in Mems :
        owned[a][l][m] # NoEntry => Recoverable(owned[a][l][m])

(* Overlapping one call endangers only what is put during it: an entry put *)
(* while no call ran is never lost, however later puts and removals        *)
(* overlap the collecting, saving, draining and restoring of its agent,    *)
(* until a second call overlaps, a load fails or the process dies.         *)
UnexposedRecoverable ==
    \A a \in Agents, l \in Layers, m \in Mems :
        LET e == owned[a][l][m] IN
        e # NoEntry /\ e.ver \notin exposed => Recoverable(e)

(* Every switch returns.                                                   *)
SwitchReturns == \A t \in Tasks : task[t].pc # "idle" ~> task[t].pc = "idle"

(* What the switcher and its trait say of themselves, together: one agent is   *)
(* live, and no agent's state is lost (switcher.rs:20, traits.rs:320).       *)
OneLiveAllRecoverable == AtMostOneLive /\ FullyRecoverable

=============================================================================
