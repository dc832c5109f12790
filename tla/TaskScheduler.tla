--------------------------- MODULE TaskScheduler ---------------------------
(***************************************************************************)
(* Scheduled tasks (umms-scheduler: engine.rs, store.rs, task.rs) and the  *)
(* requests that create, edit, delete and trigger them (umms-api,          *)
(* handlers/scheduler.rs).                                                 *)
(*                                                                         *)
(* The engine lists all tasks and then works through its copies, one       *)
(* execution after the other; an edit reads a task and writes the whole    *)
(* row back; a trigger executes a copy in the background.  The store locks *)
(* its connection per call, so all of these interleave between calls.  A   *)
(* request whose client is gone ends at the call it waits for; the call    *)
(* itself runs on.                                                         *)
(***************************************************************************)
EXTENDS Naturals, FiniteSets, Sequences

CONSTANTS
    Ids,        \* task ids, numbered as they are given out
    Requests,   \* concurrent edits and triggers
    Every,      \* the intervals schedules use
    Manual,     \* the schedule that never comes due
    Never,      \* no last or next run
    NoTask,     \* "no row with this id"
    Faults,     \* which of "store", "cancel", "panic" and "crash" may happen
    MaxTime,    \* bound: how far the clock goes
    MaxEvents   \* bound: requests made and faults suffered

ASSUME TaskSchedulerAssumption ==
    /\ Every \subseteq Nat \ {0}
    /\ Ids \subseteq Nat \ {0} /\ IsFiniteSet(Ids)
    /\ Manual \notin Nat /\ Never \notin Nat
    /\ Faults \subseteq {"store", "cancel", "panic", "crash"}
    /\ MaxTime \in Nat /\ MaxEvents \in Nat

VARIABLES
    tasks,      \* tasks[i]: the row of task i
    execs,      \* the rows of executions
    engine,     \* what the engine is doing
    permit,     \* the one wake-up Notify keeps
    req,        \* req[r]: the request r is working on
    clock,      \* the time
    execNo,     \* executions started so far
    events,     \* requests made and faults suffered so far
    created,    \* the last id given out
    allowed,    \* history: when the engine may run i again, if nothing was written since
    leaked,     \* history: executions whose end will not be recorded
    unseen,     \* history: tasks whose creation or edit was answered since the engine read them
    gone        \* history: tasks deleted while nobody worked on them

store == <<tasks, execs>>
history == <<allowed, leaked, unseen, gone>>
vars == <<store, engine, permit, req, clock, execNo, events, created, history>>

Times == Nat \cup {Never}

Task == [every : Every \cup {Manual}, enabled : BOOLEAN, last : Times, next : Times]

Execution == [no : Nat, task : Ids, status : {"running", "success", "failed"}]

(* A copy of a row is taken with its id; the execution it leads to is 0     *)
(* until there is one.                                                      *)
Copy == [id : Ids, task : Task]

NoCopy == [id |-> Never, task |-> NoTask]

Free == [pc |-> "free", of |-> NoCopy, exec |-> 0]

EnginePhases == {"sleep", "list", "listed", "check", "execute", "update", "dead"}

RequestPhases == {"edit", "wake", "trigger", "spawn", "execute", "update"}

(* Every variable has its type; the engine has a task while it executes.    *)
TypeOK ==
    /\ tasks \in [Ids -> Task \cup {NoTask}]
    /\ execs \subseteq Execution
    /\ engine \in [pc : EnginePhases, list : Seq(Copy), now : 0..MaxTime, exec : 0..execNo]
    /\ engine.pc \in {"execute", "update"} => engine.list # <<>>
    /\ permit \in BOOLEAN
    /\ req \in [Requests -> {Free} \cup [pc : RequestPhases, of : Copy, exec : 0..execNo]]
    /\ clock \in 0..MaxTime /\ execNo \in Nat /\ events \in 0..MaxEvents
    /\ created \in Nat /\ gone \subseteq Ids /\ unseen \subseteq Ids
    /\ leaked \subseteq 1..execNo
    /\ allowed \in [Ids -> Nat]

Asleep == [pc |-> "sleep", list |-> <<>>, now |-> 0, exec |-> 0]

Init ==
    /\ tasks = [i \in Ids |-> NoTask]
    /\ execs = {}
    /\ engine = Asleep
    /\ permit = FALSE
    /\ req = [r \in Requests |-> Free]
    /\ clock = 0 /\ execNo = 0 /\ events = 0 /\ created = 0
    /\ allowed = [i \in Ids |-> 0]
    /\ leaked = {} /\ unseen = {} /\ gone = {}

-----------------------------------------------------------------------------

NextAfter(every, at) == IF every = Manual THEN Never ELSE at + every

IsDue(task, now) ==
    /\ task.enabled /\ task.every # Manual
    /\ task.next \in {Never} \cup 0..now

(* Something happens that the bound counts.                                 *)
Event == events < MaxEvents /\ events' = events + 1

StoreFails == "store" \in Faults /\ Event

(* Mutant: the next run is not written.                                     *)
UpdateLastOnly(i, at, every) ==
    tasks' = IF tasks[i] = NoTask THEN tasks ELSE [tasks EXCEPT ![i].last = at]

(* update_last_run(), with the schedule of the copy that was executed.      *)
UpdateLastRun(i, at, every) ==
    tasks' = IF tasks[i] = NoTask THEN tasks
             ELSE [tasks EXCEPT ![i].last = at, ![i].next = NextAfter(every, at)]

(* record_execution() of a new execution of i.                              *)
Record(i) ==
    /\ execNo' = execNo + 1
    /\ execs' = execs \cup {[no |-> execNo + 1, task |-> i, status |-> "running"]}

(* Mutant: only a success is recorded.                                      *)
FinishedIfSuccess(n, status) ==
    {IF e.no = n /\ status = "success" THEN [e EXCEPT !.status = status] ELSE e : e \in execs}

(* update_execution() of execution n.                                       *)
Finished(n, status) == {IF e.no = n THEN [e EXCEPT !.status = status] ELSE e : e \in execs}

WorkedOn(i) ==
    \/ \E k \in DOMAIN engine.list : engine.list[k].id = i
    \/ \E r \in Requests : req[r].of.id = i

-----------------------------------------------------------------------------
(* The engine *)

Reading == Head(engine.list)

GetTask(i) == [id |-> i, task |-> tasks[i]]

(* list_tasks(): all rows, in the order they were created.                  *)
ListTasks ==
    LET rows == {i \in Ids : tasks[i] # NoTask}
        lists == {ids \in [1..Cardinality(rows) -> rows] :
                    \A k, l \in DOMAIN ids : k < l => ids[k] < ids[l]}
    IN  {[k \in DOMAIN ids |-> GetTask(ids[k])] : ids \in lists}

(* Woken by a permit, or by the end of its interval with a permit left for  *)
(* the next time.                                                          *)
WakeUp ==
    /\ engine.pc = "sleep"
    /\ permit' \in {FALSE, permit}
    /\ engine' = [engine EXCEPT !.pc = "list"]
    /\ UNCHANGED <<store, req, clock, execNo, events, created, history>>

List ==
    /\ engine.pc = "list"
    /\ \E list \in ListTasks : engine' = [engine EXCEPT !.pc = "listed", !.list = list]
    /\ unseen' = {}
    /\ UNCHANGED <<store, permit, req, clock, execNo, events, created, allowed, leaked, gone>>

(* The list cannot be read: the wake-up is spent.                           *)
ListFails ==
    /\ engine.pc = "list" /\ StoreFails
    /\ engine' = Asleep
    /\ unseen' = {}
    /\ UNCHANGED <<store, permit, req, clock, execNo, created, allowed, leaked, gone>>

(* The time of the pass is taken when the list has arrived.                 *)
TakeTime ==
    /\ engine.pc = "listed"
    /\ engine' = [engine EXCEPT !.pc = "check", !.now = clock]
    /\ UNCHANGED <<store, permit, req, clock, execNo, events, created, history>>

(* Mutant: a task that is not due ends the pass over the list.              *)
SkipRest ==
    /\ engine.pc = "check" /\ engine.list # <<>>
    /\ ~IsDue(Reading.task, engine.now)
    /\ engine' = [engine EXCEPT !.list = <<>>]
    /\ UNCHANGED <<store, permit, req, clock, execNo, events, created, history>>

(* A task that is not due is passed over.                                   *)
Skip ==
    /\ engine.pc = "check" /\ engine.list # <<>>
    /\ ~IsDue(Reading.task, engine.now)
    /\ engine' = [engine EXCEPT !.list = Tail(@)]
    /\ UNCHANGED <<store, permit, req, clock, execNo, events, created, history>>

(* A due task: record the execution and execute; an execution that could    *)
(* not be recorded is executed all the same.                                *)
StartRun ==
    /\ engine.pc = "check" /\ engine.list # <<>>
    /\ IsDue(Reading.task, engine.now)
    /\ \/ Record(Reading.id) /\ UNCHANGED events
          /\ engine' = [engine EXCEPT !.pc = "execute", !.exec = execNo + 1]
       \/ StoreFails /\ UNCHANGED <<execs, execNo>>
          /\ engine' = [engine EXCEPT !.pc = "execute", !.exec = 0]
    /\ allowed' = [allowed EXCEPT ![Reading.id] = engine.now + Reading.task.every]
    /\ UNCHANGED <<tasks, permit, req, clock, created, leaked, unseen, gone>>

(* Mutant: the copy is dropped before the last run is written.              *)
EndRunEarly(status) ==
    /\ engine.pc = "execute"
    /\ execs' = Finished(engine.exec, status) /\ UNCHANGED <<events, leaked>>
    /\ engine' = [engine EXCEPT !.pc = "update", !.list = Tail(@)]
    /\ UNCHANGED <<tasks, permit, req, clock, execNo, created, allowed, unseen, gone>>

(* The executor returns: update the execution's row.                        *)
EndRun(status) ==
    /\ engine.pc = "execute"
    /\ \/ execs' = Finished(engine.exec, status) /\ UNCHANGED <<events, leaked>>
       \/ StoreFails /\ leaked' = leaked \cup ({engine.exec} \ {0}) /\ UNCHANGED execs
    /\ engine' = [engine EXCEPT !.pc = "update"]
    /\ UNCHANGED <<tasks, permit, req, clock, execNo, created, allowed, unseen, gone>>

(* The executor panics, and with it the engine: nothing watches its handle. *)
RunPanics ==
    /\ engine.pc = "execute" /\ "panic" \in Faults /\ Event
    /\ engine' = [Asleep EXCEPT !.pc = "dead"]
    /\ leaked' = leaked \cup ({engine.exec} \ {0})
    /\ allowed' = [allowed EXCEPT ![Reading.id] = 0]
    /\ UNCHANGED <<store, permit, req, clock, execNo, created, unseen, gone>>

(* Write the last and the next run, both from the time of the pass.         *)
WriteRun ==
    /\ engine.pc = "update"
    /\ \/ UpdateLastRun(Reading.id, engine.now, Reading.task.every) /\ UNCHANGED <<events, allowed>>
       \/ StoreFails /\ allowed' = [allowed EXCEPT ![Reading.id] = 0] /\ UNCHANGED tasks
    /\ engine' = [engine EXCEPT !.pc = "check", !.list = Tail(@), !.exec = 0]
    /\ UNCHANGED <<execs, permit, req, clock, execNo, created, leaked, unseen, gone>>

GoToSleep ==
    /\ engine.pc = "check" /\ engine.list = <<>>
    /\ engine' = Asleep
    /\ UNCHANGED <<store, permit, req, clock, execNo, events, created, history>>

EngineStep ==
    \/ WakeUp \/ List \/ TakeTime \/ Skip \/ StartRun
    \/ \E status \in {"success", "failed"} : EndRun(status)
    \/ WriteRun \/ GoToSleep

-----------------------------------------------------------------------------
(* Requests *)

(* A new task is saved; the wake-up follows.                                *)
Create(r, i, every, enabled) ==
    /\ Event
    /\ req[r] = Free /\ i = created + 1
    /\ LET new == [every |-> every, enabled |-> enabled, last |-> Never,
                   next |-> NextAfter(every, clock)]
       IN  /\ tasks' = [tasks EXCEPT ![i] = new]
           /\ req' = [req EXCEPT ![r] = [pc |-> "wake", of |-> [id |-> i, task |-> new],
                                         exec |-> 0]]
    /\ created' = i
    /\ UNCHANGED <<execs, engine, permit, clock, execNo, history>>

(* The request is answered after wake(): notify_one() keeps one permit.     *)
Wake(r) ==
    /\ req[r].pc = "wake"
    /\ permit' = TRUE
    /\ unseen' = unseen \cup {req[r].of.id}
    /\ req' = [req EXCEPT ![r] = Free]
    /\ UNCHANGED <<store, engine, clock, execNo, events, created, allowed, leaked, gone>>

(* An edit or a trigger begins by reading the task.                         *)
Begin(r, i, pc) ==
    /\ Event
    /\ req[r] = Free /\ tasks[i] # NoTask
    /\ req' = [req EXCEPT ![r] = [pc |-> pc, of |-> GetTask(i), exec |-> 0]]
    /\ UNCHANGED <<store, engine, permit, clock, execNo, created, history>>

(* A new schedule gets a new next run; any other change keeps the one that  *)
(* was read.                                                                *)
Rescheduled(task) ==
    {[task EXCEPT !.every = every, !.next = NextAfter(every, clock)] :
        every \in Every \cup {Manual}}

(* What an edit makes of the copy it read.                                  *)
Edits(task) ==
    {[t EXCEPT !.enabled = enabled] : enabled \in BOOLEAN, t \in {task} \cup Rescheduled(task)}

(* Mutant: the engine is not woken after an edit.                           *)
EditQuietly(r) ==
    LET c == req[r].of IN
    /\ req[r].pc = "edit"
    /\ \E new \in Edits(c.task) : tasks' = [tasks EXCEPT ![c.id] = new]
    /\ allowed' = [allowed EXCEPT ![c.id] = 0]
    /\ gone' = gone \ {c.id}
    /\ unseen' = unseen \cup {c.id}
    /\ req' = [req EXCEPT ![r] = Free]
    /\ UNCHANGED <<execs, engine, permit, clock, execNo, events, created, leaked>>

(* save_task() of the edited copy; the wake-up follows.                     *)
Edit(r) ==
    LET c == req[r].of IN
    /\ req[r].pc = "edit"
    /\ \E new \in Edits(c.task) : tasks' = [tasks EXCEPT ![c.id] = new]
    /\ allowed' = [allowed EXCEPT ![c.id] = 0]
    /\ gone' = gone \ {c.id}
    /\ req' = [req EXCEPT ![r].pc = "wake"]
    /\ UNCHANGED <<execs, engine, permit, clock, execNo, events, created, leaked, unseen>>

EditFails(r) ==
    /\ req[r].pc = "edit" /\ StoreFails
    /\ req' = [req EXCEPT ![r] = Free]
    /\ UNCHANGED <<store, engine, permit, clock, execNo, created, history>>

(* Mutant: the execution history is not cleaned up.                         *)
DeleteTaskOnly(i) ==
    /\ Event
    /\ tasks[i] # NoTask
    /\ tasks' = [tasks EXCEPT ![i] = NoTask]
    /\ gone' = IF WorkedOn(i) THEN gone ELSE gone \cup {i}
    /\ allowed' = [allowed EXCEPT ![i] = 0]
    /\ UNCHANGED <<execs, engine, permit, req, clock, execNo, created, leaked, unseen>>

(* delete_task(): two statements without a transaction; the second may fail *)
(* alone.  The engine is not woken.                                         *)
Delete(i) ==
    /\ Event
    /\ tasks[i] # NoTask
    /\ tasks' = [tasks EXCEPT ![i] = NoTask]
    /\ \/ /\ execs' = {e \in execs : e.task # i}
          /\ gone' = IF WorkedOn(i) THEN gone ELSE gone \cup {i}
       \/ /\ "store" \in Faults
          /\ UNCHANGED <<execs, gone>>
    /\ allowed' = [allowed EXCEPT ![i] = 0]
    /\ UNCHANGED <<engine, permit, req, clock, execNo, created, leaked, unseen>>

(* The trigger records its execution, and then spawns the rest.             *)
TriggerStart(r) ==
    /\ req[r].pc = "trigger"
    /\ \/ Record(req[r].of.id) /\ UNCHANGED events
          /\ req' = [req EXCEPT ![r].pc = "spawn", ![r].exec = execNo + 1]
       \/ StoreFails /\ UNCHANGED <<execs, execNo>>
          /\ req' = [req EXCEPT ![r].pc = "spawn"]
    /\ UNCHANGED <<tasks, engine, permit, clock, created, history>>

Spawn(r) ==
    /\ req[r].pc = "spawn"
    /\ req' = [req EXCEPT ![r].pc = "execute"]
    /\ UNCHANGED <<store, engine, permit, clock, execNo, events, created, history>>

TriggerEnd(r, status) ==
    /\ req[r].pc = "execute"
    /\ \/ execs' = Finished(req[r].exec, status) /\ UNCHANGED <<events, leaked>>
       \/ StoreFails /\ leaked' = leaked \cup ({req[r].exec} \ {0}) /\ UNCHANGED execs
    /\ req' = [req EXCEPT ![r].pc = "update"]
    /\ UNCHANGED <<tasks, engine, permit, clock, execNo, created, allowed, unseen, gone>>

TriggerPanics(r) ==
    /\ req[r].pc = "execute" /\ "panic" \in Faults /\ Event
    /\ leaked' = leaked \cup ({req[r].exec} \ {0})
    /\ req' = [req EXCEPT ![r] = Free]
    /\ UNCHANGED <<store, engine, permit, clock, execNo, created, allowed, unseen, gone>>

(* The trigger counts the interval from the end of its execution.           *)
TriggerWrite(r) ==
    LET c == req[r].of IN
    /\ req[r].pc = "update"
    /\ \/ UpdateLastRun(c.id, clock, c.task.every) /\ UNCHANGED events
          /\ allowed' = [allowed EXCEPT ![c.id] = 0]
       \/ StoreFails /\ UNCHANGED <<tasks, allowed>>
    /\ req' = [req EXCEPT ![r] = Free]
    /\ UNCHANGED <<execs, engine, permit, clock, execNo, created, leaked, unseen, gone>>

TriggerStep(r) ==
    \/ TriggerStart(r) \/ Spawn(r)
    \/ \E status \in {"success", "failed"} : TriggerEnd(r, status)
    \/ TriggerPanics(r) \/ TriggerWrite(r)

(* The client is gone and its handler is dropped where it waits: what it    *)
(* recorded, saved or read stays, what it would have spawned, or whom it    *)
(* would have woken, is forgotten.                                          *)
Cancel(r) ==
    /\ "cancel" \in Faults /\ Event
    /\ req[r].pc \in {"edit", "wake", "trigger", "spawn"}
    /\ leaked' = leaked \cup ({req[r].exec} \ {0})
    /\ req' = [req EXCEPT ![r] = Free]
    /\ UNCHANGED <<store, engine, permit, clock, execNo, created, allowed, unseen, gone>>

(* The process dies and starts again: rows stay, everything else is gone.   *)
Crash ==
    /\ "crash" \in Faults /\ Event
    /\ engine' = Asleep
    /\ permit' = FALSE
    /\ req' = [r \in Requests |-> Free]
    /\ leaked' = leaked \cup {e.no : e \in {x \in execs : x.status = "running"}}
    /\ allowed' = [i \in Ids |-> 0] /\ unseen' = {}
    /\ UNCHANGED <<store, clock, execNo, created, gone>>

Tick ==
    /\ clock < MaxTime
    /\ clock' = clock + 1
    /\ UNCHANGED <<store, engine, permit, req, execNo, events, created, history>>

Next ==
    \/ EngineStep \/ ListFails \/ RunPanics
    \/ \E r \in Requests, i \in Ids, every \in Every \cup {Manual}, enabled \in BOOLEAN :
          Create(r, i, every, enabled)
    \/ \E r \in Requests : Wake(r)
    \/ \E r \in Requests, i \in Ids, pc \in {"edit", "trigger"} : Begin(r, i, pc)
    \/ \E r \in Requests : Edit(r) \/ EditFails(r)
    \/ \E i \in Ids : Delete(i)
    \/ \E r \in Requests : TriggerStep(r) \/ Cancel(r)
    \/ Crash
    \/ Tick

Spec == Init /\ [][Next]_vars

(* The runtime keeps polling the engine, and executors return or panic.     *)
FairSpec == Spec /\ WF_vars(EngineStep)

-----------------------------------------------------------------------------
(* Properties *)

(* "Run every N seconds" (task.rs:42) holds of the times the engine takes   *)
(* for the runs of a task, which it writes as its last runs: they are an    *)
(* interval apart, whatever else is created, edited, triggered or deleted,  *)
(* unless the task itself was edited, triggered or rewritten between them,  *)
(* its last run could not be written, or the engine died.  A run starts     *)
(* later than its time by what its pass ran before, so that the starts may  *)
(* be closer than the interval.                                            *)
RunTimesAreSpaced ==
    [][engine.pc = "check" /\ engine'.pc = "execute" => engine.now >= allowed[Reading.id]]_vars

(* An execution whose row says "running" is being executed, by the engine   *)
(* or by a trigger, or is about to be spawned, unless its end could not be  *)
(* written, its executor panicked, its trigger was dropped between the      *)
(* record and the spawn, or the process died.                              *)
RunningIsOwned ==
    \A e \in execs : e.status = "running" /\ e.no \notin leaked =>
        \/ engine.pc = "execute" /\ engine.exec = e.no
        \/ \E r \in Requests : req[r].pc \in {"spawn", "execute"} /\ req[r].exec = e.no

(* A task deleted while nobody worked on it leaves nothing behind ("Also    *)
(* clean up execution history", store.rs:157), and nothing brings it back.  *)
QuietDeletionsHold ==
    \A i \in gone : tasks[i] = NoTask /\ \A e \in execs : e.task # i

(* "picks up changes without waiting for the next poll cycle" (engine.rs:54) *)
(* holds of creations and edits whose request was answered: until the       *)
(* engine has read the change, or could not read the list, a permit is left *)
(* for it or it is up and about to list.  A deletion wakes nobody, nor does *)
(* a request dropped after it saved.                                       *)
ChangesAreSignalled == unseen # {} => permit \/ engine.pc = "list"

(* A due task is run, or is edited, triggered or deleted: no other task     *)
(* keeps the engine for ever and nothing keeps rescheduling it unrun; but   *)
(* an executor that panics ends the engine.                                *)
DueIsRun ==
    \A i \in Ids : (tasks[i] # NoTask /\ IsDue(tasks[i], clock))
                   ~> (tasks[i] = NoTask \/ ~IsDue(tasks[i], clock) \/ engine.pc = "dead")

=============================================================================
