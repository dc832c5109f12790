------------------------ MODULE TaskSchedulerProofs ------------------------
(***************************************************************************)
(* Proofs about TaskScheduler, for any finite set of tasks, any requests,  *)
(* intervals and faults, and any bounds.                                   *)
(***************************************************************************)
EXTENDS TaskScheduler, FiniteSetTheorems, TLAPS

(* Ids that were ever given to a task.                                     *)
Created == 1..created

(* Executions are numbered from 1 on.                                      *)
ExecsNumbered == \A e \in execs : e.no \in 1..execNo

TypeInv == TypeOK /\ ExecsNumbered

(* Rows and copies of rows only exist of ids that were given to a task.    *)
CreatedInv == \A i \in Ids : tasks[i] # NoTask \/ WorkedOn(i) => i \in Created

(* What is gone had been created and is worked on by nobody.               *)
GoneInv ==
    \A i \in gone : /\ i \in Created /\ ~WorkedOn(i)
                    /\ tasks[i] = NoTask /\ \A e \in execs : e.task # i

(* The engine holds one copy of a task at most.                            *)
ListOnce ==
    \A k, l \in DOMAIN engine.list : engine.list[k].id = engine.list[l].id => k = l

Busy == engine.pc \in {"execute", "update"}

(* When a run may follow is nothing yet, or what a row or a copy that can  *)
(* still lead to a run says; while the engine executes the task, it is     *)
(* what the engine is about to write.                                      *)
SpacingInv ==
    /\ \A i \in Ids \ Created : allowed[i] = 0
    /\ Busy => /\ Reading.task.every \in Every
               /\ allowed[Reading.id] \in {0, engine.now + Reading.task.every}
    /\ \A i \in Ids : tasks[i] # NoTask /\ allowed[i] # 0 =>
          tasks[i].next = allowed[i] \/ (Busy /\ Reading.id = i)
    /\ \A k \in DOMAIN engine.list : allowed[engine.list[k].id] # 0 =>
          engine.list[k].task.next = allowed[engine.list[k].id] \/ (Busy /\ k = 1)

AllInv == TypeInv /\ CreatedInv /\ GoneInv /\ ListOnce /\ SpacingInv

-----------------------------------------------------------------------------
(* The operators *)

LEMMA TaskIs ==
    ASSUME NEW t \in Task
    PROVE  /\ t.every \in Every \cup {Manual} /\ t.enabled \in BOOLEAN
           /\ t.last \in Times /\ t.next \in Times
BY DEF Task

(* The next run is the interval after the last, or never.                  *)
LEMMA NextAfterIs ==
    ASSUME NEW every \in Every \cup {Manual}, NEW at \in Nat
    PROVE  /\ NextAfter(every, at) \in Times
           /\ every \in Every => NextAfter(every, at) = at + every /\ at + every \in Nat \ {0}
BY TaskSchedulerAssumption DEF NextAfter, Times

(* Writing a run keeps which rows exist, and touches one row.              *)
LEMMA UpdateLastRunIs ==
    ASSUME tasks \in [Ids -> Task \cup {NoTask}], NEW i \in Ids,
           NEW at \in Nat, NEW every \in Every \cup {Manual}, UpdateLastRun(i, at, every)
    PROVE  /\ tasks' \in [Ids -> Task \cup {NoTask}]
           /\ \A j \in Ids : tasks'[j] # NoTask => tasks[j] # NoTask
           /\ \A j \in Ids \ {i} : tasks'[j] = tasks[j]
           /\ tasks[i] # NoTask => tasks'[i].next = NextAfter(every, at)
           /\ tasks[i] = NoTask => tasks'[i] = NoTask
<1>1. CASE tasks[i] = NoTask
  BY <1>1 DEF UpdateLastRun
<1>2. CASE tasks[i] # NoTask
  <2>1. tasks' = [tasks EXCEPT ![i] = [@ EXCEPT !.last = at, !.next = NextAfter(every, at)]]
    BY <1>2 DEF UpdateLastRun
  <2>2. tasks[i] \in Task /\ at \in Times /\ NextAfter(every, at) \in Times
    BY <1>2, NextAfterIs DEF Times
  <2>3. [tasks[i] EXCEPT !.last = at, !.next = NextAfter(every, at)] \in Task
    BY <2>2 DEF Task
  <2>4. [tasks[i] EXCEPT !.last = at, !.next = NextAfter(every, at)].next = NextAfter(every, at)
    BY <2>2 DEF Task
  <2> QED
    BY <1>2, <2>1, <2>3, <2>4
<1> QED
  BY <1>1, <1>2

(* A finished execution changes its status and nothing else.               *)
LEMMA FinishedIs ==
    ASSUME execs \subseteq Execution, NEW n, NEW status \in {"success", "failed"}
    PROVE  /\ Finished(n, status) \subseteq Execution
           /\ \A f \in Finished(n, status) : \E e \in execs :
                 /\ f.no = e.no /\ f.task = e.task
                 /\ f.status = IF e.no = n THEN status ELSE e.status
<1> SUFFICES ASSUME NEW f \in Finished(n, status)
             PROVE  f \in Execution /\ \E e \in execs :
                       /\ f.no = e.no /\ f.task = e.task
                       /\ f.status = IF e.no = n THEN status ELSE e.status
  OBVIOUS
<1>1. PICK e \in execs : f = IF e.no = n THEN [e EXCEPT !.status = status] ELSE e
  BY DEF Finished
<1>2. e \in Execution
  OBVIOUS
<1> QED
  BY <1>1, <1>2 DEF Execution

(* What list_tasks() returns: copies of rows, each task once.              *)
LEMMA ListTasksIs ==
    ASSUME tasks \in [Ids -> Task \cup {NoTask}], NEW list \in ListTasks
    PROVE  /\ list \in Seq(Copy)
           /\ \A k \in DOMAIN list :
                 list[k].id \in Ids /\ tasks[list[k].id] # NoTask
                 /\ list[k].task = tasks[list[k].id]
           /\ \A k, l \in DOMAIN list : list[k].id = list[l].id => k = l
<1> DEFINE rows == {i \in Ids : tasks[i] # NoTask}
<1>1. Cardinality(rows) \in Nat
  <2>1. IsFiniteSet(rows)
    BY TaskSchedulerAssumption, FS_Subset
  <2> QED
    BY <2>1, FS_CardinalityType
<1> DEFINE n == Cardinality(rows)
<1>2. PICK ids \in [1..n -> rows] :
        /\ \A k, l \in DOMAIN ids : k < l => ids[k] < ids[l]
        /\ list = [k \in DOMAIN ids |-> GetTask(ids[k])]
  BY DEF ListTasks
<1>3. n \in Nat
  BY <1>1
<1> HIDE DEF n
<1>4. \A k \in 1..n : ids[k] \in Ids /\ tasks[ids[k]] # NoTask
  BY <1>2
<1>5. \A k \in 1..n : /\ list[k] \in Copy /\ list[k].id = ids[k]
                      /\ list[k].task = tasks[ids[k]]
  BY <1>2, <1>4 DEF GetTask, Copy
<1>6. list \in [1..n -> Copy]
  BY <1>2, <1>5
<1>7. list \in Seq(Copy) /\ DOMAIN list = 1..n
  BY <1>3, <1>6
<1>8. \A k, l \in 1..n : ids[k] = ids[l] => k = l
  <2> SUFFICES ASSUME NEW k \in 1..n, NEW l \in 1..n, k < l, ids[k] = ids[l] PROVE FALSE
    BY <1>3
  <2>1. ids[k] < ids[l] /\ ids[k] \in Nat
    BY <1>2, <1>4, TaskSchedulerAssumption
  <2> QED
    BY <2>1
<1> QED
  BY <1>4, <1>5, <1>7, <1>8

-----------------------------------------------------------------------------
(* Types *)

EngineType == [pc : EnginePhases, list : Seq(Copy), now : 0..MaxTime, exec : 0..execNo]

RequestType == {Free} \cup [pc : RequestPhases, of : Copy, exec : 0..execNo]

LEMMA CopyIs ==
    ASSUME NEW c \in Copy
    PROVE  c.id \in Ids /\ c.task \in Task
BY DEF Copy

(* A phase other than "free" means that the request holds a copy.          *)
LEMMA RequestIs ==
    ASSUME TypeOK, NEW r \in Requests
    PROVE  /\ req[r] \in RequestType
           /\ req[r].pc # "free" => /\ req[r] # Free
                                   /\ req[r] \in [pc : RequestPhases, of : Copy, exec : 0..execNo]
           /\ req[r] # Free => req[r].pc # "free"
           /\ req[r] = Free => req[r].of.id = Never
BY DEF TypeOK, RequestType, Free, NoCopy, RequestPhases

(* The copy the engine works on.                                           *)
LEMMA ReadingIs ==
    ASSUME TypeOK, engine.list # <<>>
    PROVE  /\ Reading \in Copy /\ Reading = engine.list[1] /\ 1 \in DOMAIN engine.list
           /\ Tail(engine.list) \in Seq(Copy)
           /\ \A k \in DOMAIN Tail(engine.list) :
                 k + 1 \in DOMAIN engine.list /\ Tail(engine.list)[k] = engine.list[k + 1]
                 /\ k \in Nat \ {0}
<1>1. engine.list \in Seq(Copy)
  BY DEF TypeOK
<1> QED
  BY <1>1 DEF Reading

(* The engine and the requests keep their types when executions are        *)
(* counted on.                                                             *)
LEMMA CountedOn ==
    ASSUME TypeOK, execNo' = execNo + 1
    PROVE  /\ 0..execNo \subseteq 0..execNo' /\ execNo + 1 \in 0..execNo'
           /\ engine \in [pc : EnginePhases, list : Seq(Copy), now : 0..MaxTime, exec : 0..execNo']
           /\ req \in [Requests -> {Free} \cup [pc : RequestPhases, of : Copy, exec : 0..execNo']]
           /\ leaked \subseteq 1..execNo'
<1>1. execNo \in Nat
  BY DEF TypeOK
<1>2. 0..execNo \subseteq 0..execNo' /\ 1..execNo \subseteq 1..execNo' /\ execNo + 1 \in 0..execNo'
  BY <1>1
<1>3. engine \in [pc : EnginePhases, list : Seq(Copy), now : 0..MaxTime, exec : 0..execNo']
  BY <1>2 DEF TypeOK
<1>4. ASSUME NEW r \in Requests
      PROVE  req[r] \in {Free} \cup [pc : RequestPhases, of : Copy, exec : 0..execNo']
  BY <1>2 DEF TypeOK
<1> QED
  BY <1>2, <1>3, <1>4 DEF TypeOK

(* No execution is 0, and what the engine has is a record.                 *)
LEMMA EngineIs ==
    ASSUME TypeOK
    PROVE  /\ engine \in EngineType /\ 0 \in 0..execNo
           /\ engine.exec \in 0..execNo /\ {engine.exec} \ {0} \subseteq 1..execNo
<1>1. execNo \in Nat /\ engine \in EngineType
  BY DEF TypeOK, EngineType
<1>2. engine.exec \in 0..execNo
  BY <1>1 DEF EngineType
<1> QED
  BY <1>1, <1>2

LEMMA EventType == ASSUME TypeOK, Event PROVE events' \in 0..MaxEvents
BY TaskSchedulerAssumption DEF TypeOK, Event

LEMMA RecordType ==
    ASSUME TypeInv, NEW i \in Ids, Record(i)
    PROVE  execs' \subseteq Execution /\ ExecsNumbered' /\ execNo' \in Nat
BY DEF TypeInv, TypeOK, ExecsNumbered, Record, Execution

LEMMA FinishedType ==
    ASSUME TypeInv, NEW n, NEW status \in {"success", "failed"}
    PROVE  /\ Finished(n, status) \subseteq Execution
           /\ \A e \in Finished(n, status) : e.no \in 1..execNo
<1>1. execs \subseteq Execution /\ \A e \in execs : e.no \in 1..execNo
  BY DEF TypeInv, TypeOK, ExecsNumbered
<1> QED
  BY <1>1, FinishedIs

LEMMA WakeUpType == ASSUME TypeInv, WakeUp PROVE TypeInv'
<1>1. engine' \in EngineType /\ engine'.pc = "list"
  BY EngineIs DEF WakeUp, EngineType, EnginePhases, TypeInv
<1>2. permit' \in BOOLEAN
  BY Zenon DEF WakeUp, TypeInv, TypeOK
<1> QED
  BY <1>1, <1>2 DEF WakeUp, store, history, TypeInv, TypeOK, ExecsNumbered, EngineType

LEMMA ListType == ASSUME TypeInv, List PROVE TypeInv'
<1>1. PICK list \in ListTasks : engine' = [engine EXCEPT !.pc = "listed", !.list = list]
  BY DEF List
<1>2. list \in Seq(Copy)
  BY ListTasksIs DEF TypeInv, TypeOK
<1>3. engine' \in EngineType /\ engine'.pc = "listed"
  BY <1>1, <1>2, EngineIs DEF EngineType, EnginePhases, TypeInv
<1> QED
  BY <1>3 DEF List, store, TypeInv, TypeOK, ExecsNumbered, EngineType

LEMMA TakeTimeType == ASSUME TypeInv, TakeTime PROVE TypeInv'
<1>1. clock \in 0..MaxTime
  BY DEF TypeInv, TypeOK
<1>2. engine' \in EngineType /\ engine'.pc = "check"
  BY <1>1, EngineIs DEF TakeTime, EngineType, EnginePhases, TypeInv
<1> QED
  BY <1>2 DEF TakeTime, store, history, TypeInv, TypeOK, ExecsNumbered, EngineType

(* The engine asleep, or dead, has nothing.                                *)
LEMMA AsleepIs ==
    ASSUME TypeOK, NEW pc \in {"sleep", "dead"}
    PROVE  /\ [Asleep EXCEPT !.pc = pc] \in EngineType /\ [Asleep EXCEPT !.pc = pc].pc = pc
           /\ [Asleep EXCEPT !.pc = pc].list = <<>> /\ Asleep = [Asleep EXCEPT !.pc = "sleep"]
<1>1. 0 \in 0..execNo /\ 0 \in 0..MaxTime /\ <<>> \in Seq(Copy)
  BY EngineIs, TaskSchedulerAssumption
<1>2. [Asleep EXCEPT !.pc = pc] = [pc |-> pc, list |-> <<>>, now |-> 0, exec |-> 0]
  BY DEF Asleep
<1>3. Asleep = [Asleep EXCEPT !.pc = "sleep"]
  BY DEF Asleep
<1>4. [pc |-> pc, list |-> <<>>, now |-> 0, exec |-> 0] \in EngineType
  BY <1>1 DEF EngineType, EnginePhases
<1> QED
  BY <1>2, <1>3, <1>4

LEMMA ListFailsType == ASSUME TypeInv, ListFails PROVE TypeInv'
<1>1. engine' \in EngineType /\ engine'.pc = "sleep"
  BY AsleepIs DEF ListFails, TypeInv
<1> QED
  BY <1>1, EventType DEF ListFails, StoreFails, store, TypeInv, TypeOK, ExecsNumbered, EngineType

LEMMA RunPanicsType == ASSUME TypeInv, RunPanics PROVE TypeInv'
<1>1. engine' \in EngineType /\ engine'.pc = "dead"
  BY AsleepIs DEF RunPanics, TypeInv
<1>2. leaked' \subseteq 1..execNo
  BY EngineIs DEF RunPanics, TypeInv, TypeOK
<1>3. allowed' \in [Ids -> Nat]
  BY DEF RunPanics, TypeInv, TypeOK
<1> QED
  BY <1>1, <1>2, <1>3, EventType
  DEF RunPanics, store, TypeInv, TypeOK, ExecsNumbered, EngineType

LEMMA StartRunType == ASSUME TypeInv, StartRun PROVE TypeInv'
<1>1. /\ Reading \in Copy /\ Reading.task \in Task /\ Reading.id \in Ids
      /\ Reading.task.every \in Every /\ engine.now \in Nat
  BY ReadingIs, CopyIs, TaskIs DEF StartRun, IsDue, TypeInv, TypeOK
<1>2. engine.now + Reading.task.every \in Nat
  <2>1. Every \subseteq Nat
    BY TaskSchedulerAssumption
  <2>2. Reading.task.every \in Nat
    BY <1>1, <2>1
  <2> QED
    BY <1>1, <2>2
<1>3. allowed' \in [Ids -> Nat]
  BY <1>1, <1>2 DEF StartRun, TypeInv, TypeOK
<1>4. CASE /\ Record(Reading.id) /\ UNCHANGED events
           /\ engine' = [engine EXCEPT !.pc = "execute", !.exec = execNo + 1]
  <2>1. execNo' = execNo + 1
    BY <1>4 DEF Record
  <2>2. engine' \in [pc : EnginePhases, list : Seq(Copy), now : 0..MaxTime, exec : 0..execNo']
        /\ engine'.list = engine.list
    BY <1>4, <2>1, CountedOn DEF EnginePhases, TypeInv
  <2>3. execs' \subseteq Execution /\ ExecsNumbered' /\ execNo' \in Nat
    BY <1>1, <1>4, RecordType
  <2> QED
    BY <1>3, <1>4, <2>1, <2>2, <2>3, CountedOn DEF StartRun, TypeInv, TypeOK
<1>5. CASE /\ StoreFails /\ UNCHANGED <<execs, execNo>>
           /\ engine' = [engine EXCEPT !.pc = "execute", !.exec = 0]
  <2>1. engine' \in EngineType /\ engine'.list = engine.list
    BY <1>5, EngineIs DEF EngineType, EnginePhases, TypeInv
  <2> QED
    BY <1>3, <1>5, <2>1, EventType DEF StoreFails, StartRun, TypeInv, TypeOK, ExecsNumbered, EngineType
<1> QED
  BY <1>4, <1>5 DEF StartRun

LEMMA EndRunType ==
    ASSUME TypeInv, NEW status \in {"success", "failed"}, EndRun(status) PROVE TypeInv'
<1>1. engine' \in EngineType /\ engine'.list = engine.list /\ engine.list # <<>>
  BY DEF EndRun, EngineType, EnginePhases, TypeInv, TypeOK
<1>2. CASE execs' = Finished(engine.exec, status) /\ UNCHANGED <<events, leaked>>
  BY <1>1, <1>2, FinishedType DEF EndRun, TypeInv, TypeOK, ExecsNumbered, EngineType
<1>3. CASE StoreFails /\ leaked' = leaked \cup ({engine.exec} \ {0}) /\ UNCHANGED execs
  <2>1. leaked' \subseteq 1..execNo
    BY <1>3, EngineIs DEF TypeInv, TypeOK
  <2> QED
    BY <1>1, <1>3, <2>1, EventType DEF StoreFails, EndRun, TypeInv, TypeOK, ExecsNumbered, EngineType
<1> QED
  BY <1>2, <1>3 DEF EndRun

LEMMA WriteRunType == ASSUME TypeInv, WriteRun PROVE TypeInv'
<1>1. engine.list # <<>>
  BY DEF WriteRun, TypeInv, TypeOK
<1>2. /\ Reading.id \in Ids /\ Reading.task.every \in Every \cup {Manual}
      /\ engine.now \in Nat /\ Tail(engine.list) \in Seq(Copy)
  BY <1>1, ReadingIs, CopyIs, TaskIs DEF TypeInv, TypeOK
<1>3. engine' \in EngineType /\ engine'.pc = "check"
  BY <1>2, EngineIs DEF WriteRun, EngineType, EnginePhases, TypeInv
<1>4. CASE UpdateLastRun(Reading.id, engine.now, Reading.task.every) /\ UNCHANGED <<events, allowed>>
  <2>1. tasks' \in [Ids -> Task \cup {NoTask}]
    BY <1>2, <1>4, UpdateLastRunIs DEF TypeInv, TypeOK
  <2> QED
    BY <1>3, <1>4, <2>1 DEF WriteRun, TypeInv, TypeOK, ExecsNumbered, EngineType
<1>5. CASE StoreFails /\ allowed' = [allowed EXCEPT ![Reading.id] = 0] /\ UNCHANGED tasks
  BY <1>2, <1>3, <1>5, EventType DEF StoreFails, WriteRun, TypeInv, TypeOK, ExecsNumbered, EngineType
<1> QED
  BY <1>4, <1>5 DEF WriteRun

(* Putting a request in another state keeps the requests' type.            *)
LEMMA RequestType1 ==
    ASSUME TypeOK, NEW r \in Requests, NEW x \in RequestType, req' = [req EXCEPT ![r] = x]
    PROVE  req' \in [Requests -> RequestType]
BY DEF TypeOK, RequestType

LEMMA MovedOn ==
    ASSUME TypeOK, NEW r \in Requests, req[r] # Free, NEW pc \in RequestPhases,
           req' = [req EXCEPT ![r].pc = pc]
    PROVE  /\ req' \in [Requests -> RequestType]
           /\ req'[r].pc = pc /\ req'[r].of = req[r].of /\ req'[r].exec = req[r].exec
<1>1. req[r] \in [pc : RequestPhases, of : Copy, exec : 0..execNo]
  BY RequestIs DEF RequestType
<1>2. [req[r] EXCEPT !.pc = pc] \in RequestType
  BY <1>1 DEF RequestType
<1>3. /\ [req[r] EXCEPT !.pc = pc].pc = pc /\ [req[r] EXCEPT !.pc = pc].of = req[r].of
      /\ [req[r] EXCEPT !.pc = pc].exec = req[r].exec
  BY <1>1
<1>4. req' = [req EXCEPT ![r] = [req[r] EXCEPT !.pc = pc]] /\ req'[r] = [req[r] EXCEPT !.pc = pc]
  BY DEF TypeOK
<1> QED
  BY <1>2, <1>3, <1>4, RequestType1

LEMMA ClockIs == TypeOK => clock \in Nat
<1>1. MaxTime \in Nat
  BY TaskSchedulerAssumption
<1> QED
  BY <1>1 DEF TypeOK

LEMMA NewRow ==
    ASSUME TypeOK, NEW i \in Ids, NEW every \in Every \cup {Manual}, NEW enabled \in BOOLEAN
    PROVE  [every |-> every, enabled |-> enabled, last |-> Never,
            next |-> NextAfter(every, clock)] \in Task
BY ClockIs, NextAfterIs DEF Task, Times

LEMMA CreateType ==
    ASSUME TypeInv, NEW r \in Requests, NEW i \in Ids, NEW every \in Every \cup {Manual},
           NEW enabled \in BOOLEAN, Create(r, i, every, enabled)
    PROVE  TypeInv'
<1> DEFINE new == [every |-> every, enabled |-> enabled, last |-> Never,
                   next |-> NextAfter(every, clock)]
<1>1. new \in Task
  BY NewRow DEF TypeInv
<1>2. /\ tasks' = [tasks EXCEPT ![i] = new]
      /\ req' = [req EXCEPT ![r] = [pc |-> "wake", of |-> [id |-> i, task |-> new], exec |-> 0]]
  BY DEF Create
<1> HIDE DEF new
<1>3. [pc |-> "wake", of |-> [id |-> i, task |-> new], exec |-> 0] \in RequestType
  BY <1>1, EngineIs DEF RequestType, RequestPhases, Copy, TypeInv
<1>4. req' \in [Requests -> RequestType]
  BY <1>2, <1>3, RequestType1 DEF TypeInv
<1>5. tasks' \in [Ids -> Task \cup {NoTask}]
  BY <1>1, <1>2 DEF TypeInv, TypeOK
<1> QED
  <2>1. created' \in Nat
    BY TaskSchedulerAssumption DEF Create
  <2> QED
    BY <1>4, <1>5, <2>1, EventType
    DEF Create, history, TypeInv, TypeOK, ExecsNumbered, RequestType

LEMMA WakeType == ASSUME TypeInv, NEW r \in Requests, Wake(r) PROVE TypeInv'
<1>1. req' \in [Requests -> RequestType]
  BY RequestType1 DEF Wake, TypeInv, RequestType
<1>2. req[r].of.id \in Ids
  BY RequestIs, CopyIs DEF Wake, TypeInv
<1>3. unseen' \subseteq Ids
  BY <1>2 DEF Wake, TypeInv, TypeOK
<1> QED
  BY <1>1, <1>3 DEF Wake, store, history, TypeInv, TypeOK, ExecsNumbered, RequestType

LEMMA BeginType ==
    ASSUME TypeInv, NEW r \in Requests, NEW i \in Ids, NEW pc \in {"edit", "trigger"}, Begin(r, i, pc)
    PROVE  TypeInv'
<1>1. GetTask(i) \in Copy
  BY DEF Begin, GetTask, Copy, TypeInv, TypeOK
<1>2. [pc |-> pc, of |-> GetTask(i), exec |-> 0] \in RequestType
  BY <1>1, EngineIs DEF RequestType, RequestPhases, TypeInv
<1>3. req' \in [Requests -> RequestType]
  BY <1>2, RequestType1 DEF Begin, TypeInv
<1> QED
  BY <1>3, EventType DEF Begin, store, history, TypeInv, TypeOK, ExecsNumbered, RequestType

LEMMA EditsIs ==
    ASSUME TypeOK, NEW task \in Task, NEW new \in Edits(task)
    PROVE  new \in Task
<1>1. Rescheduled(task) \subseteq Task
  <2> SUFFICES ASSUME NEW t \in Rescheduled(task) PROVE t \in Task
    OBVIOUS
  <2>1. PICK every \in Every \cup {Manual} :
          t = [task EXCEPT !.every = every, !.next = NextAfter(every, clock)]
    BY DEF Rescheduled
  <2>2. NextAfter(every, clock) \in Times
    BY ClockIs, NextAfterIs
  <2> QED
    BY <2>1, <2>2 DEF Task
<1>2. PICK enabled \in BOOLEAN, t \in {task} \cup Rescheduled(task) :
        new = [t EXCEPT !.enabled = enabled]
  BY DEF Edits
<1>3. t \in Task
  BY <1>1
<1> QED
  BY <1>2, <1>3 DEF Task

LEMMA EditType == ASSUME TypeInv, NEW r \in Requests, Edit(r) PROVE TypeInv'
<1>1. req[r].pc = "edit" /\ req' = [req EXCEPT ![r].pc = "wake"]
  BY DEF Edit
<1>2. req[r] # Free /\ req[r].of \in Copy
  BY <1>1, RequestIs DEF TypeInv
<1>3. req' \in [Requests -> RequestType]
  BY <1>1, <1>2, MovedOn DEF RequestPhases, TypeInv
<1>4. PICK new \in Edits(req[r].of.task) : tasks' = [tasks EXCEPT ![req[r].of.id] = new]
  BY DEF Edit
<1>5. req[r].of.id \in Ids /\ new \in Task
  BY <1>2, CopyIs, EditsIs DEF TypeInv
<1>6. tasks' \in [Ids -> Task \cup {NoTask}]
  BY <1>4, <1>5 DEF TypeInv, TypeOK
<1> QED
  BY <1>3, <1>5, <1>6 DEF Edit, TypeInv, TypeOK, ExecsNumbered, RequestType

LEMMA EditFailsType == ASSUME TypeInv, NEW r \in Requests, EditFails(r) PROVE TypeInv'
<1>1. req' \in [Requests -> RequestType]
  BY RequestType1 DEF EditFails, TypeInv, RequestType
<1> QED
  BY <1>1, EventType DEF EditFails, StoreFails, store, history, TypeInv, TypeOK, ExecsNumbered, RequestType

LEMMA DeleteType == ASSUME TypeInv, NEW i \in Ids, Delete(i) PROVE TypeInv'
BY EventType DEF Delete, TypeInv, TypeOK, ExecsNumbered

LEMMA TriggerStartType == ASSUME TypeInv, NEW r \in Requests, TriggerStart(r) PROVE TypeInv'
<1>1. req[r].pc = "trigger"
  BY DEF TriggerStart
<1>2. /\ req[r] # Free /\ req[r].of \in Copy
      /\ req[r] \in [pc : RequestPhases, of : Copy, exec : 0..execNo]
  BY <1>1, RequestIs DEF TypeInv
<1>3. CASE /\ Record(req[r].of.id) /\ UNCHANGED events
           /\ req' = [req EXCEPT ![r].pc = "spawn", ![r].exec = execNo + 1]
  <2>1. execNo' = execNo + 1
    BY <1>3 DEF Record
  <2>2. /\ execNo + 1 \in 0..execNo'
        /\ req \in [Requests -> {Free} \cup [pc : RequestPhases, of : Copy, exec : 0..execNo']]
    BY <2>1, CountedOn DEF TypeInv
  <2>3. req'= [req EXCEPT ![r] = [req[r] EXCEPT !.pc = "spawn", !.exec = execNo + 1]]
    BY <1>3, <2>2
  <2>4. [req[r] EXCEPT !.pc = "spawn", !.exec = execNo + 1]
            \in [pc : RequestPhases, of : Copy, exec : 0..execNo']
    BY <1>2, <2>2 DEF RequestPhases
  <2>5. req' \in [Requests -> {Free} \cup [pc : RequestPhases, of : Copy, exec : 0..execNo']]
    BY <2>2, <2>3, <2>4
  <2>6. execs' \subseteq Execution /\ ExecsNumbered' /\ execNo' \in Nat
    BY <1>2, <1>3, RecordType, CopyIs
  <2> QED
    BY <1>3, <2>1, <2>5, <2>6, CountedOn DEF TriggerStart, history, TypeInv, TypeOK
<1>4. CASE /\ StoreFails /\ UNCHANGED <<execs, execNo>>
           /\ req' = [req EXCEPT ![r].pc = "spawn"]
  <2>1. req' \in [Requests -> RequestType]
    BY <1>2, <1>4, MovedOn DEF RequestPhases, TypeInv
  <2> QED
    BY <1>4, <2>1, EventType DEF StoreFails, TriggerStart, history, TypeInv, TypeOK, ExecsNumbered, RequestType
<1> QED
  BY <1>3, <1>4 DEF TriggerStart

LEMMA SpawnType == ASSUME TypeInv, NEW r \in Requests, Spawn(r) PROVE TypeInv'
<1>1. req[r].pc = "spawn" /\ req' = [req EXCEPT ![r].pc = "execute"]
  BY DEF Spawn
<1>2. req[r] # Free
  BY <1>1, RequestIs DEF TypeInv
<1>3. req' \in [Requests -> RequestType]
  BY <1>1, <1>2, MovedOn DEF RequestPhases, TypeInv
<1> QED
  BY <1>3 DEF Spawn, store, history, TypeInv, TypeOK, ExecsNumbered, RequestType

(* A trigger ends by itself, or with its client.                           *)
LEMMA ForgottenType ==
    ASSUME TypeInv, NEW r \in Requests, TriggerPanics(r) \/ Cancel(r) PROVE TypeInv'
<1>1. req[r] # Free /\ req' = [req EXCEPT ![r] = Free]
  BY RequestIs DEF TriggerPanics, Cancel, Free, TypeInv
<1>2. req[r].exec \in 0..execNo /\ execNo \in Nat
  BY <1>1, RequestIs DEF TypeInv, TypeOK
<1>3. req' \in [Requests -> RequestType]
  BY <1>1, RequestType1 DEF TypeInv, RequestType
<1>4. {req[r].exec} \ {0} \subseteq 1..execNo
  BY <1>2
<1>5. leaked' \subseteq 1..execNo
  BY <1>4 DEF TriggerPanics, Cancel, TypeInv, TypeOK
<1> QED
  BY <1>3, <1>5, EventType
  DEF TriggerPanics, Cancel, store, TypeInv, TypeOK, ExecsNumbered, RequestType

LEMMA TriggerEndType ==
    ASSUME TypeInv, NEW r \in Requests, NEW status \in {"success", "failed"}, TriggerEnd(r, status)
    PROVE  TypeInv'
<1>1. req[r].pc = "execute" /\ req' = [req EXCEPT ![r].pc = "update"]
  BY DEF TriggerEnd
<1>2. req[r] # Free /\ req[r].exec \in 0..execNo
  BY <1>1, RequestIs DEF TypeInv
<1>3. req' \in [Requests -> RequestType]
  BY <1>1, <1>2, MovedOn DEF RequestPhases, TypeInv
<1>4. CASE execs' = Finished(req[r].exec, status) /\ UNCHANGED <<events, leaked>>
  BY <1>3, <1>4, FinishedType DEF TriggerEnd, TypeInv, TypeOK, ExecsNumbered, RequestType
<1>5. CASE StoreFails /\ leaked' = leaked \cup ({req[r].exec} \ {0}) /\ UNCHANGED execs
  <2>1. leaked' \subseteq 1..execNo
    <3>1. execNo \in Nat
      BY DEF TypeInv, TypeOK
    <3>2. {req[r].exec} \ {0} \subseteq 1..execNo
      BY <1>2, <3>1
    <3> QED
      BY <1>5, <3>2 DEF TypeInv, TypeOK
  <2> QED
    BY <1>3, <1>5, <2>1, EventType
    DEF StoreFails, TriggerEnd, TypeInv, TypeOK, ExecsNumbered, RequestType
<1> QED
  BY <1>4, <1>5 DEF TriggerEnd

LEMMA TriggerWriteType == ASSUME TypeInv, NEW r \in Requests, TriggerWrite(r) PROVE TypeInv'
<1>1. req[r].pc = "update" /\ req' = [req EXCEPT ![r] = Free]
  BY DEF TriggerWrite
<1>2. req[r].of.id \in Ids /\ req[r].of.task.every \in Every \cup {Manual} /\ clock \in Nat
  BY <1>1, RequestIs, CopyIs, TaskIs, ClockIs DEF TypeInv
<1>3. req' \in [Requests -> RequestType]
  BY <1>1, RequestType1 DEF TypeInv, RequestType
<1>4. CASE /\ UpdateLastRun(req[r].of.id, clock, req[r].of.task.every) /\ UNCHANGED events
           /\ allowed' = [allowed EXCEPT ![req[r].of.id] = 0]
  <2>1. tasks' \in [Ids -> Task \cup {NoTask}]
    BY <1>2, <1>4, UpdateLastRunIs DEF TypeInv, TypeOK
  <2> QED
    BY <1>2, <1>3, <1>4, <2>1 DEF TriggerWrite, TypeInv, TypeOK, ExecsNumbered, RequestType
<1>5. CASE StoreFails /\ UNCHANGED <<tasks, allowed>>
  BY <1>3, <1>5, EventType DEF StoreFails, TriggerWrite, TypeInv, TypeOK, ExecsNumbered, RequestType
<1> QED
  BY <1>4, <1>5 DEF TriggerWrite

LEMMA CrashType == ASSUME TypeInv, Crash PROVE TypeInv'
<1>1. leaked' \subseteq 1..execNo
  BY DEF Crash, TypeInv, TypeOK, ExecsNumbered
<1>2. engine' \in EngineType /\ engine'.pc = "sleep"
  BY AsleepIs DEF Crash, TypeInv
<1>3. allowed' \in [Ids -> Nat] /\ req' \in [Requests -> RequestType]
  BY DEF Crash, RequestType
<1> QED
  BY <1>1, <1>2, <1>3, EventType DEF Crash, store, TypeInv, TypeOK, ExecsNumbered, EngineType, RequestType

LEMMA InitType == Init => TypeInv
<1> SUFFICES ASSUME Init PROVE TypeInv
  OBVIOUS
<1>1. 0 \in Nat /\ 0 \in 0..MaxTime /\ 0 \in 0..MaxEvents
  BY TaskSchedulerAssumption
<1>2. execNo = 0 /\ execNo \in Nat /\ 0 \in 0..execNo
  BY DEF Init
<1>3. engine \in EngineType /\ engine.pc = "sleep"
  BY <1>1, <1>2 DEF Init, Asleep, EngineType, EnginePhases
<1>4. req \in [Requests -> RequestType]
  BY DEF Init, RequestType
<1>5. /\ tasks \in [Ids -> Task \cup {NoTask}] /\ allowed \in [Ids -> Nat] /\ created \in Nat
  BY <1>1 DEF Init
<1>6. execs \subseteq Execution /\ ExecsNumbered
  BY DEF Init, ExecsNumbered
<1>7. permit \in BOOLEAN
  BY Zenon DEF Init
<1>8. /\ gone \subseteq Ids /\ unseen \subseteq Ids /\ leaked \subseteq 1..execNo
      /\ clock \in 0..MaxTime /\ events \in 0..MaxEvents
  BY <1>1 DEF Init
<1> QED
  BY <1>2, <1>3, <1>4, <1>5, <1>6, <1>7, <1>8 DEF TypeInv, TypeOK, EngineType, RequestType

LEMMA TypeInductive == TypeInv /\ [Next]_vars => TypeInv'
<1> SUFFICES ASSUME TypeInv, [Next]_vars PROVE TypeInv'
  OBVIOUS
<1>1. CASE EngineStep
  <2>1. CASE Skip
    <3>1. engine' \in EngineType /\ engine'.pc = "check"
      BY <2>1, ReadingIs, EngineIs DEF Skip, EngineType, EnginePhases, TypeInv
    <3> QED
      BY <2>1, <3>1 DEF Skip, store, history, TypeInv, TypeOK, ExecsNumbered, EngineType
  <2>2. CASE GoToSleep
    <3>1. engine' \in EngineType /\ engine'.pc = "sleep"
      BY <2>2, AsleepIs DEF GoToSleep, TypeInv
    <3> QED
      BY <2>2, <3>1 DEF GoToSleep, store, history, TypeInv, TypeOK, ExecsNumbered, EngineType
  <2> QED
    BY <1>1, <2>1, <2>2, WakeUpType, ListType, TakeTimeType, StartRunType, EndRunType, WriteRunType
    DEF EngineStep
<1>2. CASE ListFails \/ RunPanics
  BY <1>2, ListFailsType, RunPanicsType
<1>3. ASSUME NEW r \in Requests, TriggerStep(r) \/ Cancel(r) PROVE TypeInv'
  BY <1>3, TriggerStartType, SpawnType, TriggerEndType, ForgottenType, TriggerWriteType DEF TriggerStep
<1>4. CASE Tick
  <2>1. clock' \in 0..MaxTime
    BY <1>4, ClockIs, TaskSchedulerAssumption DEF Tick, TypeInv, TypeOK
  <2> QED
    BY <1>4, <2>1 DEF Tick, store, history, TypeInv, TypeOK, ExecsNumbered
<1>5. CASE UNCHANGED vars
  BY <1>5 DEF vars, store, history, TypeInv, TypeOK, ExecsNumbered
<1> QED
  BY <1>1, <1>2, <1>3, <1>4, <1>5, CreateType, WakeType, BeginType, EditType, EditFailsType,
     DeleteType, CrashType DEF Next

-----------------------------------------------------------------------------
(* Wake-ups and executions *)

(* A permit goes only when the engine wakes up to list the tasks.          *)
LEMMA SignalInductive == TypeInv /\ ChangesAreSignalled /\ [Next]_vars => ChangesAreSignalled'
<1> SUFFICES ASSUME TypeInv, ChangesAreSignalled, [Next]_vars PROVE ChangesAreSignalled'
  OBVIOUS
<1>1. CASE unseen' = {}
  BY <1>1 DEF ChangesAreSignalled
<1>2. CASE permit'
  BY <1>2 DEF ChangesAreSignalled
<1>3. ASSUME UNCHANGED <<unseen, permit>>, engine.pc # "list" \/ UNCHANGED engine
      PROVE  ChangesAreSignalled'
  BY <1>3 DEF ChangesAreSignalled
<1>4. CASE WakeUp
  <2>1. engine'.pc = "list"
    BY <1>4, EngineIs DEF WakeUp, EngineType, TypeInv
  <2> QED
    BY <2>1 DEF ChangesAreSignalled
<1>5. CASE EngineStep
  BY <1>1, <1>3, <1>4, <1>5 DEF EngineStep, List, TakeTime, Skip, StartRun, EndRun, WriteRun, GoToSleep,
     history
<1>6. ASSUME NEW r \in Requests, TriggerStep(r) \/ Cancel(r) PROVE ChangesAreSignalled'
  BY <1>3, <1>6 DEF TriggerStep, TriggerStart, Spawn, TriggerEnd, TriggerPanics, TriggerWrite, Cancel, history
<1> QED
  BY <1>1, <1>2, <1>3, <1>5, <1>6
  DEF Next, ListFails, RunPanics, Create, Wake, Begin, Edit, EditFails, Delete, Crash, Tick, history, vars

Owned(n) ==
    \/ engine.pc = "execute" /\ engine.exec = n
    \/ \E r \in Requests : req[r].pc \in {"spawn", "execute"} /\ req[r].exec = n

LEMMA OwnedInductive == TypeInv /\ RunningIsOwned /\ [Next]_vars => RunningIsOwned'
<1> SUFFICES ASSUME TypeInv, RunningIsOwned, [Next]_vars,
                    NEW f \in execs', f.status = "running", f.no \notin leaked'
             PROVE  Owned(f.no)'
  BY DEF RunningIsOwned, Owned
<1>1. \A e \in execs : e.no \in Nat \ {0} /\ e.no # execNo + 1
  BY DEF TypeInv, TypeOK, ExecsNumbered
<1>2. \A e \in execs : e.status = "running" /\ e.no \notin leaked => Owned(e.no)
  BY DEF RunningIsOwned, Owned
(* Nothing changes but requests that execute nothing.                      *)
<1>3. ASSUME NEW r \in Requests, NEW x, req' = [req EXCEPT ![r] = x], req[r].pc \notin {"spawn", "execute"},
             execs' \subseteq execs, UNCHANGED <<engine, leaked>>
      PROVE  Owned(f.no)'
  <2>1. \A q \in Requests : req[q].pc \in {"spawn", "execute"} => req'[q] = req[q]
    BY <1>3 DEF TypeInv, TypeOK
  <2> QED
    BY <1>2, <1>3, <2>1 DEF Owned
<1>4. ASSUME execs' \subseteq execs, UNCHANGED <<req, leaked>>,
             engine.pc # "execute" \/ UNCHANGED engine
      PROVE  Owned(f.no)'
  BY <1>2, <1>4 DEF Owned
<1>5. CASE StartRun
  <2>1. CASE /\ Record(Reading.id)
             /\ engine' = [engine EXCEPT !.pc = "execute", !.exec = execNo + 1]
    <3>1. engine'.pc = "execute" /\ engine'.exec = execNo + 1
      BY <2>1, EngineIs DEF EngineType, TypeInv
    <3>2. f \in execs \/ f.no = execNo + 1
      BY <2>1 DEF Record
    <3> QED
      BY <1>2, <1>5, <3>1, <3>2 DEF Owned, StartRun
  <2>2. CASE UNCHANGED execs
    BY <1>4, <1>5, <2>2 DEF StartRun
  <2> QED
    BY <1>5, <2>1, <2>2 DEF StartRun
<1>6. ASSUME NEW status \in {"success", "failed"}, EndRun(status) PROVE Owned(f.no)'
  <2>1. CASE execs' = Finished(engine.exec, status) /\ leaked' = leaked
    <3>1. PICK e \in execs : /\ f.no = e.no
                             /\ f.status = IF e.no = engine.exec THEN status ELSE e.status
      <4>1. execs \subseteq Execution
        BY DEF TypeInv, TypeOK
      <4> QED
        BY <2>1, <4>1, FinishedIs
    <3>2. e.status = "running" /\ f.no # engine.exec
      BY <3>1
    <3> QED
      BY <1>2, <1>6, <2>1, <3>1, <3>2 DEF Owned, EndRun
  <2>2. CASE leaked' = leaked \cup ({engine.exec} \ {0}) /\ UNCHANGED execs
    <3>1. f \in execs /\ f.no # engine.exec /\ f.no \notin leaked
      BY <1>1, <2>2
    <3> QED
      BY <1>2, <1>6, <3>1 DEF Owned, EndRun
  <2> QED
    BY <1>6, <2>1, <2>2 DEF EndRun
<1>7. ASSUME NEW r \in Requests, TriggerStart(r) PROVE Owned(f.no)'
  <2>1. CASE /\ Record(req[r].of.id)
             /\ req' = [req EXCEPT ![r].pc = "spawn", ![r].exec = execNo + 1]
    <3>1. req[r].pc = "trigger"
      BY <1>7 DEF TriggerStart
    <3>2. /\ req'[r].pc = "spawn" /\ req'[r].exec = execNo + 1
          /\ \A q \in Requests : req[q].pc \in {"spawn", "execute"} => req'[q] = req[q]
      <4>1. req[r] \in [pc : RequestPhases, of : Copy, exec : 0..execNo]
        BY <3>1, RequestIs DEF TypeInv
      <4> QED
        BY <2>1, <3>1, <4>1 DEF TypeInv, TypeOK
    <3>3. f \in execs \/ f.no = execNo + 1
      BY <2>1 DEF Record
    <3> QED
      BY <1>2, <1>7, <3>2, <3>3 DEF Owned, TriggerStart, history
  <2>2. CASE UNCHANGED execs /\ req' = [req EXCEPT ![r].pc = "spawn"]
    BY <1>3, <1>7, <2>2 DEF TriggerStart, history
  <2> QED
    BY <1>7, <2>1, <2>2 DEF TriggerStart
<1>8. ASSUME NEW r \in Requests, NEW status \in {"success", "failed"}, TriggerEnd(r, status)
      PROVE  Owned(f.no)'
  <2>1. \A q \in Requests \ {r} : req'[q] = req[q]
    BY <1>8 DEF TriggerEnd, TypeInv, TypeOK
  <2>2. CASE execs' = Finished(req[r].exec, status) /\ leaked' = leaked
    <3>1. PICK e \in execs : /\ f.no = e.no
                             /\ f.status = IF e.no = req[r].exec THEN status ELSE e.status
      <4>1. execs \subseteq Execution
        BY DEF TypeInv, TypeOK
      <4> QED
        BY <2>2, <4>1, FinishedIs
    <3>2. e.status = "running" /\ f.no # req[r].exec
      BY <3>1
    <3> QED
      BY <1>2, <1>8, <2>1, <2>2, <3>1, <3>2 DEF Owned, TriggerEnd
  <2>3. CASE leaked' = leaked \cup ({req[r].exec} \ {0}) /\ UNCHANGED execs
    <3>1. f \in execs /\ f.no # req[r].exec /\ f.no \notin leaked
      BY <1>1, <2>3
    <3> QED
      BY <1>2, <1>8, <2>1, <3>1 DEF Owned, TriggerEnd
  <2> QED
    BY <1>8, <2>2, <2>3 DEF TriggerEnd
<1>9. ASSUME NEW r \in Requests, TriggerWrite(r) PROVE Owned(f.no)'
  BY <1>3, <1>9 DEF TriggerWrite
<1>10. CASE EngineStep
  <2>1. ASSUME WakeUp \/ List \/ TakeTime \/ Skip \/ WriteRun \/ GoToSleep PROVE Owned(f.no)'
    BY <1>4, <2>1 DEF WakeUp, List, TakeTime, Skip, WriteRun, GoToSleep, store, history
  <2> QED
    BY <1>5, <1>6, <1>10, <2>1 DEF EngineStep
<1>11. ASSUME NEW r \in Requests, NEW i \in Ids, NEW every \in Every \cup {Manual},
              NEW enabled \in BOOLEAN, Create(r, i, every, enabled)
       PROVE  Owned(f.no)'
  <2>1. req[r].pc \notin {"spawn", "execute"}
    BY <1>11 DEF Create, Free
  <2> QED
    BY <1>3, <1>11, <2>1 DEF Create, history
<1>12. ASSUME NEW r \in Requests, Wake(r) PROVE Owned(f.no)'
  BY <1>3, <1>12 DEF Wake, store, history
<1>13. ASSUME NEW r \in Requests, NEW i \in Ids, NEW pc \in {"edit", "trigger"}, Begin(r, i, pc)
       PROVE  Owned(f.no)'
  <2>1. req[r].pc \notin {"spawn", "execute"}
    BY <1>13 DEF Begin, Free
  <2> QED
    BY <1>3, <1>13, <2>1 DEF Begin, store, history
<1>14. ASSUME NEW r \in Requests, Edit(r) PROVE Owned(f.no)'
  BY <1>3, <1>14 DEF Edit
<1>15. ASSUME NEW r \in Requests, EditFails(r) PROVE Owned(f.no)'
  BY <1>3, <1>15 DEF EditFails, store, history
<1>16. ASSUME NEW i \in Ids, Delete(i) PROVE Owned(f.no)'
  BY <1>4, <1>16 DEF Delete
<1>17. ASSUME Crash PROVE Owned(f.no)'
  <2>1. f \in execs /\ f.no \in leaked'
    BY <1>17 DEF Crash, store
  <2> QED
    BY <2>1
<1>18. ASSUME ListFails \/ Tick \/ UNCHANGED vars PROVE Owned(f.no)'
  BY <1>4, <1>18 DEF ListFails, Tick, vars, store, history
<1>19. ASSUME NEW r \in Requests, Spawn(r) PROVE Owned(f.no)'
  <2>1. req[r].pc = "spawn" /\ req' = [req EXCEPT ![r].pc = "execute"] /\ UNCHANGED <<execs, engine, leaked>>
    BY <1>19 DEF Spawn, store, history
  <2>2. req'[r].pc = "execute" /\ req'[r].exec = req[r].exec
    BY <2>1, RequestIs, MovedOn DEF RequestPhases, TypeInv
  <2>3. \A q \in Requests \ {r} : req'[q] = req[q]
    BY <2>1 DEF TypeInv, TypeOK
  <2> QED
    BY <1>2, <2>1, <2>2, <2>3 DEF Owned
(* What nobody will finish is leaked.                                      *)
<1>20. ASSUME NEW r \in Requests, TriggerPanics(r) \/ Cancel(r) PROVE Owned(f.no)'
  <2>1. /\ leaked' = leaked \cup ({req[r].exec} \ {0}) /\ req' = [req EXCEPT ![r] = Free]
        /\ UNCHANGED <<execs, engine>>
    BY <1>20 DEF TriggerPanics, Cancel, store
  <2>2. f \in execs /\ f.no # req[r].exec /\ f.no \notin leaked
    BY <1>1, <2>1
  <2>3. \A q \in Requests \ {r} : req'[q] = req[q]
    BY <2>1 DEF TypeInv, TypeOK
  <2> QED
    BY <1>2, <2>1, <2>2, <2>3 DEF Owned
<1>21. ASSUME RunPanics PROVE Owned(f.no)'
  <2>1. leaked' = leaked \cup ({engine.exec} \ {0}) /\ UNCHANGED <<execs, req>>
    BY <1>21 DEF RunPanics, store
  <2>2. f \in execs /\ f.no # engine.exec /\ f.no \notin leaked
    BY <1>1, <2>1
  <2> QED
    BY <1>2, <2>1, <2>2 DEF Owned
<1> QED
  BY <1>7, <1>8, <1>9, <1>10, <1>11, <1>12, <1>13, <1>14, <1>15, <1>16, <1>17, <1>18, <1>19, <1>20, <1>21
  DEF Next, TriggerStep

-----------------------------------------------------------------------------
(* Who works on what *)

LEMMA UsedGrows ==
    ASSUME TypeInv, [Next]_vars
    PROVE  /\ Created \subseteq Created'
           /\ created' = created \/ \E r \in Requests, i \in Ids, every \in Every \cup {Manual},
                                 enabled \in BOOLEAN : Create(r, i, every, enabled)
<1>1. ASSUME NEW r \in Requests, NEW i \in Ids, NEW every \in Every \cup {Manual},
             NEW enabled \in BOOLEAN, Create(r, i, every, enabled)
      PROVE  Created \subseteq Created'
  <2>1. created \in Nat /\ created' = created + 1
    BY <1>1 DEF Create, TypeInv, TypeOK
  <2> QED
    BY <2>1 DEF Created
<1>2. created' = created => Created' = Created
  BY DEF Created
<1>3. created' = created \/ \E r \in Requests, i \in Ids, every \in Every \cup {Manual},
                         enabled \in BOOLEAN : Create(r, i, every, enabled)
  BY DEF Next, vars, store, history, EngineStep, WakeUp, List, TakeTime, ListFails, Skip, StartRun, EndRun,
     RunPanics, WriteRun, GoToSleep, Wake, Begin, Edit, EditFails, Delete, TriggerStep, TriggerStart, Spawn,
     TriggerEnd, TriggerPanics, TriggerWrite, Cancel, Crash, Tick
<1> QED
  BY <1>1, <1>2, <1>3

LEMMA CreateIs ==
    ASSUME TypeInv, NEW r \in Requests, NEW i \in Ids, NEW every, NEW enabled,
           Create(r, i, every, enabled)
    PROVE  i \notin Created /\ i \in Created'
<1>1. created \in Nat /\ created' = created + 1 /\ i = created + 1
  BY DEF Create, TypeInv, TypeOK
<1> QED
  BY <1>1 DEF Created

LEMMA ReadingWorkedOn ==
    ASSUME TypeInv, engine.list # <<>>
    PROVE  Reading.id \in Ids /\ WorkedOn(Reading.id)
BY ReadingIs, CopyIs DEF TypeInv, WorkedOn

LEMMA RequestWorkedOn ==
    ASSUME TypeInv, NEW r \in Requests, req[r].pc # "free"
    PROVE  req[r].of.id \in Ids /\ WorkedOn(req[r].of.id)
<1>1. req[r].of \in Copy
  BY RequestIs DEF TypeInv
<1> QED
  BY <1>1, CopyIs DEF WorkedOn

(* Work on a task begins from its row, or from its creation.               *)
LEMMA WorkBegins ==
    ASSUME TypeInv, [Next]_vars, NEW i \in Ids, WorkedOn(i)'
    PROVE  WorkedOn(i) \/ tasks[i] # NoTask \/ (i \notin Created /\ i \in Created')
<1> DEFINE Goal == WorkedOn(i) \/ tasks[i] # NoTask \/ (i \notin Created /\ i \in Created')
<1> SUFFICES Goal
  OBVIOUS
<1>1. ASSUME UNCHANGED <<engine, req>> PROVE Goal
  BY <1>1 DEF WorkedOn
<1>2. ASSUME UNCHANGED req,
             \A k \in DOMAIN engine'.list : \E l \in DOMAIN engine.list :
                engine'.list[k].id = engine.list[l].id
      PROVE  Goal
  BY <1>2 DEF WorkedOn
<1>3. ASSUME NEW r \in Requests, NEW x, req' = [req EXCEPT ![r] = x], UNCHANGED engine,
             x.of.id \in Ids => x.of.id = req[r].of.id \/ tasks[x.of.id] # NoTask
                                \/ (x.of.id \notin Created /\ x.of.id \in Created')
      PROVE  Goal
  <2>1. \A q \in Requests : req'[q] = IF q = r THEN x ELSE req[q]
    BY <1>3 DEF TypeInv, TypeOK
  <2> QED
    BY <1>3, <2>1 DEF WorkedOn
<1>4. Free.of.id \notin Ids
  BY TaskSchedulerAssumption DEF Free, NoCopy
<1>5. CASE EngineStep
  <2>1. CASE List
    <3>1. PICK list \in ListTasks : engine'.list = list
      BY <2>1, EngineIs DEF List, EngineType, TypeInv
    <3>2. \A k \in DOMAIN engine'.list : tasks[engine'.list[k].id] # NoTask
      BY <3>1, ListTasksIs DEF TypeInv, TypeOK
    <3> QED
      BY <2>1, <3>2 DEF WorkedOn, List
  <2>2. ASSUME engine.list # <<>>, engine'.list = Tail(engine.list), UNCHANGED req PROVE Goal
    BY <1>2, <2>2, ReadingIs DEF TypeInv
  <2>3. ASSUME engine'.list = engine.list, UNCHANGED req PROVE Goal
    BY <1>2, <2>3
  <2>4. CASE Skip
    BY <2>2, <2>4 DEF Skip, TypeInv, TypeOK
  <2>5. CASE WakeUp \/ TakeTime \/ StartRun
    BY <2>3, <2>5, EngineIs DEF WakeUp, TakeTime, StartRun, EngineType, TypeInv
  <2>6. ASSUME NEW status \in {"success", "failed"}, EndRun(status) PROVE Goal
    BY <2>3, <2>6 DEF EndRun, TypeInv, TypeOK
  <2>7. CASE WriteRun
    BY <2>2, <2>7 DEF WriteRun, TypeInv, TypeOK
  <2>8. CASE GoToSleep
    BY <2>8, <1>2 DEF GoToSleep, Asleep
  <2> QED
    BY <1>5, <2>1, <2>4, <2>5, <2>6, <2>7, <2>8 DEF EngineStep
<1>6. ASSUME NEW r \in Requests, NEW j \in Ids, NEW every \in Every \cup {Manual},
             NEW enabled \in BOOLEAN, Create(r, j, every, enabled)
      PROVE  Goal
  <2>1. PICK t : req' = [req EXCEPT ![r] = [pc |-> "wake", of |-> [id |-> j, task |-> t], exec |-> 0]]
    BY <1>6 DEF Create
  <2> QED
    BY <1>3, <1>6, <2>1, CreateIs DEF Create
<1>7. ASSUME NEW r \in Requests, req' = [req EXCEPT ![r] = Free], UNCHANGED engine PROVE Goal
  BY <1>3, <1>4, <1>7
<1>8. ASSUME NEW r \in Requests, NEW j \in Ids, NEW pc \in {"edit", "trigger"}, Begin(r, j, pc)
      PROVE  Goal
  <2>1. req' = [req EXCEPT ![r] = [pc |-> pc, of |-> GetTask(j), exec |-> 0]] /\ UNCHANGED engine
        /\ tasks[j] # NoTask
    BY <1>8 DEF Begin
  <2>2. [pc |-> pc, of |-> GetTask(j), exec |-> 0].of.id = j
    BY DEF GetTask
  <2> QED
    BY <1>3, <2>1, <2>2
<1>9. ASSUME NEW r \in Requests, req[r] # Free, UNCHANGED engine, NEW pc \in RequestPhases,
             req' = [req EXCEPT ![r].pc = pc]
      PROVE  Goal
  <2>1. req'[r].of = req[r].of
    BY <1>9, MovedOn DEF TypeInv
  <2>2. \A q \in Requests : q # r => req'[q] = req[q]
    BY <1>9
  <2> QED
    BY <1>9, <2>1, <2>2 DEF WorkedOn
<1>10. ASSUME NEW r \in Requests, Edit(r) PROVE Goal
  BY <1>9, <1>10, RequestIs DEF Edit, RequestPhases, TypeInv
<1>11. ASSUME NEW r \in Requests, TriggerStart(r) PROVE Goal
  <2>1. req[r].pc = "trigger" /\ UNCHANGED engine
    BY <1>11 DEF TriggerStart
  <2>2. CASE req' = [req EXCEPT ![r].pc = "spawn"]
    BY <1>9, <2>1, <2>2, RequestIs DEF RequestPhases, TypeInv
  <2>3. CASE req' = [req EXCEPT ![r].pc = "spawn", ![r].exec = execNo + 1]
    <3>1. req'[r].of = req[r].of
      <4>1. req[r] \in [pc : RequestPhases, of : Copy, exec : 0..execNo]
        BY <2>1, RequestIs DEF TypeInv
      <4> QED
        BY <2>3, <4>1 DEF TypeInv, TypeOK
    <3>2. \A q \in Requests : q # r => req'[q] = req[q]
      BY <2>3 DEF TypeInv, TypeOK
    <3> QED
      BY <2>1, <3>1, <3>2 DEF WorkedOn
  <2> QED
    BY <1>11, <2>2, <2>3 DEF TriggerStart
<1>12. ASSUME NEW r \in Requests, NEW status \in {"success", "failed"}, TriggerEnd(r, status)
       PROVE  Goal
  BY <1>9, <1>12, RequestIs DEF TriggerEnd, RequestPhases, TypeInv
<1>13. CASE Crash
  <2>1. engine'.list = <<>> /\ \A r \in Requests : req'[r].of.id \notin Ids
    BY <1>4, <1>13 DEF Crash, Asleep
  <2> QED
    BY <2>1 DEF WorkedOn
<1>14. ASSUME NEW r \in Requests,
              Wake(r) \/ EditFails(r) \/ TriggerPanics(r) \/ TriggerWrite(r) \/ Cancel(r)
       PROVE  Goal
  BY <1>7, <1>14 DEF Wake, EditFails, TriggerPanics, TriggerWrite, Cancel, store, history
<1>15. ASSUME Tick \/ UNCHANGED vars \/ \E j \in Ids : Delete(j) PROVE Goal
  BY <1>1, <1>15 DEF Tick, vars, Delete
<1>16. ASSUME NEW r \in Requests, Spawn(r) PROVE Goal
  BY <1>9, <1>16, RequestIs DEF Spawn, RequestPhases, TypeInv
<1>17. CASE ListFails \/ RunPanics
  <2>1. engine'.list = <<>> /\ UNCHANGED req
    BY <1>17, AsleepIs DEF ListFails, RunPanics, TypeInv
  <2> QED
    BY <1>2, <2>1
<1> QED
  BY <1>5, <1>6, <1>8, <1>10, <1>11, <1>12, <1>13, <1>14, <1>15, <1>16, <1>17 DEF Next, TriggerStep

(* A row comes from a creation or from an edit's copy, an execution from a *)
(* copy.                                                                   *)
LEMMA RowsBegin ==
    ASSUME TypeInv, [Next]_vars, NEW i \in Ids, tasks'[i] # NoTask
    PROVE  WorkedOn(i) \/ tasks[i] # NoTask \/ (i \notin Created /\ i \in Created')
<1> DEFINE Goal == WorkedOn(i) \/ tasks[i] # NoTask \/ (i \notin Created /\ i \in Created')
<1> SUFFICES Goal
  OBVIOUS
<1>1. CASE UNCHANGED tasks
  BY <1>1
<1>2. ASSUME NEW r \in Requests, NEW j \in Ids, NEW every \in Every \cup {Manual},
             NEW enabled \in BOOLEAN, Create(r, j, every, enabled)
      PROVE  Goal
  <2>1. PICK t : tasks' = [tasks EXCEPT ![j] = t]
    BY <1>2 DEF Create
  <2> QED
    BY <1>2, <2>1, CreateIs DEF TypeInv, TypeOK
<1>3. CASE WriteRun
  <2>1. engine.list # <<>>
    BY <1>3 DEF WriteRun, TypeInv, TypeOK
  <2>2. /\ Reading.id \in Ids /\ Reading.task.every \in Every \cup {Manual} /\ engine.now \in Nat
    BY <2>1, ReadingIs, CopyIs, TaskIs DEF TypeInv, TypeOK
  <2> QED
    BY <1>1, <1>3, <2>2, UpdateLastRunIs DEF WriteRun, TypeInv, TypeOK
<1>4. ASSUME NEW r \in Requests, TriggerWrite(r) PROVE Goal
  <2>1. req[r].pc = "update"
    BY <1>4 DEF TriggerWrite
  <2>2. /\ req[r].of.id \in Ids /\ req[r].of.task.every \in Every \cup {Manual} /\ clock \in Nat
    BY <2>1, RequestIs, CopyIs, TaskIs, ClockIs DEF TypeInv
  <2> QED
    BY <1>1, <1>4, <2>2, UpdateLastRunIs DEF TriggerWrite, TypeInv, TypeOK
<1>5. ASSUME NEW r \in Requests, Edit(r) PROVE Goal
  <2>1. req[r].pc = "edit" /\ \E new : tasks' = [tasks EXCEPT ![req[r].of.id] = new]
    BY <1>5 DEF Edit
  <2> QED
    BY <2>1, RequestWorkedOn DEF TypeInv, TypeOK
<1>6. ASSUME NEW j \in Ids, Delete(j) PROVE Goal
  BY <1>6 DEF Delete, TypeInv, TypeOK
<1> QED
  BY <1>1, <1>2, <1>3, <1>4, <1>5, <1>6 DEF Next, EngineStep, WakeUp, List, TakeTime, ListFails, Skip,
     StartRun, EndRun, RunPanics, GoToSleep, Wake, Begin, EditFails, TriggerStep, TriggerStart, Spawn,
     TriggerEnd, TriggerPanics, Cancel, Crash, Tick, store, vars

LEMMA ExecsBegin ==
    ASSUME TypeInv, [Next]_vars, NEW f \in execs'
    PROVE  (\E e \in execs : e.task = f.task) \/ WorkedOn(f.task)
<1> DEFINE Goal == (\E e \in execs : e.task = f.task) \/ WorkedOn(f.task)
<1> SUFFICES Goal
  OBVIOUS
<1>1. CASE execs' \subseteq execs
  BY <1>1
<1>2. ASSUME NEW i, Record(i), WorkedOn(i) PROVE Goal
  BY <1>2 DEF Record
<1>3. ASSUME NEW n, NEW status \in {"success", "failed"}, execs' = Finished(n, status) PROVE Goal
  BY <1>3, FinishedIs DEF TypeInv, TypeOK
<1>4. CASE StartRun
  <2>1. WorkedOn(Reading.id)
    BY <1>4, ReadingWorkedOn DEF StartRun
  <2> QED
    BY <1>1, <1>2, <1>4, <2>1 DEF StartRun
<1>5. ASSUME NEW r \in Requests, TriggerStart(r) PROVE Goal
  <2>1. WorkedOn(req[r].of.id)
    BY <1>5, RequestWorkedOn DEF TriggerStart
  <2> QED
    BY <1>1, <1>2, <1>5, <2>1 DEF TriggerStart
<1>6. ASSUME NEW status \in {"success", "failed"}, EndRun(status) PROVE Goal
  BY <1>1, <1>3, <1>6 DEF EndRun
<1>7. ASSUME NEW r \in Requests, NEW status \in {"success", "failed"}, TriggerEnd(r, status) PROVE Goal
  BY <1>1, <1>3, <1>7 DEF TriggerEnd
<1>8. ASSUME NEW j \in Ids, Delete(j) PROVE Goal
  BY <1>1, <1>8 DEF Delete
<1>9. CASE UNCHANGED execs
  BY <1>1, <1>9
<1> QED
  BY <1>4, <1>5, <1>6, <1>7, <1>8, <1>9 DEF Next, EngineStep, WakeUp, List, TakeTime, ListFails, Skip,
     RunPanics, WriteRun, GoToSleep, Create, Wake, Begin, Edit, EditFails, TriggerStep, Spawn,
     TriggerPanics, TriggerWrite, Cancel, Crash, Tick, store, vars

LEMMA CreatedInductive == TypeInv /\ CreatedInv /\ [Next]_vars => CreatedInv'
<1> SUFFICES ASSUME TypeInv, CreatedInv, [Next]_vars,
                    NEW i \in Ids, tasks'[i] # NoTask \/ WorkedOn(i)'
             PROVE  i \in Created'
  BY DEF CreatedInv
<1>1. WorkedOn(i) \/ tasks[i] # NoTask \/ (i \notin Created /\ i \in Created')
  BY RowsBegin, WorkBegins
<1> QED
  BY <1>1, UsedGrows DEF CreatedInv

LEMMA GoneInductive == TypeInv /\ CreatedInv /\ GoneInv /\ [Next]_vars => GoneInv'
<1> SUFFICES ASSUME TypeInv, CreatedInv, GoneInv, [Next]_vars, NEW i \in gone'
             PROVE  /\ i \in Created' /\ ~WorkedOn(i)'
                    /\ tasks'[i] = NoTask /\ \A e \in execs' : e.task # i
  BY DEF GoneInv
<1>1. CASE i \in gone
  <2>1. i \in Ids /\ i \in Created /\ ~WorkedOn(i) /\ tasks[i] = NoTask
        /\ \A e \in execs : e.task # i
    BY <1>1 DEF GoneInv, TypeInv, TypeOK
  <2>2. i \in Created' /\ ~WorkedOn(i)' /\ tasks'[i] = NoTask
    BY <2>1, UsedGrows, WorkBegins, RowsBegin
  <2>3. \A e \in execs' : e.task # i
    BY <2>1, ExecsBegin
  <2> QED
    BY <2>2, <2>3
<1>2. CASE i \notin gone
  <2>1. i \in Ids /\ Delete(i) /\ ~WorkedOn(i) /\ execs' = {e \in execs : e.task # i}
    <3>1. \A r \in Requests : Edit(r) => gone' \subseteq gone
      BY DEF Edit
    <3>2. \A j \in Ids : Delete(j) => \/ gone' = gone
                                      \/ /\ gone' = gone \cup {j} /\ ~WorkedOn(j)
                                         /\ execs' = {e \in execs : e.task # j}
      BY DEF Delete
    <3>3. \E j \in Ids : Delete(j) /\ gone' # gone
      BY <1>2, <3>1 DEF Next, EngineStep, WakeUp, List, TakeTime, ListFails, Skip, StartRun, EndRun,
         RunPanics, WriteRun, GoToSleep, Create, Wake, Begin, EditFails, TriggerStep, TriggerStart, Spawn,
         TriggerEnd, TriggerPanics, TriggerWrite, Cancel, Crash, Tick, history, vars
    <3> QED
      BY <1>2, <3>2, <3>3
  <2>2. tasks[i] # NoTask /\ tasks'[i] = NoTask /\ UNCHANGED <<engine, req>>
    BY <2>1 DEF Delete, TypeInv, TypeOK
  <2> QED
    BY <2>1, <2>2, UsedGrows DEF CreatedInv, WorkedOn
<1> QED
  BY <1>1, <1>2

(* The engine's list only ever gets shorter, or is read anew.              *)
LEMMA ListInductive == TypeInv /\ ListOnce /\ [Next]_vars => ListOnce'
<1> SUFFICES ASSUME TypeInv, ListOnce, [Next]_vars PROVE ListOnce'
  OBVIOUS
<1>1. ASSUME engine'.list = engine.list PROVE ListOnce'
  BY <1>1 DEF ListOnce
<1>2. ASSUME engine'.list = <<>> PROVE ListOnce'
  BY <1>2 DEF ListOnce
<1>3. ASSUME engine.list # <<>>, engine'.list = Tail(engine.list) PROVE ListOnce'
  <2> SUFFICES ASSUME NEW k \in DOMAIN Tail(engine.list), NEW l \in DOMAIN Tail(engine.list),
                      Tail(engine.list)[k].id = Tail(engine.list)[l].id
               PROVE  k = l
    BY <1>3 DEF ListOnce
  <2>1. /\ k + 1 \in DOMAIN engine.list /\ l + 1 \in DOMAIN engine.list /\ k \in Nat /\ l \in Nat
        /\ engine.list[k + 1].id = engine.list[l + 1].id
    BY <1>3, ReadingIs DEF TypeInv
  <2>2. k + 1 = l + 1
    BY <2>1 DEF ListOnce
  <2> QED
    BY <2>1, <2>2
<1>4. CASE List
  <2>1. PICK list \in ListTasks : engine'.list = list
    BY <1>4, EngineIs DEF List, EngineType, TypeInv
  <2> QED
    BY <2>1, ListTasksIs DEF ListOnce, TypeInv, TypeOK
<1>5. CASE Skip \/ WriteRun
  BY <1>3, <1>5 DEF Skip, WriteRun, TypeInv, TypeOK
<1>6. ASSUME WakeUp \/ TakeTime \/ StartRun \/ \E status \in {"success", "failed"} : EndRun(status)
      PROVE  ListOnce'
  BY <1>1, <1>6, EngineIs DEF WakeUp, TakeTime, StartRun, EndRun, EngineType, TypeInv
<1>7. CASE GoToSleep \/ Crash \/ ListFails \/ RunPanics
  BY <1>2, <1>7, AsleepIs DEF GoToSleep, Crash, ListFails, RunPanics, TypeInv
<1>8. CASE UNCHANGED engine
  BY <1>1, <1>8
<1> QED
  BY <1>4, <1>5, <1>6, <1>7, <1>8 DEF Next, EngineStep, Create, Wake, Begin, Edit, EditFails,
     Delete, TriggerStep, TriggerStart, Spawn, TriggerEnd, TriggerPanics, TriggerWrite, Cancel, Tick, vars

-----------------------------------------------------------------------------
(* When the next run may follow *)

LEMMA AllowedIs ==
    ASSUME TypeInv PROVE \A i \in Ids : allowed[i] \in Nat /\ 0 \in Nat
BY DEF TypeInv, TypeOK

(* Nothing that the engine or a row says of the next run changes.          *)
LEMMA SpacingKept ==
    ASSUME TypeInv, SpacingInv, [Next]_vars, UNCHANGED <<tasks, allowed>>,
           engine'.list = engine.list, engine'.now = engine.now, Busy' = Busy
    PROVE  SpacingInv'
<1>1. Reading' = Reading
  BY DEF Reading
<1>2. Created \subseteq Created'
  BY UsedGrows
<1>3. \A i \in Ids \ Created' : allowed'[i] = 0
  BY <1>2 DEF SpacingInv
<1> QED
  BY <1>1, <1>3 DEF SpacingInv

(* A task is written or deleted by a request: its next run is free.        *)
LEMMA SpacingFreed ==
    ASSUME TypeInv, SpacingInv, [Next]_vars, NEW i \in Ids,
           \A j \in Ids \ {i} : allowed'[j] = allowed[j] /\ tasks'[j] = tasks[j],
           allowed'[i] = 0, UNCHANGED engine
    PROVE  SpacingInv'
<1>1. Reading' = Reading /\ Busy' = Busy
  BY DEF Reading, Busy
<1>2. \A j \in Ids \ Created' : allowed'[j] = 0
  BY UsedGrows DEF SpacingInv
<1>3. Busy => Reading.id \in Ids
  BY ReadingWorkedOn DEF Busy, TypeInv, TypeOK
<1>4. \A k \in DOMAIN engine.list : engine.list[k].id \in Ids
  BY CopyIs DEF TypeInv, TypeOK
<1>5. Busy' => /\ Reading'.task.every \in Every
               /\ allowed'[Reading'.id] \in {0, engine'.now + Reading'.task.every}
  BY <1>1, <1>3 DEF SpacingInv
<1>6. \A j \in Ids : tasks'[j] # NoTask /\ allowed'[j] # 0 =>
         tasks'[j].next = allowed'[j] \/ (Busy' /\ Reading'.id = j)
  BY <1>1 DEF SpacingInv
<1>7. \A k \in DOMAIN engine'.list : allowed'[engine'.list[k].id] # 0 =>
         engine'.list[k].task.next = allowed'[engine'.list[k].id] \/ (Busy' /\ k = 1)
  BY <1>1, <1>4 DEF SpacingInv
<1> QED
  BY <1>2, <1>5, <1>6, <1>7 DEF SpacingInv

LEMMA ListSpacing == ASSUME TypeInv, SpacingInv, List PROVE SpacingInv'
<1>1. PICK list \in ListTasks : engine'.list = list /\ engine'.pc = "listed"
  BY EngineIs DEF List, EngineType, TypeInv
<1>2. ~Busy /\ ~Busy' /\ UNCHANGED <<tasks, allowed, created>>
  BY <1>1 DEF List, Busy, store
<1>3. \A k \in DOMAIN list : list[k].id \in Ids /\ tasks[list[k].id] # NoTask
                             /\ list[k].task = tasks[list[k].id]
  BY ListTasksIs DEF TypeInv, TypeOK
<1>4. Created' = Created
  BY <1>2 DEF Created
<1> QED
  BY <1>1, <1>2, <1>3, <1>4 DEF SpacingInv

(* A copy is dropped that no run of the engine is about.                   *)
LEMMA SkipSpacing == ASSUME TypeInv, SpacingInv, Skip PROVE SpacingInv'
<1>1. engine'.list = Tail(engine.list) /\ engine'.pc = "check" /\ engine.list # <<>>
  BY DEF Skip, TypeInv, TypeOK
<1>2. ~Busy /\ ~Busy' /\ UNCHANGED <<tasks, allowed, created>>
  BY <1>1 DEF Skip, Busy, store, history
<1>3. \A k \in DOMAIN engine'.list : k + 1 \in DOMAIN engine.list
                                     /\ engine'.list[k] = engine.list[k + 1]
  BY <1>1, ReadingIs DEF TypeInv
<1>4. Created' = Created
  BY <1>2 DEF Created
<1> QED
  BY <1>2, <1>3, <1>4 DEF SpacingInv

LEMMA StartRunSpacing ==
    ASSUME TypeInv, CreatedInv, ListOnce, SpacingInv, StartRun PROVE SpacingInv'
<1>1. /\ engine'.list = engine.list /\ engine'.pc = "execute" /\ engine'.now = engine.now
      /\ engine.pc = "check" /\ engine.list # <<>> /\ UNCHANGED <<tasks, created>>
      /\ Reading' = Reading
  BY DEF StartRun, Reading, TypeInv, TypeOK
<1>2. ~Busy /\ Busy'
  BY <1>1 DEF Busy
<1>3. /\ Reading.id \in Ids /\ Reading.id \in Created /\ Reading = engine.list[1]
      /\ Reading.task.every \in Every /\ 1 \in DOMAIN engine.list
  BY <1>1, ReadingIs, CopyIs, TaskIs, ReadingWorkedOn DEF StartRun, IsDue, CreatedInv, TypeInv
<1>4. /\ \A j \in Ids \ {Reading.id} : allowed'[j] = allowed[j]
      /\ allowed'[Reading.id] = engine.now + Reading.task.every
  BY <1>3 DEF StartRun, TypeInv, TypeOK
<1>5. Created' = Created
  BY <1>1 DEF Created
<1>6. \A k \in DOMAIN engine.list : engine.list[k].id \in Ids
  BY CopyIs DEF TypeInv, TypeOK
<1>7. \A k \in DOMAIN engine.list : k # 1 => engine.list[k].id # Reading.id
  BY <1>3 DEF ListOnce
<1>8. \A j \in Ids \ Created' : allowed'[j] = 0
  BY <1>3, <1>4, <1>5 DEF SpacingInv
<1>9. \A j \in Ids : tasks'[j] # NoTask /\ allowed'[j] # 0 =>
         tasks'[j].next = allowed'[j] \/ (Busy' /\ Reading'.id = j)
  BY <1>1, <1>2, <1>4 DEF SpacingInv
<1>10. \A k \in DOMAIN engine'.list : allowed'[engine'.list[k].id] # 0 =>
          engine'.list[k].task.next = allowed'[engine'.list[k].id] \/ (Busy' /\ k = 1)
  BY <1>1, <1>2, <1>4, <1>6, <1>7 DEF SpacingInv
<1> QED
  BY <1>1, <1>3, <1>4, <1>8, <1>9, <1>10 DEF SpacingInv

LEMMA WriteRunSpacing == ASSUME TypeInv, SpacingInv, ListOnce, WriteRun PROVE SpacingInv'
<1>1. /\ engine'.list = Tail(engine.list) /\ engine'.pc = "check" /\ engine.list # <<>>
      /\ UNCHANGED created /\ Busy /\ ~Busy'
  BY DEF WriteRun, Busy, TypeInv, TypeOK
<1>2. /\ Reading.id \in Ids /\ Reading = engine.list[1] /\ 1 \in DOMAIN engine.list
      /\ engine.now \in Nat
  BY <1>1, ReadingIs, CopyIs DEF TypeInv, TypeOK
<1>3. /\ Reading.task.every \in Every
      /\ allowed[Reading.id] \in {0, engine.now + Reading.task.every}
      /\ NextAfter(Reading.task.every, engine.now) = engine.now + Reading.task.every
  BY <1>1, <1>2, NextAfterIs DEF SpacingInv
<1>4. Created' = Created
  BY <1>1 DEF Created
<1>5. \A k \in DOMAIN engine'.list :
        /\ k + 1 \in DOMAIN engine.list /\ engine'.list[k] = engine.list[k + 1] /\ k + 1 # 1
        /\ engine'.list[k].id \in Ids
  BY <1>1, ReadingIs, CopyIs DEF TypeInv, TypeOK
<1>6. \A k \in DOMAIN engine'.list : engine'.list[k].id # Reading.id
  BY <1>2, <1>5 DEF ListOnce
<1>7. CASE UpdateLastRun(Reading.id, engine.now, Reading.task.every) /\ UNCHANGED allowed
  <2>1. /\ \A j \in Ids \ {Reading.id} : tasks'[j] = tasks[j]
        /\ tasks'[Reading.id] # NoTask => tasks'[Reading.id].next = engine.now + Reading.task.every
    BY <1>2, <1>3, <1>7, UpdateLastRunIs DEF TypeInv, TypeOK
  <2>2. \A j \in Ids : tasks'[j] # NoTask /\ allowed'[j] # 0 => tasks'[j].next = allowed'[j]
    BY <1>3, <1>7, <2>1 DEF SpacingInv
  <2>3. \A k \in DOMAIN engine'.list : allowed'[engine'.list[k].id] # 0 =>
           engine'.list[k].task.next = allowed'[engine'.list[k].id]
    BY <1>5, <1>7 DEF SpacingInv
  <2> QED
    BY <1>1, <1>4, <1>7, <2>2, <2>3 DEF SpacingInv
<1>8. CASE allowed' = [allowed EXCEPT ![Reading.id] = 0] /\ UNCHANGED tasks
  <2>1. allowed'[Reading.id] = 0 /\ \A j \in Ids \ {Reading.id} : allowed'[j] = allowed[j]
    BY <1>2, <1>8 DEF TypeInv, TypeOK
  <2>2. \A j \in Ids : tasks'[j] # NoTask /\ allowed'[j] # 0 => tasks'[j].next = allowed'[j]
    BY <1>8, <2>1 DEF SpacingInv
  <2>3. \A k \in DOMAIN engine'.list : allowed'[engine'.list[k].id] # 0 =>
           engine'.list[k].task.next = allowed'[engine'.list[k].id]
    BY <1>5, <1>6, <2>1 DEF SpacingInv
  <2>4. \A j \in Ids \ Created' : allowed'[j] = 0
    BY <1>4, <2>1 DEF SpacingInv
  <2> QED
    BY <1>1, <2>2, <2>3, <2>4 DEF SpacingInv
<1> QED
  BY <1>7, <1>8 DEF WriteRun

LEMMA SpacingInductive ==
    TypeInv /\ CreatedInv /\ ListOnce /\ SpacingInv /\ [Next]_vars => SpacingInv'
<1> SUFFICES ASSUME TypeInv, CreatedInv, ListOnce, SpacingInv, [Next]_vars PROVE SpacingInv'
  OBVIOUS
<1>1. CASE UNCHANGED <<tasks, allowed, engine>>
  <2>1. Busy' = Busy
    BY <1>1 DEF Busy
  <2> QED
    BY <1>1, <2>1, SpacingKept
<1>2. CASE EngineStep
  <2>1. ASSUME NEW status \in {"success", "failed"}, EndRun(status) PROVE SpacingInv'
    <3>1. /\ UNCHANGED <<tasks, allowed>> /\ engine'.list = engine.list /\ engine'.now = engine.now
          /\ engine.pc = "execute" /\ engine'.pc = "update"
      BY <2>1 DEF EndRun, TypeInv, TypeOK
    <3>2. Busy' = Busy
      BY <3>1 DEF Busy
    <3> QED
      BY <3>1, <3>2, SpacingKept
  <2>2. CASE GoToSleep
    <3>1. engine.pc = "check" /\ engine' = Asleep /\ UNCHANGED <<tasks, allowed, created>>
      BY <2>2 DEF GoToSleep, store, history
    <3>2. ~Busy /\ ~Busy' /\ engine'.list = <<>> /\ Created' = Created
      BY <3>1 DEF Busy, Asleep, Created
    <3> QED
      BY <3>1, <3>2 DEF SpacingInv
  <2>3. CASE WakeUp \/ TakeTime
    <3>1. /\ engine'.list = engine.list /\ engine'.pc \in {"list", "check"}
          /\ engine.pc \in {"sleep", "listed"} /\ UNCHANGED <<tasks, allowed, created>>
      BY <2>3, EngineIs DEF WakeUp, TakeTime, EngineType, store, history, TypeInv
    <3>2. ~Busy /\ ~Busy' /\ Created' = Created
      BY <3>1 DEF Busy, Created
    <3> QED
      BY <3>1, <3>2 DEF SpacingInv
  <2> QED
    BY <1>2, <2>1, <2>2, <2>3, ListSpacing, SkipSpacing, StartRunSpacing, WriteRunSpacing DEF EngineStep
<1>3. ASSUME NEW r \in Requests, NEW i \in Ids, NEW every \in Every \cup {Manual},
             NEW enabled \in BOOLEAN, Create(r, i, every, enabled)
      PROVE  SpacingInv'
  <2>1. allowed[i] = 0 /\ UNCHANGED <<allowed, engine>>
    BY <1>3, CreateIs DEF SpacingInv, Create, history
  <2>2. \A j \in Ids \ {i} : tasks'[j] = tasks[j]
    BY <1>3 DEF Create, TypeInv, TypeOK
  <2> QED
    BY <2>1, <2>2, SpacingFreed
<1>4. ASSUME NEW r \in Requests, Edit(r) PROVE SpacingInv'
  <2>1. req[r].of.id \in Ids
    BY <1>4, RequestWorkedOn DEF Edit
  <2>2. /\ \E new : tasks' = [tasks EXCEPT ![req[r].of.id] = new]
        /\ allowed' = [allowed EXCEPT ![req[r].of.id] = 0] /\ UNCHANGED engine
    BY <1>4 DEF Edit
  <2>3. /\ \A j \in Ids \ {req[r].of.id} : allowed'[j] = allowed[j] /\ tasks'[j] = tasks[j]
        /\ allowed'[req[r].of.id] = 0
    BY <2>1, <2>2 DEF TypeInv, TypeOK
  <2> QED
    BY <2>1, <2>2, <2>3, SpacingFreed
<1>5. ASSUME NEW i \in Ids, Delete(i) PROVE SpacingInv'
  <2>1. /\ \A j \in Ids \ {i} : allowed'[j] = allowed[j] /\ tasks'[j] = tasks[j]
        /\ allowed'[i] = 0 /\ UNCHANGED engine
    BY <1>5 DEF Delete, TypeInv, TypeOK
  <2> QED
    BY <2>1, SpacingFreed
<1>6. ASSUME NEW r \in Requests, TriggerWrite(r) PROVE SpacingInv'
  <2>1. req[r].of.id \in Ids /\ req[r].of \in Copy
    BY <1>6, RequestWorkedOn, RequestIs DEF TriggerWrite, TypeInv
  <2>2. req[r].of.task.every \in Every \cup {Manual} /\ clock \in Nat
    BY <2>1, CopyIs, TaskIs, ClockIs DEF TypeInv
  <2>3. CASE /\ UpdateLastRun(req[r].of.id, clock, req[r].of.task.every)
             /\ allowed' = [allowed EXCEPT ![req[r].of.id] = 0]
    <3>1. /\ \A j \in Ids \ {req[r].of.id} : allowed'[j] = allowed[j] /\ tasks'[j] = tasks[j]
          /\ allowed'[req[r].of.id] = 0 /\ UNCHANGED engine
      BY <1>6, <2>1, <2>2, <2>3, UpdateLastRunIs DEF TriggerWrite, TypeInv, TypeOK
    <3> QED
      BY <2>1, <3>1, SpacingFreed
  <2>4. CASE UNCHANGED <<tasks, allowed>>
    BY <1>1, <1>6, <2>4 DEF TriggerWrite
  <2> QED
    BY <1>6, <2>3, <2>4 DEF TriggerWrite
<1>7. CASE Crash
  <2>1. /\ engine'.pc = "sleep" /\ engine'.list = <<>> /\ \A i \in Ids : allowed'[i] = 0
        /\ Created' = Created
    BY <1>7 DEF Crash, Asleep, Created
  <2>2. ~Busy'
    BY <2>1 DEF Busy
  <2> QED
    BY <2>1, <2>2 DEF SpacingInv
<1>8. CASE ListFails
  <2>1. /\ engine'.pc = "sleep" /\ engine'.list = <<>> /\ engine.pc = "list"
        /\ UNCHANGED <<tasks, allowed, created>>
    BY <1>8, AsleepIs DEF ListFails, store, TypeInv
  <2>2. ~Busy /\ ~Busy' /\ Created' = Created
    BY <2>1 DEF Busy, Created
  <2> QED
    BY <2>1, <2>2 DEF SpacingInv
<1>9. CASE RunPanics
  <2>1. /\ engine'.pc = "dead" /\ engine'.list = <<>> /\ engine.pc = "execute" /\ engine.list # <<>>
        /\ UNCHANGED <<tasks, created>>
    BY <1>9, AsleepIs DEF RunPanics, store, TypeInv, TypeOK
  <2>2. ~Busy' /\ Busy /\ Created' = Created
    BY <2>1 DEF Busy, Created
  <2>3. Reading.id \in Ids
    BY <2>1, ReadingWorkedOn
  <2>4. allowed'[Reading.id] = 0 /\ \A j \in Ids \ {Reading.id} : allowed'[j] = allowed[j]
    BY <1>9, <2>3 DEF RunPanics, TypeInv, TypeOK
  <2>5. \A j \in Ids : tasks'[j] # NoTask /\ allowed'[j] # 0 => tasks'[j].next = allowed'[j]
    BY <2>1, <2>4 DEF SpacingInv
  <2>6. \A j \in Ids \ Created' : allowed'[j] = 0
    BY <2>2, <2>4 DEF SpacingInv
  <2> QED
    BY <2>1, <2>2, <2>5, <2>6 DEF SpacingInv
<1> QED
  BY <1>1, <1>2, <1>3, <1>4, <1>5, <1>6, <1>7, <1>8, <1>9 DEF Next, Wake, Begin, EditFails, TriggerStep,
     TriggerStart, Spawn, TriggerEnd, TriggerPanics, Cancel, Tick, store, history, vars

(* The engine starts a run only of a copy whose next run has come.         *)
LEMMA StartsAreSpaced ==
    ASSUME TypeInv, SpacingInv, [Next]_vars, engine.pc = "check", engine'.pc = "execute"
    PROVE  engine.now >= allowed[Reading.id]
<1>1. StartRun
  <2>1. /\ ~WakeUp /\ ~List /\ ~ListFails /\ ~TakeTime /\ ~WriteRun /\ ~RunPanics
        /\ ~(\E status \in {"success", "failed"} : EndRun(status))
    BY DEF WakeUp, List, ListFails, TakeTime, WriteRun, RunPanics, EndRun
  <2>2. ~GoToSleep /\ ~Crash
    BY DEF GoToSleep, Crash, Asleep
  <2>3. ~Skip
    BY EngineIs DEF Skip, EngineType, TypeInv
  <2> QED
    BY <2>1, <2>2, <2>3 DEF Next, EngineStep, Create, Wake, Begin, Edit, EditFails, Delete,
       TriggerStep, TriggerStart, Spawn, TriggerEnd, TriggerPanics, TriggerWrite, Cancel, Tick, vars
<1>2. /\ engine.list # <<>> /\ Reading.task.next \in {Never} \cup 0..engine.now
      /\ engine.now \in Nat /\ ~Busy
  BY <1>1 DEF StartRun, IsDue, Busy, TypeInv, TypeOK
<1>3. Reading = engine.list[1] /\ 1 \in DOMAIN engine.list /\ Reading.id \in Ids
  BY <1>2, ReadingIs, CopyIs DEF TypeInv
<1>4. allowed[Reading.id] \in Nat
  BY <1>3, AllowedIs
<1>5. allowed[Reading.id] # 0 => Reading.task.next = allowed[Reading.id]
  BY <1>2, <1>3 DEF SpacingInv
<1>6. allowed[Reading.id] # Never
  BY <1>4, TaskSchedulerAssumption
<1> QED
  BY <1>2, <1>4, <1>5, <1>6

-----------------------------------------------------------------------------
(* The theorems *)

LEMMA InitInv == Init => AllInv
<1> SUFFICES ASSUME Init PROVE AllInv
  OBVIOUS
<1>1. Free.of.id \notin Ids /\ engine.list = <<>> /\ engine.pc = "sleep"
  BY TaskSchedulerAssumption DEF Init, Asleep, Free, NoCopy
<1>2. \A i \in Ids : ~WorkedOn(i)
  BY <1>1 DEF Init, WorkedOn
<1>3. CreatedInv /\ GoneInv
  BY <1>2 DEF Init, CreatedInv, GoneInv
<1>4. ListOnce
  BY <1>1 DEF Init, ListOnce
<1>5. SpacingInv
  BY <1>1 DEF Init, SpacingInv, Busy
<1> QED
  BY <1>3, <1>4, <1>5, InitType DEF AllInv

LEMMA InvInductive == AllInv /\ [Next]_vars => AllInv'
BY TypeInductive, CreatedInductive, GoneInductive, ListInductive, SpacingInductive DEF AllInv

LEMMA InvHolds == Spec => []AllInv
BY InitInv, InvInductive, PTL DEF Spec

(* Every variable has its type, and the engine has a task while it          *)
(* executes (SchedulerEngine::check_and_run).                              *)
THEOREM SchedulerTypeCorrect == Spec => []TypeOK
<1>1. AllInv => TypeOK
  BY DEF AllInv, TypeInv
<1> QED
  BY <1>1, InvHolds, PTL

(* Whatever writes fail, an execution that its row calls running is being   *)
(* executed or about to be spawned, until its end cannot be recorded, its   *)
(* executor panics, its trigger is dropped before the spawn or the process  *)
(* dies (check_and_run, trigger_task).                                     *)
THEOREM ExecutionsAreOwned == Spec => []RunningIsOwned
<1>1. Init => RunningIsOwned
  BY DEF Init, RunningIsOwned
<1>2. AllInv /\ RunningIsOwned /\ [Next]_vars => RunningIsOwned'
  BY OwnedInductive DEF AllInv
<1> QED
  BY <1>1, <1>2, InvHolds, PTL DEF Spec

(* A creation or an edit that was answered and that the engine has not read *)
(* has left a permit, unless the engine is about to list the tasks, however *)
(* many requests run (SchedulerEngine::wake, run_loop).                    *)
THEOREM WakeUpsAreKept == Spec => []ChangesAreSignalled
<1>1. Init => ChangesAreSignalled
  BY DEF Init, ChangesAreSignalled
<1>2. AllInv /\ ChangesAreSignalled /\ [Next]_vars => ChangesAreSignalled'
  BY SignalInductive DEF AllInv
<1> QED
  BY <1>1, <1>2, InvHolds, PTL DEF Spec

(* A task that was deleted while nobody worked on it stays deleted, with    *)
(* its executions (TaskStore::delete_task).                                *)
THEOREM DeletedStaysDeleted == Spec => []QuietDeletionsHold
<1>1. AllInv => QuietDeletionsHold
  BY DEF AllInv, GoneInv, QuietDeletionsHold
<1> QED
  BY <1>1, InvHolds, PTL

(* The times the engine takes for the runs of a task are its interval       *)
(* apart, as long as the task was not edited, triggered or deleted in       *)
(* between, its last run could be written and the engine lived              *)
(* (check_and_run).                                                        *)
THEOREM RunTimesAreKept == Spec => RunTimesAreSpaced
<1>1. AllInv /\ [Next]_vars =>
        [engine.pc = "check" /\ engine'.pc = "execute" => engine.now >= allowed[Reading.id]]_vars
  BY StartsAreSpaced DEF AllInv
<1> QED
  BY <1>1, InvHolds, PTL DEF Spec, RunTimesAreSpaced

=============================================================================
