----------------------------- MODULE ModelPool -----------------------------
(***************************************************************************)
(* The model pool (umms-model): ModelPool routes a task to a provider and    *)
(* records a trace of each call, GeminiProvider cuts a batch into chunks and  *)
(* sends each one, again while the service is overloaded, and counts what it  *)
(* does in atomic counters of its own.  The service is external: an attempt has any of   *)
(* its outcomes.  Callers run at the same time and may be dropped at any      *)
(* await, with the connection they serve.                                    *)
(***************************************************************************)
EXTENDS Integers, Sequences, SequencesExt, FiniteSets, Ranking

CONSTANTS
    Callers,
    Providers, NoProvider,
    Route,          \* ModelPoolConfig::routing: the provider of each model task
    BatchSize,      \* max_batch_size
    MaxRetries,
    MaxTraces,      \* ModelPoolConfig::trace_max_size
    Service         \* which of "busy", "refused", "garbled", "dimension", "short" it answers

ModelTasks == {"embedding", "generation", "chat"}
TasksOf(p) == {task \in ModelTasks : Route[task] = p}

ASSUME ModelPoolAssumption ==
    /\ Route \in [ModelTasks -> Providers \cup {NoProvider}] /\ NoProvider \notin Providers
    /\ {BatchSize, MaxTraces} \subseteq Nat \ {0} /\ MaxRetries \in Nat
    /\ Service \subseteq {"busy", "refused", "garbled", "dimension", "short"}

VARIABLES
    requests, errors, retries,      \* EncoderStats of each provider
    traces,                         \* TraceStore: [id, task, ok], the oldest first
    call,                           \* the call each caller is making
    finished,                       \* history: tasks and outcomes of the calls that ended
    cleared                         \* history: calls ended when the traces were cleared

poolVars == <<requests, errors, retries, traces, call, finished, cleared>>

NoCall == [pc |-> "none"]

(* What a call sends is numbered; `done' is what it got back, in order, as    *)
(* vectors of those texts, `sent' counts the chunks.  A batch is of the task   *)
(* "embedding" too.                                                          *)
CallType ==
    {NoCall} \cup
    [pc : {"attempt", "succeed", "fail"}, task : ModelTasks, batch : BOOLEAN, texts : Nat,
     done : Seq(Nat), sent : Nat, attempt : 0..MaxRetries, short : BOOLEAN]

PoolTypeOK ==
    /\ {requests, errors, retries} \subseteq [Providers -> Nat] /\ cleared \in Nat
    /\ traces \in Seq([id : Nat, task : ModelTasks, ok : BOOLEAN]) /\ Len(traces) <= MaxTraces
    /\ call \in [Callers -> CallType]
    /\ finished \in Seq([task : ModelTasks, ok : BOOLEAN])

Unused == [p \in Providers |-> 0]
PoolInit ==
    /\ requests = Unused /\ errors = Unused /\ retries = Unused
    /\ traces = <<>> /\ finished = <<>> /\ cleared = 0
    /\ call = [c \in Callers |-> NoCall]

Calls(c, r) == call' = [call EXCEPT ![c] = r]
ProviderOf(c) == Route[call[c].task]
Count(counter, p) == [counter EXCEPT ![p] = @ + 1]

(* A task without a provider fails at once, uncounted and untraced.           *)
Unrouted(task) == Route[task] = NoProvider

(* An empty batch is answered without a request; it leaves a trace too.       *)
StartCall(c, task, batch, n) ==
    /\ call[c] = NoCall /\ ~Unrouted(task)
    /\ requests' = IF n = 0 THEN requests ELSE Count(requests, Route[task])
    /\ Calls(c, [pc |-> IF n = 0 THEN "succeed" ELSE "attempt", task |-> task, batch |-> batch,
                 texts |-> n, done |-> <<>>, sent |-> 0, attempt |-> 0, short |-> FALSE])
    /\ UNCHANGED <<errors, retries, traces, finished, cleared>>

-----------------------------------------------------------------------------
(* call_embed_single, call_embed_batch, call_generate: one attempt           *)

LeastOf(m, n) == IF m < n THEN m ELSE n

(* The texts of the chunk being sent; a batch goes on after BatchSize more.    *)
FirstOf(c) == call[c].sent * BatchSize + 1
LastOf(c) == LeastOf(FirstOf(c) + BatchSize - 1, call[c].texts)
Chunk(c) == [k \in 1..(LastOf(c) - FirstOf(c) + 1) |-> FirstOf(c) + k - 1]

Received(c, vectors, short) ==
    Calls(c, [call[c] EXCEPT !.done = @ \o vectors, !.sent = @ + 1, !.attempt = 0,
                 !.pc = IF LastOf(c) = call[c].texts THEN "succeed" ELSE "attempt",
                 !.short = @ \/ short])

Answer(c) ==
    /\ call[c].pc = "attempt"
    /\ Received(c, Chunk(c), FALSE)
    /\ UNCHANGED <<requests, errors, retries, traces, finished, cleared>>

(* The number of vectors in an answer is never compared with the texts'.       *)
AnswerShort(c) ==
    /\ call[c].pc = "attempt" /\ call[c].batch /\ "short" \in Service
    /\ Received(c, Front(Chunk(c)), TRUE)
    /\ UNCHANGED <<requests, errors, retries, traces, finished, cleared>>

Failing(c) == Calls(c, [call[c] EXCEPT !.pc = "fail"])

(* A mutant: what was received is received again with the retried chunk.       *)
BusyRepeats(c) ==
    /\ call[c].pc = "attempt" /\ "busy" \in Service
    /\ IF call[c].attempt < MaxRetries
       THEN /\ Calls(c, [call[c] EXCEPT !.attempt = @ + 1, !.done = @ \o Chunk(c)])
            /\ retries' = Count(retries, ProviderOf(c)) /\ UNCHANGED errors
       ELSE Failing(c) /\ errors' = Count(errors, ProviderOf(c)) /\ UNCHANGED retries
    /\ UNCHANGED <<requests, traces, finished, cleared>>

(* 429, 5xx, a time-out or a lost connection: again, until no attempt is left.  *)
Busy(c) ==
    /\ call[c].pc = "attempt" /\ "busy" \in Service
    /\ \/ /\ call[c].attempt < MaxRetries
          /\ Calls(c, [call[c] EXCEPT !.attempt = @ + 1])
          /\ retries' = Count(retries, ProviderOf(c)) /\ UNCHANGED errors
       \/ /\ call[c].attempt = MaxRetries
          /\ Failing(c) /\ errors' = Count(errors, ProviderOf(c)) /\ UNCHANGED retries
    /\ UNCHANGED <<requests, traces, finished, cleared>>

(* Any other status ends the call and is counted.                             *)
Refuse(c) ==
    /\ call[c].pc = "attempt" /\ "refused" \in Service
    /\ Failing(c) /\ errors' = Count(errors, ProviderOf(c))
    /\ UNCHANGED <<requests, retries, traces, finished, cleared>>

(* An answer that cannot be parsed, or a vector of the wrong dimension, fails    *)
(* the call and is not counted as an error.                                   *)
Garble(c) ==
    /\ call[c].pc = "attempt"
    /\ "garbled" \in Service \/ ("dimension" \in Service /\ call[c].task = "embedding")
    /\ Failing(c)
    /\ UNCHANGED <<requests, errors, retries, traces, finished, cleared>>

-----------------------------------------------------------------------------
(* TraceStore::record().                                                     *)
Recorded(task, ok) ==
    Append(IF Len(traces) >= MaxTraces THEN Tail(traces) ELSE traces,
           [id |-> Len(finished) + 1, task |-> task, ok |-> ok])

(* The call returns to its caller, traced, with what it got.                   *)
Return(c, ok) ==
    /\ call[c].pc = IF ok THEN "succeed" ELSE "fail"
    /\ traces' = Recorded(call[c].task, ok)
    /\ finished' = Append(finished, [task |-> call[c].task, ok |-> ok])
    /\ Calls(c, NoCall)
    /\ UNCHANGED <<requests, errors, retries, cleared>>

(* traces(), traces_by_model() and traces_by_task(): the newest first.         *)
Listed(tasks, limit) ==
    LET own == {k \in DOMAIN traces : traces[k].task \in tasks}
        newest == Ranked(own, Descending(own))
    IN  [n \in 1..LeastOf(limit, Cardinality(own)) |-> traces[newest[n]]]

(* TraceStore::summary(): counts over the whole ring, and for each model and task  *)
(* in it.                                                                    *)
Tally(tasks) ==
    LET of == {k \in DOMAIN traces : traces[k].task \in tasks}
    IN  [count |-> Cardinality(of), errors |-> Cardinality({k \in of : ~traces[k].ok})]

Summary ==
    [total |-> Tally(ModelTasks),
     by_model |-> [p \in {Route[traces[k].task] : k \in DOMAIN traces} |-> Tally(TasksOf(p))],
     by_task |-> [t \in {traces[k].task : k \in DOMAIN traces} |-> Tally({t})]]

(* A caller that goes away takes its call with it: no trace, no error.         *)
Dropped(c) ==
    /\ Calls(c, NoCall)
    /\ UNCHANGED <<requests, errors, retries, traces, finished, cleared>>

ClearTraces ==
    /\ traces # <<>>
    /\ traces' = <<>> /\ cleared' = Len(finished)
    /\ UNCHANGED <<requests, errors, retries, call, finished>>

(* The counters and the traces are in memory.                                 *)
PoolRestart ==
    /\ requests' = Unused /\ errors' = Unused /\ retries' = Unused
    /\ traces' = <<>> /\ finished' = <<>> /\ cleared' = 0
    /\ call' = [c \in Callers |-> NoCall]

PoolStep ==
    \/ \E c \in Callers : Answer(c) \/ AnswerShort(c) \/ Busy(c) \/ Refuse(c) \/ Garble(c)
    \/ ClearTraces

-----------------------------------------------------------------------------
(* A batch that succeeds has the vector of its n-th text in its n-th place,     *)
(* whichever chunks were sent again, provided no answer was short             *)
(* (embed_batch's callers pair texts and vectors by position).                 *)
BatchAligned ==
    \A c \in Callers : call[c].pc = "succeed" /\ ~call[c].short =>
        call[c].done = [k \in 1..call[c].texts |-> k]

(* A provider counts an error for no call of another, nor for one that has not   *)
(* failed and is not about to, and no call that reached it is missing from its   *)
(* requests: the error rate of the dashboard is at most 1.                     *)
ErrorsAreFailures ==
    \A p \in Providers :
        LET Failures == {k \in DOMAIN finished : ~finished[k].ok /\ finished[k].task \in TasksOf(p)}
            Underway == {c \in Callers : call[c] # NoCall /\ call[c].texts > 0 /\ call[c].task \in TasksOf(p)}
            FailingNow == {c \in Underway : call[c].pc = "fail"}
        IN  /\ errors[p] <= Cardinality(Failures) + Cardinality(FailingNow)
            /\ Cardinality(Failures) + Cardinality(Underway) <= requests[p]

(* A listing shows the newest of these ended calls, as many as it asks for, in  *)
(* the order they ended.                                                        *)
ShowsNewest(list, ended, limit) ==
    LET Newer(k) == {j \in ended : j > k}
    IN  /\ {list[k].id : k \in DOMAIN list} = {k \in ended : Cardinality(Newer(k)) < limit}
        /\ \A k \in DOMAIN list : /\ list[k].ok = finished[list[k].id].ok
                                  /\ k > 1 => list[k].id < list[k - 1].id

(* A listing gives the newest of the calls it asks for among the last MaxTraces  *)
(* that ended since the ring was cleared, in the order they ended, and as many    *)
(* as it asks for; the summary counts each of them once.                        *)
TracesAreNewest ==
    LET n == Len(finished)
        kept == {k \in (cleared + 1)..n : k > n - MaxTraces}
        Of(tasks) == {k \in kept : finished[k].task \in tasks}
        used == {Route[finished[k].task] : k \in kept}
        queries == {{finished[k].task} : k \in kept} \cup {TasksOf(p) : p \in used} \cup {ModelTasks}
    IN  /\ \A tasks \in queries, limit \in 1..MaxTraces :
              ShowsNewest(Listed(tasks, limit), Of(tasks), limit)
        /\ LET Ended(tasks) == [count |-> Cardinality(Of(tasks)),
                                errors |-> Cardinality({k \in Of(tasks) : ~finished[k].ok})]
           IN  Summary = [total |-> Ended(ModelTasks),
                          by_model |-> [p \in used |-> Ended(TasksOf(p))],
                          by_task |-> [t \in {finished[k].task : k \in kept} |-> Ended({t})]]

(* Vectors stay beside their texts, and the counters and the ring say what     *)
(* happened, whatever the service answers and whichever callers go away.       *)
PoolIsFaithful == BatchAligned /\ ErrorsAreFailures /\ TracesAreNewest

=============================================================================
