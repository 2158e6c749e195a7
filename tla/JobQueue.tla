------------------------------ MODULE JobQueue ------------------------------
(***************************************************************************)
(* The asynchronous job queue of gateway_core_jobs: a table of JobMax job  *)
(* slots guarded by one mutex, a FreeRTOS queue of job ids, client tasks   *)
(* that submit and poll, and one worker task that runs the jobs in turn.   *)
(*                                                                         *)
(* A critical section of handle->mutex is one action.  The two places      *)
(* where the code leaves the mutex in the middle of an operation are       *)
(* steps of their own: a client sends the id after it has released the     *)
(* mutex, and the worker executes the job between two critical sections.   *)
(***************************************************************************)
EXTENDS Integers, Sequences, FiniteSets

CONSTANTS
    Client,       \* tasks that call job_queue_submit
    Request,      \* the (type, reboot delay) pairs that clients submit
    JobMax,       \* ZGW_JOB_MAX, the number of slots
    TTL,          \* ZGW_JOB_COMPLETED_TTL_MS, in clock ticks
    IdMax,        \* UINT32_MAX, the last id before next_id wraps
    SubmitBound,  \* bound: jobs that got a slot since boot
    ReuseBound,   \* bound: submissions answered with a job in flight
    MaxClock      \* bound: clock ticks since boot

JobType == {"WIFI_SCAN", "FACTORY_RESET", "REBOOT", "UPDATE", "LQI_REFRESH"}

ASSUME JobQueueAssumption ==
    /\ Request \subseteq [type : JobType, delay : Nat]
    /\ JobMax \in Nat \ {0}
    /\ TTL \in Nat
    /\ IdMax \in Nat \ {0}
    /\ SubmitBound \in 0..IdMax
    /\ ReuseBound \in Nat
    /\ MaxClock \in Nat

VARIABLES
    jobs,         \* the slot table
    next_id,      \* the id the next accepted job gets
    job_q,        \* ids sent to the worker and not yet received
    client,       \* a client's place in job_queue_submit
    worker,       \* the worker's place in execute_job
    metrics,      \* the counters of zgw_job_metrics_t
    lqi_events,   \* LQI_STATE_CHANGED events waiting in the event loop
    now,          \* job_queue_now_ms()
    accepted,     \* history: ids some client was told ESP_OK for
    finished      \* history: ids the worker has completed

vars == <<jobs, next_id, job_q, client, worker, metrics, lqi_events, now,
          accepted, finished>>

-----------------------------------------------------------------------------
(* The slot table.                                                         *)

Slot     == 0 .. JobMax - 1
Id       == 1 .. IdMax
UInt32   == 0 .. IdMax
JobState == {"QUEUED", "RUNNING", "SUCCEEDED", "FAILED"}
\* Mutant: a queue one entry shorter than the table.
QueueCapShort == JobMax - 1
QueueCap == JobMax

\* A slot after memset(0): the zero values of the two enums.
NoJob == [used |-> FALSE, id |-> 0, type |-> "WIFI_SCAN", delay |-> 0,
          state |-> "QUEUED", updated |-> 0]

Job == [used : BOOLEAN, id : UInt32, type : JobType, delay : Nat,
        state : JobState, updated : Nat]

InFlight(j)  == j.used /\ j.state \in {"QUEUED", "RUNNING"}
Completed(j) == j.used /\ j.state \in {"SUCCEEDED", "FAILED"}

\* Slot i is the one job_queue_find_slot_index_by_id returns for id.
Finds(js, id, i) ==
    /\ js[i].used /\ js[i].id = id
    /\ \A k \in 0 .. i - 1 : ~(js[k].used /\ js[k].id = id)

Missing(js, id) == \A i \in Slot : ~(js[i].used /\ js[i].id = id)

\* The single-flight rule: same type, and for a reboot the same delay.
SameJob(j, r) ==
    /\ j.type = r.type
    /\ r.type = "REBOOT" => j.delay = r.delay

\* Slot i is the one job_queue_find_inflight_slot_index returns for r.
FindsInFlight(js, r, i) ==
    /\ InFlight(js[i]) /\ SameJob(js[i], r)
    /\ \A k \in 0 .. i - 1 : ~(InFlight(js[k]) /\ SameJob(js[k], r))

\* Mutant: only a job that still waits counts as in flight.
NoneQueued(js, r) ==
    \A i \in Slot : ~(InFlight(js[i]) /\ js[i].state = "QUEUED" /\ SameJob(js[i], r))
NoneInFlight(js, r) == \A i \in Slot : ~(InFlight(js[i]) /\ SameJob(js[i], r))

Expired(j) == Completed(j) /\ now >= j.updated /\ now - j.updated >= TTL

Pruned(js) == [i \in Slot |-> IF Expired(js[i]) THEN NoJob ELSE js[i]]

\* Mutants: eviction without the test of the state, and of the newest result.
AllocatesAnyState(js, i) ==
    \/ ~js[i].used /\ \A k \in 0 .. i - 1 : js[k].used
    \/ /\ \A k \in Slot : js[k].used
       /\ \A k \in Slot : js[i].updated <= js[k].updated

AllocatesNewest(js, i) ==
    \/ ~js[i].used /\ \A k \in 0 .. i - 1 : js[k].used
    \/ /\ \A k \in Slot : js[k].used
       /\ Completed(js[i])
       /\ \A k \in Slot : Completed(js[k]) => js[i].updated >= js[k].updated

\* Slot i is the one job_queue_alloc_slot_index returns: the first unused
\* slot, or else the completed job updated longest ago (the last such slot).
Allocates(js, i) ==
    \/ /\ ~js[i].used
       /\ \A k \in 0 .. i - 1 : js[k].used
    \/ /\ \A k \in Slot : js[k].used
       /\ Completed(js[i])
       /\ \A k \in Slot : Completed(js[k]) =>
             /\ js[i].updated <= js[k].updated
             /\ js[i].updated = js[k].updated => k <= i

\* A slot whose job enters a state now.
Entered(j, state) == [j EXCEPT !.state = state, !.updated = now]

NoSlot(js) == \A i \in Slot : InFlight(js[i])

\* Mutant: the depth without the running job.
QueuedDepth(js) == Cardinality({i \in Slot : js[i].used /\ js[i].state = "QUEUED"})

InflightDepth(js) == Cardinality({i \in Slot : InFlight(js[i])})

\* Mutants: the id is not advanced; it wraps to the invalid id 0.
IdNotAdvanced(id) == id
IdWrapsToZero(id) == IF id = IdMax THEN 0 ELSE id + 1

\* next_id++ on a uint32_t that skips 0.
IdAfter(id) == IF id = IdMax THEN 1 ELSE id + 1

-----------------------------------------------------------------------------
ClientPlace == [pc : {"idle", "send"}, id : UInt32, idx : Slot]
WorkerPlace == [pc : {"idle", "begin", "run", "notify"}, id : UInt32, type : JobType]

\* The counters of zgw_job_metrics_t, without the latency percentile.
Metrics == [submitted : 0 .. SubmitBound, dedup : 0 .. ReuseBound,
            completed : Nat, failed : Nat, depth : Nat, peak : Nat]

AtRest == [pc |-> "idle", id |-> 0, idx |-> 0]
Resting == [pc |-> "idle", id |-> 0, type |-> "WIFI_SCAN"]

Init ==
    /\ jobs = [i \in Slot |-> NoJob]
    /\ next_id = 1
    /\ job_q = <<>>
    /\ client = [c \in Client |-> AtRest]
    /\ worker = Resting
    /\ metrics = [submitted |-> 0, dedup |-> 0, completed |-> 0, failed |-> 0,
                  depth |-> 0, peak |-> 0]
    /\ lqi_events = 0
    /\ now = 0
    /\ accepted = {}
    /\ finished = {}

(***************************************************************************)
(* job_queue_submit, the critical section: prune, then one of three ways.  *)
(***************************************************************************)

\* The job is already queued or running: the client gets the same id.
SubmitReuse(c, r) ==
    /\ client[c].pc = "idle"
    /\ metrics.dedup < ReuseBound
    /\ \E i \in Slot :
         /\ FindsInFlight(Pruned(jobs), r, i)
         /\ accepted' = accepted \cup {jobs[i].id}
    /\ jobs' = Pruned(jobs)
    /\ metrics' = [metrics EXCEPT !.dedup = @ + 1]
    /\ UNCHANGED <<next_id, job_q, client, worker, lqi_events, now, finished>>

\* A slot is filled; the id goes to the worker in SubmitSend.
NewJob(r) == [used |-> TRUE, id |-> next_id, type |-> r.type, delay |-> r.delay,
              state |-> "QUEUED", updated |-> now]

SubmitNew(c, r) ==
    /\ client[c].pc = "idle"
    /\ metrics.submitted < SubmitBound
    /\ NoneInFlight(Pruned(jobs), r)
    /\ \E i \in Slot :
         /\ Allocates(Pruned(jobs), i)
         /\ jobs' = [Pruned(jobs) EXCEPT ![i] = NewJob(r)]
         /\ client' = [client EXCEPT ![c] =
                         [pc |-> "send", id |-> next_id, idx |-> i]]
    /\ next_id' = IdAfter(next_id)
    /\ LET depth == InflightDepth(jobs')
       IN  metrics' = [metrics EXCEPT !.submitted = @ + 1, !.depth = depth,
                         !.peak = IF depth > @ THEN depth ELSE @]
    /\ UNCHANGED <<job_q, worker, lqi_events, now, accepted, finished>>

\* Every slot is in flight: ESP_ERR_NO_MEM, but the table has been pruned.
SubmitNoSlot(c, r) ==
    /\ client[c].pc = "idle"
    /\ NoneInFlight(Pruned(jobs), r)
    /\ NoSlot(Pruned(jobs))
    /\ jobs' = Pruned(jobs)
    /\ UNCHANGED <<next_id, job_q, client, worker, metrics, lqi_events, now,
                   accepted, finished>>

Released(j) == [j EXCEPT !.used = FALSE]

\* xQueueSend with no wait, after the mutex was released; a full queue takes
\* the slot back and the client gets ESP_ERR_NO_MEM.
SubmitSend(c) ==
    /\ client[c].pc = "send"
    /\ IF Len(job_q) < QueueCap
       THEN /\ job_q' = Append(job_q, client[c].id)
            /\ accepted' = accepted \cup {client[c].id}
            /\ UNCHANGED jobs
       ELSE /\ jobs' = [jobs EXCEPT ![client[c].idx] = Released(@)]
            /\ UNCHANGED <<job_q, accepted>>
    /\ client' = [client EXCEPT ![c] = AtRest]
    /\ UNCHANGED <<next_id, worker, metrics, lqi_events, now, finished>>

\* What job_queue_get answers for an id.
JobGet(id) ==
    IF Missing(jobs, id) THEN "NOT_FOUND"
    ELSE jobs[CHOOSE i \in Slot : Finds(jobs, id, i)].state

\* job_queue_get_metrics refreshes the current depth.
GetMetrics ==
    /\ metrics' = [metrics EXCEPT !.depth = InflightDepth(jobs)]
    /\ UNCHANGED <<jobs, next_id, job_q, client, worker, lqi_events, now,
                   accepted, finished>>

(***************************************************************************)
(* job_queue_worker_task and execute_job.                                  *)
(***************************************************************************)
\* Mutant: the worker looks at the queue without taking the id.
WorkerPeek ==
    /\ worker.pc = "idle"
    /\ job_q # <<>>
    /\ worker' = [worker EXCEPT !.pc = "begin", !.id = Head(job_q)]
    /\ UNCHANGED <<jobs, next_id, job_q, client, metrics, lqi_events, now,
                   accepted, finished>>

WorkerReceive ==
    /\ worker.pc = "idle"
    /\ job_q # <<>>
    /\ worker' = [worker EXCEPT !.pc = "begin", !.id = Head(job_q)]
    /\ job_q' = Tail(job_q)
    /\ UNCHANGED <<jobs, next_id, client, metrics, lqi_events, now, accepted,
                   finished>>

\* First critical section; an id without a slot is dropped.
WorkerBegin ==
    /\ worker.pc = "begin"
    /\ IF Missing(jobs, worker.id)
       THEN worker' = Resting /\ UNCHANGED jobs
       ELSE \E i \in Slot :
              /\ Finds(jobs, worker.id, i)
              /\ jobs' = [jobs EXCEPT ![i] = Entered(@, "RUNNING")]
              /\ worker' = [worker EXCEPT !.pc = "run", !.type = jobs[i].type]
    /\ UNCHANGED <<next_id, job_q, client, metrics, lqi_events, now, accepted,
                   finished>>

\* What job_queue_policy_execute makes of a job: any error is a failure.
Outcome == {"SUCCEEDED", "FAILED"}

\* job_queue_policy_execute has returned; second critical section.
WorkerFinish(outcome) ==
    /\ worker.pc = "run"
    /\ IF Missing(jobs, worker.id)
       THEN UNCHANGED <<jobs, metrics, finished>>
       ELSE \E i \in Slot :
              /\ Finds(jobs, worker.id, i)
              /\ jobs' = [jobs EXCEPT ![i] = Entered(@, outcome)]
              /\ metrics' = IF outcome = "SUCCEEDED"
                            THEN [metrics EXCEPT !.completed = @ + 1]
                            ELSE [metrics EXCEPT !.failed = @ + 1]
              /\ finished' = finished \cup {worker.id}
    /\ worker' = IF outcome = "SUCCEEDED" /\ worker.type = "LQI_REFRESH"
                 THEN [worker EXCEPT !.pc = "notify"] ELSE Resting
    /\ UNCHANGED <<next_id, job_q, client, lqi_events, now, accepted>>

\* esp_event_post with no wait: the event is lost when the loop's queue,
\* which other sources fill too, has no room.
WorkerNotify ==
    /\ worker.pc = "notify"
    /\ lqi_events' \in {lqi_events, lqi_events + 1}
    /\ worker' = Resting
    /\ UNCHANGED <<jobs, next_id, job_q, client, metrics, now, accepted,
                   finished>>

LqiEventDelivered ==
    /\ lqi_events > 0
    /\ lqi_events' = lqi_events - 1
    /\ UNCHANGED <<jobs, next_id, job_q, client, worker, metrics, now, accepted,
                   finished>>

Tick ==
    /\ now < MaxClock
    /\ now' = now + 1
    /\ UNCHANGED <<jobs, next_id, job_q, client, worker, metrics, lqi_events,
                   accepted, finished>>

Submit(c, r) == SubmitReuse(c, r) \/ SubmitNew(c, r) \/ SubmitNoSlot(c, r)

Worker ==
    \/ WorkerReceive
    \/ WorkerBegin
    \/ \E outcome \in Outcome : WorkerFinish(outcome)
    \/ WorkerNotify

Next ==
    \/ \E c \in Client, r \in Request : Submit(c, r)
    \/ \E c \in Client : SubmitSend(c)
    \/ GetMetrics
    \/ Worker
    \/ LqiEventDelivered
    \/ Tick

Spec == Init /\ [][Next]_vars

\* A client that has filled a slot runs on to its xQueueSend, and the worker
\* task never stops: every call of job_queue_policy_execute returns.
Fairness == WF_vars(Worker) /\ \A c \in Client : WF_vars(SubmitSend(c))

FairSpec == Spec /\ Fairness

-----------------------------------------------------------------------------
(* Properties.                                                             *)

\* Every variable keeps its C type (the type invariant of the module).
TypeOK ==
    /\ jobs \in [Slot -> Job]
    /\ next_id \in Id
    /\ job_q \in Seq(UInt32)
    /\ client \in [Client -> ClientPlace]
    /\ worker \in WorkerPlace
    /\ metrics \in Metrics
    /\ lqi_events \in Nat
    /\ now \in 0 .. MaxClock
    /\ accepted \subseteq UInt32
    /\ finished \subseteq UInt32

\* Where an id that waits for the worker may be: with a client about to send
\* it, in the FreeRTOS queue, or in the worker's hand before execute_job.
InHand(c, id)    == client[c].pc = "send" /\ client[c].id = id
InQueue(id)      == \E k \in 1 .. Len(job_q) : job_q[k] = id
WorkerHolds(id)  == worker.pc = "begin" /\ worker.id = id
WorkerRuns(id)   == worker.pc = "run" /\ worker.id = id

\* A slot in flight is always on its way: a QUEUED job's id is with its
\* client, in the queue or with the worker, and a RUNNING job is the one the
\* worker executes, so none is stranded (submit, worker loop, execute_job).
NoStrandedJob ==
    \A i \in Slot : InFlight(jobs[i]) =>
        IF jobs[i].state = "RUNNING" THEN WorkerRuns(jobs[i].id)
        ELSE \/ \E c \in Client : InHand(c, jobs[i].id)
             \/ InQueue(jobs[i].id)
             \/ WorkerHolds(jobs[i].id)

\* The send that follows the critical section never finds the queue full,
\* so the rollback of job_queue_submit, after which a client that reused the
\* id would be left without a job, is never taken.
SendNeverFails == \A c \in Client : client[c].pc = "send" => Len(job_q) < QueueCap

\* An id a client was given stays pollable until its job has completed: no
\* prune, eviction or rollback takes a live job from under a client.
AcceptedNotLost ==
    \A id \in accepted \ finished : JobGet(id) \in {"QUEUED", "RUNNING"}

\* At most one job per type (per type and delay for a reboot) is in flight.
SingleFlight ==
    \A i, k \in Slot :
        InFlight(jobs[i]) /\ InFlight(jobs[k]) /\ SameJob(jobs[k], jobs[i]) => i = k

\* The counters account for every job: submitted = completed + failed + in
\* flight, and the peak is never below the depth a poll would report.
MetricsBalance ==
    /\ metrics.submitted = metrics.completed + metrics.failed + InflightDepth(jobs)
    /\ InflightDepth(jobs) <= metrics.peak
    /\ metrics.depth <= metrics.peak

\* What a step may do to a slot that becomes running or completed.
RunsOnce ==
    \A i \in Slot :
        /\ jobs'[i].used /\ jobs'[i].state = "RUNNING" /\ jobs'[i] # jobs[i] =>
               jobs[i].state = "QUEUED" /\ jobs[i].id \notin finished
        /\ Completed(jobs'[i]) /\ jobs'[i] # jobs[i] =>
               jobs[i].state = "RUNNING" /\ jobs[i].id = worker.id

\* A job is executed at most once: the worker starts only a job that is
\* queued and has never completed, and only the running job completes.
ExecutedOnce == [][RunsOnce]_vars

\* A completed result leaves the table only when its TTL has passed, or when
\* every slot is taken and none holds a result that is expired or older.
ResultKept ==
    [][\A i \in Slot :
         Completed(jobs[i]) /\ ~(jobs'[i].used /\ jobs'[i].id = jobs[i].id) =>
            \/ Expired(jobs[i])
            \/ \A k \in Slot :
                 /\ jobs[k].used /\ ~Expired(jobs[k])
                 /\ Completed(jobs[k]) => jobs[i].updated <= jobs[k].updated]_vars

\* Every id a client was given is completed in the end.
AcceptedCompletes ==
    \A id \in 1 .. SubmitBound : id \in accepted ~> id \in finished
-----------------------------------------------------------------------------
(***************************************************************************)
(* The queue implements the single-flight service of module JobService:    *)
(* what a client can learn by polling an id is the service's status.       *)
(***************************************************************************)
KindOf(j) == [type |-> j.type, delay |-> IF j.type = "REBOOT" THEN j.delay ELSE 0]

Holds(i, id) == jobs[i].used /\ jobs[i].id = id

ServiceStatus ==
    [id \in Id |->
        IF \E i \in Slot : Holds(i, id) /\ jobs[i].state = "RUNNING" THEN "running"
        ELSE IF \E i \in Slot : Holds(i, id) /\ jobs[i].state = "QUEUED" THEN "waiting"
        ELSE IF \E i \in Slot : Holds(i, id) THEN "done"
        ELSE "unknown"]

NoKind == [type |-> "none", delay |-> 0]

ServiceKind ==
    [id \in Id |->
        IF \E i \in Slot : Holds(i, id) /\ InFlight(jobs[i])
        THEN KindOf(jobs[CHOOSE i \in Slot : Holds(i, id) /\ InFlight(jobs[i])])
        ELSE NoKind]

Service == INSTANCE JobService WITH
    Kind <- {KindOf(r) : r \in Request},
    status <- ServiceStatus,
    kind <- ServiceKind

\* Every step of the queue is a step of the service or leaves it unchanged; with
\* a worker that runs and clients that send, every job is run.
ImplementsFairService == Service!FairSpec
-----------------------------------------------------------------------------
(***************************************************************************)
(* The inductive invariant behind the safety properties: an id has one     *)
(* slot, and a queued job's id is in exactly one hand on its way to the    *)
(* worker.                                                                 *)
(***************************************************************************)
QueuedSlot(i, id) == jobs[i].used /\ jobs[i].id = id /\ jobs[i].state = "QUEUED"

\* Ids are given out in order, none beyond the last one given out is in use.
IdsIssued ==
    /\ next_id = IF metrics.submitted = IdMax THEN 1 ELSE metrics.submitted + 1
    /\ \A i \in Slot : jobs[i].used => jobs[i].id \in 1 .. metrics.submitted
    /\ accepted \cup finished \subseteq 1 .. metrics.submitted

\* No two slots in use carry the same id.
OneSlotPerId ==
    \A i, k \in Slot : jobs[i].used /\ jobs[k].used /\ jobs[i].id = jobs[k].id => i = k

\* Every id on its way to the worker is that of a queued job, and the worker
\* runs the one job that is RUNNING.
HandsHoldQueued ==
    /\ \A c \in Client : client[c].pc = "send" => QueuedSlot(client[c].idx, client[c].id)
    /\ \A n \in 1 .. Len(job_q) : \E i \in Slot : QueuedSlot(i, job_q[n])
    /\ worker.pc = "begin" => \E i \in Slot : QueuedSlot(i, worker.id)
    /\ worker.pc = "run" =>
          \E i \in Slot : Holds(i, worker.id) /\ jobs[i].state = "RUNNING"

\* No id is in two hands, or twice in the queue.
OneHand ==
    /\ \A c, d \in Client : InHand(c, client[d].id) /\ client[d].pc = "send" => c = d
    /\ \A c \in Client : client[c].pc = "send" =>
          ~InQueue(client[c].id) /\ ~WorkerHolds(client[c].id)
    /\ \A m, n \in 1 .. Len(job_q) : job_q[m] = job_q[n] => m = n
    /\ worker.pc = "begin" => ~InQueue(worker.id)

\* An id the worker has completed is in no live slot; an id given to a client
\* is in a live slot unless the worker has completed it.
HistoryMatches ==
    /\ \A i \in Slot : InFlight(jobs[i]) => jobs[i].id \notin finished
    /\ \A id \in accepted \ finished : \E i \in Slot : Holds(i, id) /\ InFlight(jobs[i])

\* The inductive invariant of submit, send, begin and finish.
IInv ==
    /\ TypeOK
    /\ IdsIssued
    /\ OneSlotPerId
    /\ HandsHoldQueued
    /\ OneHand
    /\ NoStrandedJob
    /\ HistoryMatches
    /\ SingleFlight
=============================================================================
