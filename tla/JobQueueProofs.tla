--------------------------- MODULE JobQueueProofs ---------------------------
(* Theorems about JobQueue for every number of clients, slots and ids.     *)
EXTENDS JobQueue, FiniteSetTheorems, TLAPS

(***************************************************************************)
(* Facts about the slot table.                                             *)
(***************************************************************************)

\* Pruning only empties slots of completed jobs (job_queue_prune_completed_jobs).
LEMMA PrunedSlots ==
  ASSUME jobs \in [Slot -> Job], now \in Nat, JobQueueAssumption
  PROVE  /\ Pruned(jobs) \in [Slot -> Job]
         /\ \A i \in Slot :
               \/ Pruned(jobs)[i] = jobs[i]
               \/ Completed(jobs[i]) /\ Pruned(jobs)[i] = NoJob
<1>1. NoJob \in Job
  BY JobQueueAssumption DEF NoJob, Job, JobType, JobState, UInt32
<1>2. \A i \in Slot : jobs[i] \in Job
  OBVIOUS
<1>3. QED
  BY <1>1, <1>2 DEF Pruned, Expired

-----------------------------------------------------------------------------
(***************************************************************************)
(* Type correctness.                                                       *)
(***************************************************************************)

\* What Init establishes: every variable has its type.
LEMMA InitTypeOK == Init => TypeOK
BY JobQueueAssumption
DEF Init, TypeOK, NoJob, Job, JobType, JobState, Id, UInt32, Slot, AtRest,
    Resting, ClientPlace, WorkerPlace, Metrics

LEMMA IdAfterType == \A id \in Id : IdAfter(id) \in Id
BY JobQueueAssumption DEF Id, IdAfter

LEMMA RestingType == Resting \in WorkerPlace
BY JobQueueAssumption DEF Resting, WorkerPlace, UInt32, JobType

\* A job that enters a state keeps its slot, id, type and delay.
LEMMA EnteredType ==
  ASSUME NEW j \in Job, NEW s \in JobState, now \in Nat
  PROVE  /\ Entered(j, s) \in Job
         /\ Entered(j, s).used = j.used /\ Entered(j, s).id = j.id
         /\ Entered(j, s).type = j.type /\ Entered(j, s).delay = j.delay
         /\ Entered(j, s).state = s /\ Entered(j, s).updated = now
BY DEF Entered, Job

\* The depth of the table is a natural number.
LEMMA DepthType == ASSUME NEW js PROVE InflightDepth(js) \in Nat
<1>1. IsFiniteSet(Slot)
  BY JobQueueAssumption, FS_Interval DEF Slot
<1>2. IsFiniteSet({i \in Slot : InFlight(js[i])})
  BY <1>1, FS_Subset
<1>3. QED
  BY <1>2, FS_CardinalityType DEF InflightDepth

\* Every step of the clients, the worker, the event loop and the clock keeps
\* the types.
LEMMA NextTypeOK == TypeOK /\ [Next]_vars => TypeOK'
<1> SUFFICES ASSUME TypeOK, [Next]_vars
             PROVE  TypeOK'
  OBVIOUS
<1> USE JobQueueAssumption
<1>0. /\ Pruned(jobs) \in [Slot -> Job]
      /\ \A i \in Slot : jobs[i] \in Job
      /\ now \in Nat
  BY PrunedSlots DEF TypeOK
<1>1. ASSUME NEW c \in Client, NEW r \in Request, SubmitReuse(c, r)
      PROVE  TypeOK'
  <2>1. accepted' \subseteq UInt32
    BY <1>0, <1>1 DEF SubmitReuse, TypeOK, Job
  <2>2. metrics' \in Metrics
    <3>1. metrics' = [metrics EXCEPT !.dedup = @ + 1] /\ metrics.dedup < ReuseBound
      BY <1>1 DEF SubmitReuse
    <3>2. metrics \in Metrics
      BY DEF TypeOK
    <3>3. QED
      BY <3>1, <3>2 DEF Metrics
  <2>3. QED
    BY <1>0, <1>1, <2>1, <2>2 DEF SubmitReuse, TypeOK
<1>2. ASSUME NEW c \in Client, NEW r \in Request, SubmitNew(c, r)
      PROVE  TypeOK'
  <2>1. next_id \in UInt32 /\ next_id' \in Id
    BY <1>2, IdAfterType DEF SubmitNew, TypeOK, Id, UInt32
  <2>2. NewJob(r) \in Job
    BY <2>1 DEF NewJob, Job, JobState, TypeOK
  <2>3. jobs' \in [Slot -> Job]
    BY <1>0, <1>2, <2>2 DEF SubmitNew
  <2>4. client' \in [Client -> ClientPlace]
    BY <1>2, <2>1 DEF SubmitNew, TypeOK, ClientPlace
  <2>5. metrics' \in Metrics
    <3>1. PICK depth \in Nat :
            metrics' = [metrics EXCEPT !.submitted = @ + 1, !.depth = depth,
                                       !.peak = IF depth > @ THEN depth ELSE @]
      BY <1>2, DepthType DEF SubmitNew
    <3> DEFINE p == IF depth > metrics.peak THEN depth ELSE metrics.peak
    <3>2. metrics \in Metrics /\ metrics.submitted < SubmitBound
      BY <1>2 DEF SubmitNew, TypeOK
    <3>3. p \in Nat
      BY <3>2 DEF Metrics
    <3>4. metrics' = [metrics EXCEPT !.submitted = @ + 1, !.depth = depth, !.peak = p]
      BY <3>1, <3>2 DEF Metrics
    <3>5. metrics.submitted + 1 \in 0 .. SubmitBound
      BY <3>2 DEF Metrics
    <3> HIDE DEF p
    <3>6. QED
      BY <3>2, <3>3, <3>4, <3>5 DEF Metrics
  <2>6. QED
    BY <1>2, <2>1, <2>3, <2>4, <2>5 DEF SubmitNew, TypeOK
<1>3. ASSUME NEW c \in Client, NEW r \in Request, SubmitNoSlot(c, r)
      PROVE  TypeOK'
  BY <1>0, <1>3 DEF SubmitNoSlot, TypeOK
<1>4. ASSUME NEW c \in Client, SubmitSend(c)
      PROVE  TypeOK'
  <2>1. AtRest \in ClientPlace
    BY DEF AtRest, ClientPlace, UInt32, Slot
  <2>2. client[c].id \in UInt32 /\ client[c].idx \in Slot
    BY DEF TypeOK, ClientPlace
  <2>3. Released(jobs[client[c].idx]) \in Job
    BY <1>0, <2>2 DEF Released, Job
  <2>4. jobs' \in [Slot -> Job]
    BY <1>4, <2>2, <2>3 DEF SubmitSend, TypeOK
  <2>5. job_q' \in Seq(UInt32)
    <3>1. job_q' \in {job_q, Append(job_q, client[c].id)}
      BY <1>4 DEF SubmitSend
    <3>2. QED
      BY <2>2, <3>1 DEF TypeOK
  <2>6. accepted' \subseteq UInt32
    BY <1>4, <2>2 DEF SubmitSend, TypeOK
  <2>7. QED
    BY <1>4, <2>1, <2>4, <2>5, <2>6 DEF SubmitSend, TypeOK
<1>5. CASE GetMetrics
  BY <1>5, DepthType DEF GetMetrics, TypeOK, Metrics
<1>6. CASE WorkerReceive
  <2>1. Head(job_q) \in UInt32 /\ Tail(job_q) \in Seq(UInt32)
    BY <1>6 DEF WorkerReceive, TypeOK
  <2>2. worker' \in WorkerPlace
    BY <1>6, <2>1 DEF WorkerReceive, TypeOK, WorkerPlace
  <2>3. QED
    BY <1>6, <2>1, <2>2 DEF WorkerReceive, TypeOK
<1>7. CASE WorkerBegin
  <2>1. jobs' \in [Slot -> Job]
    <3>1. jobs' = jobs \/ \E i \in Slot : jobs' = [jobs EXCEPT ![i] = Entered(@, "RUNNING")]
      BY <1>7 DEF WorkerBegin
    <3>2. QED
      BY <1>0, <3>1, EnteredType DEF TypeOK, JobState
  <2>2. worker' \in WorkerPlace
    <3>1. CASE worker' = Resting
      BY <3>1, RestingType
    <3>2. CASE \E i \in Slot : worker' = [worker EXCEPT !.pc = "run", !.type = jobs[i].type]
      BY <1>0, <3>2 DEF TypeOK, WorkerPlace, Job
    <3>3. QED
      BY <1>7, <3>1, <3>2 DEF WorkerBegin
  <2>3. QED
    BY <1>7, <2>1, <2>2 DEF WorkerBegin, TypeOK
<1>8. ASSUME NEW outcome \in Outcome, WorkerFinish(outcome)
      PROVE  TypeOK'
  <2>1. jobs' \in [Slot -> Job]
    BY <1>0, <1>8, EnteredType DEF WorkerFinish, TypeOK, JobState, Outcome
  <2>2. worker' \in WorkerPlace
    <3>1. worker' \in {Resting, [worker EXCEPT !.pc = "notify"]}
      BY <1>8 DEF WorkerFinish
    <3>2. QED
      BY <3>1, RestingType DEF TypeOK, WorkerPlace
  <2>3. metrics' \in Metrics
    <3>1. metrics' \in {metrics, [metrics EXCEPT !.completed = @ + 1],
                        [metrics EXCEPT !.failed = @ + 1]}
      BY <1>8 DEF WorkerFinish
    <3>2. metrics \in Metrics
      BY DEF TypeOK
    <3>3. QED
      BY <3>1, <3>2 DEF Metrics
  <2>4. finished' \subseteq UInt32
    BY <1>8 DEF WorkerFinish, TypeOK, WorkerPlace
  <2>5. QED
    BY <1>8, <2>1, <2>2, <2>3, <2>4 DEF WorkerFinish, TypeOK
<1>9. CASE WorkerNotify
  BY <1>9, RestingType DEF WorkerNotify, TypeOK
<1>10. CASE LqiEventDelivered
  BY <1>10 DEF LqiEventDelivered, TypeOK
<1>11. CASE Tick
  BY <1>11 DEF Tick, TypeOK
<1>12. CASE UNCHANGED vars
  BY <1>12 DEF vars, TypeOK
<1>13. QED
  BY <1>1, <1>2, <1>3, <1>4, <1>5, <1>6, <1>7, <1>8, <1>9, <1>10, <1>11, <1>12
  DEF Next, Submit, Worker

\* In every reachable state every variable has its C type.
THEOREM TypeCorrect == Spec => []TypeOK
BY InitTypeOK, NextTypeOK, PTL DEF Spec
-----------------------------------------------------------------------------
(***************************************************************************)
(* The inductive invariant.                                                *)
(***************************************************************************)

\* What the critical section of a submission does to the other slots.
OthersKept(i) ==
    \A k \in Slot \ {i} :
        \/ jobs'[k] = jobs[k]
        \/ Completed(jobs[k]) /\ ~jobs'[k].used

\* The new job takes a slot that was not in flight, and nothing in flight
\* elsewhere is disturbed (job_queue_submit, job_queue_alloc_slot_index).
LEMMA NewSlot ==
  ASSUME TypeOK, NEW c \in Client, NEW r \in Request, SubmitNew(c, r)
  PROVE  \E i \in Slot :
            /\ ~InFlight(jobs[i]) /\ jobs'[i] = NewJob(r) /\ OthersKept(i)
            /\ client' = [client EXCEPT ![c] =
                             [pc |-> "send", id |-> next_id, idx |-> i]]
<1>1. PICK i \in Slot :
        /\ Allocates(Pruned(jobs), i)
        /\ jobs' = [Pruned(jobs) EXCEPT ![i] = NewJob(r)]
        /\ client' = [client EXCEPT ![c] = [pc |-> "send", id |-> next_id, idx |-> i]]
  BY DEF SubmitNew
<1>2. /\ Pruned(jobs) \in [Slot -> Job]
      /\ \A k \in Slot :
            \/ Pruned(jobs)[k] = jobs[k]
            \/ Completed(jobs[k]) /\ Pruned(jobs)[k] = NoJob
  <2>1. now \in Nat
    BY JobQueueAssumption DEF TypeOK
  <2>2. QED
    BY <2>1, PrunedSlots, JobQueueAssumption DEF TypeOK
<1>3. ~InFlight(jobs[i])
  BY <1>1, <1>2 DEF Allocates, InFlight, Completed
<1>4. jobs'[i] = NewJob(r) /\ \A k \in Slot \ {i} : jobs'[k] = Pruned(jobs)[k]
  BY <1>1, <1>2
<1>5. OthersKept(i)
  BY <1>2, <1>4 DEF OthersKept, NoJob
<1>6. QED
  BY <1>1, <1>3, <1>4, <1>5

\* A submission that fills no slot only empties slots of completed jobs.
LEMMA PruneOnly ==
  ASSUME TypeOK, jobs' = Pruned(jobs)
  PROVE  \A k \in Slot :
            \/ jobs'[k] = jobs[k]
            \/ Completed(jobs[k]) /\ ~jobs'[k].used
<1>1. now \in Nat
  BY JobQueueAssumption DEF TypeOK
<1>2. QED
  BY <1>1, PrunedSlots, JobQueueAssumption DEF TypeOK, NoJob

\* Init: an empty table, an empty queue and nobody on the way.
LEMMA InitIInv == Init => IInv
<1> SUFFICES ASSUME Init PROVE IInv
  OBVIOUS
<1>1. TypeOK
  BY InitTypeOK
<1>2. \A i \in Slot : ~jobs[i].used
  BY DEF Init, NoJob
<1>3. job_q = <<>> /\ worker.pc = "idle" /\ \A c \in Client : client[c].pc = "idle"
  BY DEF Init, AtRest, Resting
<1>4. IdsIssued
  BY <1>2, JobQueueAssumption DEF Init, IdsIssued
<1>5. OneSlotPerId /\ NoStrandedJob /\ HistoryMatches /\ SingleFlight
  BY <1>2 DEF Init, OneSlotPerId, NoStrandedJob, HistoryMatches, SingleFlight, InFlight
<1>6. HandsHoldQueued /\ OneHand
  BY <1>3 DEF HandsHoldQueued, OneHand, InHand, InQueue
<1>7. QED
  BY <1>1, <1>4, <1>5, <1>6 DEF IInv

\* Pruning preserves the invariant, also when a client is given the id of a
\* job in flight (SubmitReuse and SubmitNoSlot).
LEMMA PruneIInv ==
  ASSUME IInv, TypeOK', jobs' = Pruned(jobs),
         \E S \in SUBSET {i \in Slot : InFlight(jobs[i])} :
            accepted' = accepted \cup {jobs[i].id : i \in S},
         metrics'.submitted = metrics.submitted,
         UNCHANGED <<next_id, job_q, client, worker, finished>>
  PROVE  IInv'
<1>1. \A k \in Slot :
        \/ jobs'[k] = jobs[k]
        \/ Completed(jobs[k]) /\ ~jobs'[k].used
  BY PruneOnly DEF IInv
<1>2. \A k \in Slot : InFlight(jobs[k]) => jobs'[k] = jobs[k]
  BY <1>1 DEF InFlight, Completed
<1>3. \A k \in Slot : jobs'[k].used => jobs'[k] = jobs[k]
  BY <1>1
<1>4. \A id \in accepted' : id \in accepted \/ \E i \in Slot : Holds(i, id) /\ InFlight(jobs[i])
  BY DEF Holds, InFlight
<1>5. IdsIssued'
  <2>1. accepted' \subseteq 1 .. metrics.submitted
    BY <1>4 DEF IInv, IdsIssued, Holds
  <2>2. QED
    BY <1>3, <2>1 DEF IInv, IdsIssued
<1>6. OneSlotPerId'
  BY <1>3 DEF IInv, OneSlotPerId
<1>7. HandsHoldQueued'
  <2>1. \A i \in Slot : \A id : QueuedSlot(i, id) => QueuedSlot(i, id)'
    BY <1>2 DEF QueuedSlot, InFlight
  <2>2. \A i \in Slot : \A id : Holds(i, id) /\ jobs[i].state = "RUNNING" =>
           (Holds(i, id) /\ jobs[i].state = "RUNNING")'
    BY <1>2 DEF Holds, InFlight
  <2>3. \A c \in Client : client[c].pc = "send" => client[c].idx \in Slot
    BY DEF IInv, TypeOK, ClientPlace
  <2>4. QED
    BY <2>1, <2>2, <2>3 DEF IInv, HandsHoldQueued
<1>8. OneHand'
  BY DEF IInv, OneHand, InHand, InQueue, WorkerHolds
<1>9. NoStrandedJob'
  BY <1>3 DEF IInv, NoStrandedJob, InFlight, InHand, InQueue, WorkerHolds, WorkerRuns
<1>10. HistoryMatches'
  <2>1. \A i \in Slot : InFlight(jobs[i])' => jobs'[i].id \notin finished'
    BY <1>3 DEF IInv, HistoryMatches, InFlight
  <2>2. \A id \in accepted' \ finished' : \E i \in Slot : Holds(i, id) /\ InFlight(jobs[i])
    BY <1>4 DEF IInv, HistoryMatches
  <2>3. \A id \in accepted' \ finished' : \E i \in Slot : (Holds(i, id) /\ InFlight(jobs[i]))'
    BY <1>2, <2>2 DEF Holds, InFlight
  <2>4. QED
    BY <2>1, <2>3 DEF HistoryMatches
<1>11. SingleFlight'
  BY <1>3 DEF IInv, SingleFlight, InFlight, SameJob
<1>12. QED
  BY <1>5, <1>6, <1>7, <1>8, <1>9, <1>10, <1>11 DEF IInv

\* The invariant leaves room in the queue: each id in it has a queued slot of
\* its own, and the slot of the client about to send is yet another one.
LEMMA RoomToSend == IInv => SendNeverFails
<1> SUFFICES ASSUME IInv, NEW c \in Client, client[c].pc = "send"
             PROVE  Len(job_q) < QueueCap
  BY DEF SendNeverFails
<1> DEFINE n == Len(job_q)
           own == client[c].idx
           slotOf == [m \in 1 .. n |-> CHOOSE i \in Slot : QueuedSlot(i, job_q[m])]
<1>1. n \in Nat
  BY DEF IInv, TypeOK
<1>2. own \in Slot /\ QueuedSlot(own, client[c].id)
  BY DEF IInv, TypeOK, ClientPlace, HandsHoldQueued
<1>3. \A m \in 1 .. n : slotOf[m] \in Slot /\ QueuedSlot(slotOf[m], job_q[m])
  BY DEF IInv, HandsHoldQueued
<1>4. \A m \in 1 .. n : slotOf[m] # own
  <2>1. \A m \in 1 .. n : job_q[m] # client[c].id
    BY DEF IInv, OneHand, InQueue
  <2>2. QED
    BY <1>2, <1>3, <2>1 DEF QueuedSlot
<1>5. slotOf \in [1 .. n -> Slot \ {own}]
  BY <1>3, <1>4
<1>6. \A l, m \in 1 .. n : slotOf[l] = slotOf[m] => l = m
  BY <1>3 DEF QueuedSlot, IInv, OneHand
<1>7. slotOf \in Injection(1 .. n, Slot \ {own})
  BY <1>5, <1>6 DEF Injection, IsInjective
<1>8. IsFiniteSet(Slot) /\ Cardinality(Slot) = JobMax
  BY JobQueueAssumption, FS_Interval DEF Slot
<1>9. IsFiniteSet(Slot \ {own}) /\ Cardinality(Slot \ {own}) = JobMax - 1
  BY <1>2, <1>8, FS_RemoveElement
<1>10. Cardinality(1 .. n) <= JobMax - 1
  BY <1>7, <1>9, FS_Injection
<1>11. Cardinality(1 .. n) = n
  <2>1. \A m \in Nat : Cardinality(1 .. m) = m
    <3>1. \A m \in Nat : Cardinality(1 .. m) = IF 1 > m THEN 0 ELSE m - 1 + 1
      BY FS_Interval
    <3>2. QED
      BY <3>1
  <2>2. QED
    BY <1>1, <2>1
<1>12. QED
  BY <1>1, <1>10, <1>11, JobQueueAssumption DEF QueueCap

\* A new job has an id no slot, hand or history knows.
LEMMA NewIInv ==
  ASSUME IInv, TypeOK', NEW c \in Client, NEW r \in Request, SubmitNew(c, r)
  PROVE  IInv'
<1>1. PICK i \in Slot :
        /\ ~InFlight(jobs[i]) /\ jobs'[i] = NewJob(r) /\ OthersKept(i)
        /\ client' = [client EXCEPT ![c] = [pc |-> "send", id |-> next_id, idx |-> i]]
  BY NewSlot DEF IInv
<1>2. /\ UNCHANGED <<job_q, worker, accepted, finished>>
      /\ next_id' = IdAfter(next_id) /\ client[c].pc = "idle"
      /\ metrics.submitted < SubmitBound /\ metrics'.submitted = metrics.submitted + 1
  BY DEF SubmitNew, IInv, TypeOK, Metrics
<1>3. metrics.submitted \in Nat /\ metrics.submitted < IdMax
  BY <1>2, JobQueueAssumption DEF IInv, TypeOK, Metrics
<1>4. next_id = metrics.submitted + 1 /\ metrics'.submitted = next_id
  BY <1>2, <1>3, JobQueueAssumption DEF IInv, IdsIssued
<1>5. /\ jobs'[i].used /\ jobs'[i].id = next_id /\ jobs'[i].state = "QUEUED"
      /\ jobs'[i].type = r.type /\ jobs'[i].delay = r.delay
  BY <1>1 DEF NewJob
<1>6. \A k \in Slot : InFlight(jobs[k]) => k # i /\ jobs'[k] = jobs[k]
  BY <1>1 DEF OthersKept, InFlight, Completed
<1>7. \A k \in Slot : jobs'[k].used /\ k # i => jobs'[k] = jobs[k]
  BY <1>1 DEF OthersKept
<1>8. \A k \in Slot : jobs[k].used => jobs[k].id \in 1 .. metrics.submitted
  BY DEF IInv, IdsIssued
<1>9. \A k \in Slot : jobs[k].used => jobs[k].id # next_id
  BY <1>3, <1>4, <1>8
<1>10. IdsIssued'
  <2>1. next_id' = IF metrics'.submitted = IdMax THEN 1 ELSE metrics'.submitted + 1
    BY <1>2, <1>4 DEF IdAfter
  <2>2. \A k \in Slot : jobs'[k].used => jobs'[k].id \in 1 .. metrics'.submitted
    BY <1>2, <1>3, <1>4, <1>5, <1>7, <1>8
  <2>3. accepted' \cup finished' \subseteq 1 .. metrics'.submitted
    BY <1>2, <1>3 DEF IInv, IdsIssued
  <2>4. QED
    BY <2>1, <2>2, <2>3 DEF IdsIssued
<1>11. OneSlotPerId'
  BY <1>5, <1>7, <1>9 DEF IInv, OneSlotPerId
<1>12. \A k \in Slot : \A id : QueuedSlot(k, id) => QueuedSlot(k, id)' /\ id # next_id
  BY <1>6, <1>9 DEF QueuedSlot, InFlight
<1>13. HandsHoldQueued'
  <2>1. \A d \in Client : client'[d].pc = "send" =>
           QueuedSlot(client[d].idx, client[d].id)'
    <3>1. \A d \in Client \ {c} : client'[d] = client[d]
      BY <1>1 DEF IInv, TypeOK
    <3>2. client'[c].idx = i /\ client'[c].id = next_id
      BY <1>1 DEF IInv, TypeOK
    <3>3. \A d \in Client : client[d].idx \in Slot
      BY DEF IInv, TypeOK, ClientPlace
    <3>4. QueuedSlot(client[c].idx, client[c].id)'
      BY <1>5, <3>2 DEF QueuedSlot
    <3>5. \A d \in Client \ {c} : client[d].pc = "send" => QueuedSlot(client[d].idx, client[d].id)
      BY DEF IInv, HandsHoldQueued
    <3>6. \A d \in Client \ {c} : client'[d].pc = "send" => QueuedSlot(client[d].idx, client[d].id)'
      BY <1>6, <3>1, <3>3, <3>5 DEF QueuedSlot, InFlight
    <3>7. QED
      BY <3>4, <3>6
  <2>2. \A k \in Slot : \A id : Holds(k, id) /\ jobs[k].state = "RUNNING" =>
           (Holds(k, id) /\ jobs[k].state = "RUNNING")'
    BY <1>6 DEF Holds, InFlight
  <2>3. QED
    BY <1>2, <1>12, <2>1, <2>2 DEF IInv, HandsHoldQueued
<1>14. OneHand'
  <2>1. \A d \in Client \ {c} : client'[d] = client[d]
    BY <1>1 DEF IInv, TypeOK
  <2>2. client'[c].pc = "send" /\ client'[c].id = next_id
    BY <1>1 DEF IInv, TypeOK
  <2>3. \A d \in Client \ {c} : client[d].pc = "send" => client[d].id # next_id
    BY <1>12 DEF IInv, HandsHoldQueued, TypeOK, ClientPlace
  <2>4. ~InQueue(next_id) /\ ~WorkerHolds(next_id)
    BY <1>12 DEF IInv, HandsHoldQueued, InQueue, WorkerHolds
  <2>5. \A d, e \in Client : InHand(d, client[e].id)' /\ client'[e].pc = "send" => d = e
    BY <2>1, <2>2, <2>3 DEF IInv, OneHand, InHand
  <2>6. \A d \in Client : client'[d].pc = "send" =>
           ~InQueue(client[d].id)' /\ ~WorkerHolds(client[d].id)'
    BY <1>2, <2>1, <2>2, <2>4 DEF IInv, OneHand, InQueue, WorkerHolds
  <2>7. QED
    BY <1>2, <2>5, <2>6 DEF IInv, OneHand, InQueue
<1>15. NoStrandedJob'
  <2> SUFFICES ASSUME NEW k \in Slot, InFlight(jobs[k])'
               PROVE  IF jobs'[k].state = "RUNNING" THEN WorkerRuns(jobs[k].id)'
                      ELSE \/ \E d \in Client : InHand(d, jobs[k].id)'
                           \/ InQueue(jobs[k].id)'
                           \/ WorkerHolds(jobs[k].id)'
    BY DEF NoStrandedJob
  <2>1. CASE k = i
    <3>1. InHand(c, jobs[k].id)'
      BY <1>1, <1>5, <2>1 DEF InHand, IInv, TypeOK
    <3>2. QED
      BY <1>5, <2>1, <3>1
  <2>2. CASE k # i
    <3>1. jobs'[k] = jobs[k] /\ InFlight(jobs[k])
      BY <1>7, <2>2 DEF InFlight
    <3>2. \A d \in Client : InHand(d, jobs[k].id) => InHand(d, jobs[k].id)'
      BY <1>1, <1>2, <3>1 DEF InHand, IInv, TypeOK
    <3>3. QED
      BY <1>2, <3>1, <3>2 DEF IInv, NoStrandedJob, InQueue, WorkerHolds, WorkerRuns
  <2>3. QED
    BY <2>1, <2>2
<1>16. HistoryMatches'
  <2>1. next_id \notin finished
    BY <1>3, <1>4 DEF IInv, IdsIssued
  <2>2. \A k \in Slot : InFlight(jobs[k])' => jobs'[k].id \notin finished'
    BY <1>2, <1>5, <1>7, <2>1 DEF IInv, HistoryMatches, InFlight
  <2>3. \A id \in accepted' \ finished' : \E k \in Slot : (Holds(k, id) /\ InFlight(jobs[k]))'
    BY <1>2, <1>6 DEF IInv, HistoryMatches, Holds, InFlight
  <2>4. QED
    BY <2>2, <2>3 DEF HistoryMatches
<1>17. SingleFlight'
  <2>1. \A k \in Slot : InFlight(jobs[k]) => ~SameJob(jobs[k], r)
    <3>1. \A k \in Slot : ~(InFlight(Pruned(jobs)[k]) /\ SameJob(Pruned(jobs)[k], r))
      BY DEF SubmitNew, NoneInFlight
    <3>2. \A k \in Slot : InFlight(jobs[k]) => Pruned(jobs)[k] = jobs[k]
      BY DEF Pruned, Expired, InFlight, Completed
    <3>3. QED
      BY <3>1, <3>2
  <2>2. \A k \in Slot : InFlight(jobs[k])' /\ k # i => jobs'[k] = jobs[k] /\ InFlight(jobs[k])
    BY <1>7 DEF InFlight
  <2>3. QED
    BY <1>5, <2>1, <2>2 DEF IInv, SingleFlight, SameJob
<1>18. QED
  BY <1>10, <1>11, <1>13, <1>14, <1>15, <1>16, <1>17 DEF IInv

\* The id moves from the client's hand to the end of the queue.
LEMMA SendIInv ==
  ASSUME IInv, TypeOK', NEW c \in Client, SubmitSend(c)
  PROVE  IInv'
<1>1. /\ client[c].pc = "send"
      /\ job_q' = Append(job_q, client[c].id)
      /\ accepted' = accepted \cup {client[c].id}
      /\ client' = [client EXCEPT ![c] = AtRest]
      /\ UNCHANGED <<jobs, next_id, worker, metrics, finished>>
  BY RoomToSend DEF SubmitSend, SendNeverFails
<1> DEFINE id == client[c].id
           n == Len(job_q)
<1>2. n \in Nat /\ job_q \in Seq(UInt32) /\ id \in UInt32
  BY DEF IInv, TypeOK, ClientPlace
<1>3. /\ Len(job_q') = n + 1 /\ job_q'[n + 1] = id
      /\ \A m \in 1 .. n : job_q'[m] = job_q[m]
  BY <1>1, <1>2
<1>4. client'[c].pc = "idle" /\ \A d \in Client \ {c} : client'[d] = client[d]
  BY <1>1 DEF IInv, TypeOK, AtRest
<1>5. client[c].idx \in Slot /\ QueuedSlot(client[c].idx, id)
  BY <1>1 DEF IInv, TypeOK, ClientPlace, HandsHoldQueued
<1>6. id \notin finished /\ id \in 1 .. metrics.submitted
  BY <1>5 DEF IInv, HistoryMatches, QueuedSlot, InFlight, IdsIssued
<1>7. IdsIssued' /\ OneSlotPerId' /\ SingleFlight'
  <2>1. SingleFlight' <=> SingleFlight
    BY <1>1 DEF SingleFlight, InFlight, SameJob
  <2>2. OneSlotPerId' <=> OneSlotPerId
    BY <1>1 DEF OneSlotPerId
  <2>3. IdsIssued'
    BY <1>1, <1>6 DEF IInv, IdsIssued
  <2>4. QED
    BY <2>1, <2>2, <2>3 DEF IInv
<1> HIDE DEF id, n
<1>8. \A d \in Client \ {c} : client[d].pc = "send" => client[d].id # id
  BY <1>1 DEF IInv, OneHand, InHand, id
<1>9. (\A m \in 1 .. n : job_q[m] # id) /\ ~WorkerHolds(id)
  BY <1>1 DEF IInv, OneHand, InQueue, id, n
<1>10. \A x : InQueue(x)' <=> InQueue(x) \/ x = id
  BY <1>2, <1>3 DEF InQueue, n
<1>11. HandsHoldQueued'
  <2>1. \A k \in Slot : \A x : QueuedSlot(k, x)' <=> QueuedSlot(k, x)
    BY <1>1 DEF QueuedSlot
  <2>2. \A m \in 1 .. n + 1 : \E k \in Slot : QueuedSlot(k, job_q'[m])
    <3>1. \A m \in 1 .. n : \E k \in Slot : QueuedSlot(k, job_q[m])
      BY DEF IInv, HandsHoldQueued, n
    <3>2. \A m \in 1 .. n + 1 : m \in 1 .. n \/ m = n + 1
      BY <1>2
    <3>3. QED
      BY <1>3, <1>5, <3>1, <3>2
  <2>3. \A d \in Client : client'[d].pc = "send" => QueuedSlot(client[d].idx, client[d].id)'
    BY <1>1, <1>4 DEF IInv, HandsHoldQueued, QueuedSlot
  <2>4. /\ worker'.pc = "begin" => \E k \in Slot : QueuedSlot(k, worker.id)'
        /\ worker'.pc = "run" => \E k \in Slot : (Holds(k, worker.id) /\ jobs[k].state = "RUNNING")'
    BY <1>1 DEF IInv, HandsHoldQueued, QueuedSlot, Holds
  <2>5. \A m \in 1 .. Len(job_q') : \E k \in Slot : QueuedSlot(k, job_q[m])'
    BY <1>1, <1>3, <2>2 DEF QueuedSlot
  <2>6. QED
    BY <2>3, <2>4, <2>5 DEF HandsHoldQueued
<1>12. OneHand'
  <2>1. \A d, e \in Client : InHand(d, client[e].id)' /\ client'[e].pc = "send" => d = e
    BY <1>4 DEF IInv, OneHand, InHand
  <2>2. \A d \in Client : client'[d].pc = "send" =>
           ~InQueue(client[d].id)' /\ ~WorkerHolds(client[d].id)'
    <3>1. \A d \in Client : client'[d].pc = "send" => client'[d] = client[d] /\ client[d].id # id
      BY <1>4, <1>8
    <3>2. \A x : WorkerHolds(x)' <=> WorkerHolds(x)
      BY <1>1 DEF WorkerHolds
    <3>3. \A d \in Client : client[d].pc = "send" => ~InQueue(client[d].id) /\ ~WorkerHolds(client[d].id)
      BY DEF IInv, OneHand
    <3>4. \A d \in Client : InQueue(client[d].id)' <=> InQueue(client'[d].id) \/ client'[d].id = id
      BY <1>2, <1>3 DEF InQueue, n
    <3>5. \A d \in Client : WorkerHolds(client[d].id)' <=> WorkerHolds(client'[d].id)
      BY <1>1 DEF WorkerHolds
    <3>6. QED
      BY <3>1, <3>3, <3>4, <3>5
  <2>3. \A l, m \in 1 .. Len(job_q') : job_q'[l] = job_q'[m] => l = m
    <3>1. \A m \in 1 .. n + 1 : m \in 1 .. n \/ m = n + 1
      BY <1>2
    <3>2. \A l, m \in 1 .. n : job_q[l] = job_q[m] => l = m
      BY DEF IInv, OneHand, n
    <3>3. QED
      BY <1>3, <1>9, <3>1, <3>2
  <2>4. worker'.pc = "begin" => ~InQueue(worker.id)'
    <3>1. worker.pc = "begin" => ~InQueue(worker.id) /\ worker.id # id
      BY <1>9 DEF IInv, OneHand, WorkerHolds
    <3>2. InQueue(worker.id)' <=> InQueue(worker.id) \/ worker.id = id
      BY <1>1, <1>2, <1>3 DEF InQueue, n
    <3>3. QED
      BY <1>1, <3>1, <3>2
  <2>5. QED
    BY <2>1, <2>2, <2>3, <2>4 DEF OneHand
<1>13. NoStrandedJob'
  <2> SUFFICES ASSUME NEW k \in Slot, InFlight(jobs[k])'
               PROVE  IF jobs'[k].state = "RUNNING" THEN WorkerRuns(jobs[k].id)'
                      ELSE \/ \E d \in Client : InHand(d, jobs[k].id)'
                           \/ InQueue(jobs[k].id)'
                           \/ WorkerHolds(jobs[k].id)'
    BY DEF NoStrandedJob
  <2>1. jobs'[k] = jobs[k] /\ InFlight(jobs[k])
    BY <1>1 DEF InFlight
  <2>2. InQueue(jobs[k].id)' <=> InQueue(jobs[k].id) \/ jobs[k].id = id
    BY <1>1, <1>2, <1>3 DEF InQueue, n
  <2>3. \A d \in Client : InHand(d, jobs[k].id) => InHand(d, jobs[k].id)' \/ jobs[k].id = id
    BY <1>4, <2>1 DEF InHand, id
  <2>4. QED
    BY <1>1, <2>1, <2>2, <2>3 DEF IInv, NoStrandedJob, WorkerHolds, WorkerRuns
<1>14. HistoryMatches'
  <2>1. \A k \in Slot : InFlight(jobs[k])' => jobs'[k].id \notin finished'
    BY <1>1 DEF IInv, HistoryMatches, InFlight
  <2>2. \A x \in accepted' \ finished' : \E k \in Slot : Holds(k, x) /\ InFlight(jobs[k])
    BY <1>1, <1>5 DEF IInv, HistoryMatches, Holds, QueuedSlot, InFlight, id
  <2>3. QED
    BY <1>1, <2>1, <2>2 DEF HistoryMatches, Holds, InFlight
<1>15. QED
  BY <1>7, <1>11, <1>12, <1>13, <1>14 DEF IInv

\* The id moves from the head of the queue to the worker's hand.
LEMMA ReceiveIInv ==
  ASSUME IInv, TypeOK', WorkerReceive
  PROVE  IInv'
<1> DEFINE id == Head(job_q)
           n == Len(job_q)
<1>1. /\ worker.pc = "idle" /\ worker'.pc = "begin" /\ worker'.id = id
      /\ job_q' = Tail(job_q)
      /\ UNCHANGED <<jobs, next_id, client, metrics, accepted, finished>>
  BY DEF WorkerReceive, IInv, TypeOK, WorkerPlace
<1>2. job_q \in Seq(UInt32) /\ job_q # <<>> /\ n \in Nat \ {0} /\ id = job_q[1]
  BY DEF WorkerReceive, IInv, TypeOK
<1>3. Len(job_q') = n - 1 /\ \A m \in 1 .. n - 1 : job_q'[m] = job_q[m + 1]
  BY <1>1, <1>2
<1> HIDE DEF id, n
<1>4. \A m \in 1 .. n - 1 : m + 1 \in 1 .. n
  BY <1>2
<1>5. \A l, m \in 1 .. n : job_q[l] = job_q[m] => l = m
  BY DEF IInv, OneHand, n
<1>6. IdsIssued' /\ OneSlotPerId' /\ SingleFlight'
  <2>1. SingleFlight' <=> SingleFlight
    BY <1>1 DEF SingleFlight, InFlight, SameJob
  <2>2. OneSlotPerId' <=> OneSlotPerId
    BY <1>1 DEF OneSlotPerId
  <2>3. IdsIssued' <=> IdsIssued
    BY <1>1 DEF IdsIssued
  <2>4. QED
    BY <2>1, <2>2, <2>3 DEF IInv
<1>7. \A k \in Slot : \A x : QueuedSlot(k, x)' <=> QueuedSlot(k, x)
  BY <1>1 DEF QueuedSlot
<1>8. \A m \in 1 .. n : \E k \in Slot : QueuedSlot(k, job_q[m])
  BY DEF IInv, HandsHoldQueued, n
<1>9. HandsHoldQueued'
  <2>1. \A d \in Client : client'[d].pc = "send" => QueuedSlot(client[d].idx, client[d].id)'
    BY <1>1 DEF IInv, HandsHoldQueued, QueuedSlot
  <2>2. \A m \in 1 .. Len(job_q') : \E k \in Slot : QueuedSlot(k, job_q[m])'
    BY <1>1, <1>3, <1>4, <1>8 DEF QueuedSlot
  <2>3. \E k \in Slot : QueuedSlot(k, worker.id)'
    <3>1. PICK k \in Slot : QueuedSlot(k, id)
      BY <1>2, <1>8
    <3>2. QED
      BY <1>1, <3>1 DEF QueuedSlot
  <2>4. QED
    BY <1>1, <2>1, <2>2, <2>3 DEF HandsHoldQueued
<1>10. OneHand'
  <2>1. \A d, e \in Client : InHand(d, client[e].id)' /\ client'[e].pc = "send" => d = e
    BY <1>1 DEF IInv, OneHand, InHand
  <2>2. \A d \in Client : client'[d].pc = "send" =>
           ~InQueue(client[d].id)' /\ ~WorkerHolds(client[d].id)'
    <3> SUFFICES ASSUME NEW d \in Client, client[d].pc = "send"
                 PROVE  ~InQueue(client[d].id)' /\ ~WorkerHolds(client[d].id)'
      BY <1>1
    <3>1. \A m \in 1 .. n : job_q[m] # client[d].id
      BY DEF IInv, OneHand, InQueue, n
    <3>2. ~InQueue(client[d].id)'
      BY <1>1, <1>3, <1>4, <3>1 DEF InQueue
    <3>3. ~WorkerHolds(client[d].id)'
      BY <1>1, <1>2, <3>1 DEF WorkerHolds
    <3>4. QED
      BY <3>2, <3>3
  <2>3. \A l, m \in 1 .. Len(job_q') : job_q'[l] = job_q'[m] => l = m
    <3>1. \A l, m \in 1 .. n - 1 : job_q[l + 1] = job_q[m + 1] => l + 1 = m + 1
      BY <1>4, <1>5
    <3>2. QED
      BY <1>2, <1>3, <3>1
  <2>4. ~InQueue(worker.id)'
    <3>1. \A m \in 1 .. n - 1 : job_q[m + 1] # job_q[1]
      <4>1. \A m \in 1 .. n - 1 : m + 1 # 1 /\ 1 \in 1 .. n
        BY <1>2
      <4>2. QED
        BY <1>4, <1>5, <4>1
    <3>2. QED
      BY <1>1, <1>2, <1>3, <3>1 DEF InQueue
  <2>5. QED
    BY <2>1, <2>2, <2>3, <2>4 DEF OneHand
<1>11. NoStrandedJob'
  <2> SUFFICES ASSUME NEW k \in Slot, InFlight(jobs[k])'
               PROVE  IF jobs'[k].state = "RUNNING" THEN WorkerRuns(jobs[k].id)'
                      ELSE \/ \E d \in Client : InHand(d, jobs[k].id)'
                           \/ InQueue(jobs[k].id)'
                           \/ WorkerHolds(jobs[k].id)'
    BY DEF NoStrandedJob
  <2>1. jobs'[k] = jobs[k] /\ InFlight(jobs[k])
    BY <1>1 DEF InFlight
  <2>2. InQueue(jobs[k].id) => InQueue(jobs[k].id)' \/ WorkerHolds(jobs[k].id)'
    <3> SUFFICES ASSUME NEW m \in 1 .. n, job_q[m] = jobs[k].id
                 PROVE  InQueue(jobs[k].id)' \/ WorkerHolds(jobs[k].id)'
      BY DEF InQueue, n
    <3>1. CASE m = 1
      BY <1>1, <1>2, <2>1, <3>1 DEF WorkerHolds
    <3>2. CASE m # 1
      <4>1. m - 1 \in 1 .. n - 1 /\ (m - 1) + 1 = m
        BY <1>2, <3>2
      <4>2. job_q'[m - 1] = jobs'[k].id
        BY <1>3, <2>1, <4>1
      <4>3. QED
        BY <1>3, <4>1, <4>2 DEF InQueue
    <3>3. QED
      BY <3>1, <3>2
  <2>3. ~WorkerHolds(jobs[k].id) /\ ~WorkerRuns(jobs[k].id)
    BY <1>1 DEF WorkerHolds, WorkerRuns
  <2>4. QED
    BY <1>1, <2>1, <2>2, <2>3 DEF IInv, NoStrandedJob, InHand
<1>12. HistoryMatches'
  BY <1>1 DEF IInv, HistoryMatches, Holds, InFlight
<1>13. QED
  BY <1>6, <1>9, <1>10, <1>11, <1>12 DEF IInv

\* The slot of the worker's id is the only one that changes, in state and
\* time stamp only (both critical sections of execute_job).
SlotEnters(i, state) ==
    /\ jobs'[i].used = jobs[i].used /\ jobs'[i].id = jobs[i].id
    /\ jobs'[i].type = jobs[i].type /\ jobs'[i].delay = jobs[i].delay
    /\ jobs'[i].state = state
    /\ \A k \in Slot \ {i} : jobs'[k] = jobs[k]

LEMMA SlotEntersState ==
  ASSUME TypeOK, NEW i \in Slot, NEW s \in JobState,
         jobs' = [jobs EXCEPT ![i] = Entered(@, s)]
  PROVE  SlotEnters(i, s)
<1>1. jobs[i] \in Job /\ now \in Nat
  BY JobQueueAssumption DEF TypeOK
<1>2. jobs'[i] = Entered(jobs[i], s) /\ \A k \in Slot \ {i} : jobs'[k] = jobs[k]
  BY DEF TypeOK
<1>3. QED
  BY <1>1, <1>2, EnteredType DEF SlotEnters

\* The worker begins the job it holds: its slot is queued, so the id is found
\* and the job of no other hand is touched.
LEMMA BeginIInv ==
  ASSUME IInv, TypeOK', WorkerBegin
  PROVE  IInv'
<1> DEFINE id == worker.id
<1>1. PICK q \in Slot : QueuedSlot(q, id)
  BY DEF WorkerBegin, IInv, HandsHoldQueued
<1>2. PICK i \in Slot :
        /\ Finds(jobs, id, i)
        /\ jobs' = [jobs EXCEPT ![i] = Entered(@, "RUNNING")]
        /\ worker' = [worker EXCEPT !.pc = "run", !.type = jobs[i].type]
  BY <1>1 DEF WorkerBegin, Missing, QueuedSlot
<1>3. i = q
  BY <1>1, <1>2 DEF IInv, OneSlotPerId, Finds, QueuedSlot
<1>4. SlotEnters(i, "RUNNING") /\ QueuedSlot(i, id)
  BY <1>1, <1>2, <1>3, SlotEntersState DEF IInv, JobState
<1>5. /\ worker.pc = "begin" /\ worker'.pc = "run" /\ worker'.id = id
      /\ UNCHANGED <<next_id, job_q, client, metrics, accepted, finished>>
  BY <1>2 DEF WorkerBegin, IInv, TypeOK, WorkerPlace
<1> HIDE DEF id
<1>6. \A k \in Slot :
        /\ jobs'[k].used = jobs[k].used /\ jobs'[k].id = jobs[k].id
        /\ jobs'[k].type = jobs[k].type /\ jobs'[k].delay = jobs[k].delay
        /\ InFlight(jobs[k])' <=> InFlight(jobs[k])
  BY <1>4 DEF SlotEnters, InFlight, QueuedSlot
<1>7. \A k \in Slot : \A x : x # id /\ QueuedSlot(k, x) => QueuedSlot(k, x)'
  BY <1>4 DEF SlotEnters, QueuedSlot
<1>8. IdsIssued' /\ OneSlotPerId' /\ SingleFlight'
  <2>1. IdsIssued'
    BY <1>5, <1>6 DEF IInv, IdsIssued
  <2>2. OneSlotPerId'
    BY <1>6 DEF IInv, OneSlotPerId
  <2>3. SingleFlight'
    BY <1>6 DEF IInv, SingleFlight, SameJob
  <2>4. QED
    BY <2>1, <2>2, <2>3
<1>9. /\ \A d \in Client : client[d].pc = "send" => client[d].id # id
      /\ \A m \in 1 .. Len(job_q) : job_q[m] # id
  BY <1>5 DEF IInv, OneHand, WorkerHolds, InQueue, id
<1>10. HandsHoldQueued'
  <2>1. \A d \in Client : client'[d].pc = "send" => QueuedSlot(client[d].idx, client[d].id)'
    <3>1. \A d \in Client : client[d].idx \in Slot
      BY DEF IInv, TypeOK, ClientPlace
    <3>2. \A d \in Client : client[d].pc = "send" => QueuedSlot(client[d].idx, client[d].id)
      BY DEF IInv, HandsHoldQueued
    <3>3. \A d \in Client : client[d].pc = "send" => client[d].idx # i
      BY <1>4, <1>9, <3>2 DEF QueuedSlot
    <3>4. \A d \in Client : client[d].pc = "send" => jobs'[client[d].idx] = jobs[client[d].idx]
      BY <1>4, <3>1, <3>3 DEF SlotEnters
    <3>5. QED
      BY <1>5, <3>2, <3>4 DEF QueuedSlot
  <2>2. \A m \in 1 .. Len(job_q') : \E k \in Slot : QueuedSlot(k, job_q[m])'
    <3>1. \A m \in 1 .. Len(job_q) : \E k \in Slot : QueuedSlot(k, job_q[m])
      BY DEF IInv, HandsHoldQueued
    <3>2. \A m \in 1 .. Len(job_q) : \E k \in Slot :
             jobs'[k].used /\ jobs'[k].id = job_q[m] /\ jobs'[k].state = "QUEUED"
      BY <1>7, <1>9, <3>1 DEF QueuedSlot
    <3>3. QED
      BY <1>5, <3>2 DEF QueuedSlot
  <2>3. (Holds(i, worker.id) /\ jobs[i].state = "RUNNING")'
    BY <1>4, <1>5 DEF SlotEnters, QueuedSlot, Holds
  <2>4. QED
    BY <1>5, <2>1, <2>2, <2>3 DEF HandsHoldQueued
<1>11. OneHand'
  BY <1>5 DEF IInv, OneHand, InHand, InQueue, WorkerHolds
<1>12. NoStrandedJob'
  <2> SUFFICES ASSUME NEW k \in Slot, InFlight(jobs[k])'
               PROVE  IF jobs'[k].state = "RUNNING" THEN WorkerRuns(jobs[k].id)'
                      ELSE \/ \E d \in Client : InHand(d, jobs[k].id)'
                           \/ InQueue(jobs[k].id)'
                           \/ WorkerHolds(jobs[k].id)'
    BY DEF NoStrandedJob
  <2>1. CASE k = i
    BY <1>4, <1>5, <2>1 DEF SlotEnters, QueuedSlot, WorkerRuns
  <2>2. CASE k # i
    <3>1. jobs'[k] = jobs[k] /\ InFlight(jobs[k])
      BY <1>4, <2>2 DEF SlotEnters, InFlight
    <3>2. jobs[k].id # id
      BY <1>4, <2>2, <3>1 DEF IInv, OneSlotPerId, QueuedSlot, InFlight
    <3>3. ~WorkerRuns(jobs[k].id) /\ ~WorkerHolds(jobs[k].id)
      BY <1>5, <3>2 DEF WorkerRuns, WorkerHolds, id
    <3>4. QED
      BY <1>5, <3>1, <3>3 DEF IInv, NoStrandedJob, InHand, InQueue
  <2>3. QED
    BY <2>1, <2>2
<1>13. HistoryMatches'
  <2>1. \A k \in Slot : InFlight(jobs[k])' => jobs'[k].id \notin finished'
    BY <1>5, <1>6 DEF IInv, HistoryMatches
  <2>2. \A x \in accepted' \ finished' : \E k \in Slot : jobs'[k].used /\ jobs'[k].id = x /\ InFlight(jobs[k])'
    BY <1>5, <1>6 DEF IInv, HistoryMatches, Holds
  <2>3. QED
    BY <2>1, <2>2 DEF HistoryMatches, Holds
<1>14. QED
  BY <1>8, <1>10, <1>11, <1>12, <1>13 DEF IInv

\* The worker completes the job it runs: nothing else changes hands.
LEMMA FinishIInv ==
  ASSUME IInv, TypeOK', NEW outcome \in Outcome, WorkerFinish(outcome)
  PROVE  IInv'
<1> DEFINE id == worker.id
<1>1. PICK q \in Slot : Holds(q, id) /\ jobs[q].state = "RUNNING"
  BY DEF WorkerFinish, IInv, HandsHoldQueued
<1>2. PICK i \in Slot :
        /\ Finds(jobs, id, i)
        /\ jobs' = [jobs EXCEPT ![i] = Entered(@, outcome)]
        /\ metrics' \in {[metrics EXCEPT !.completed = @ + 1], [metrics EXCEPT !.failed = @ + 1]}
        /\ finished' = finished \cup {id}
  BY <1>1 DEF WorkerFinish, Missing, Holds
<1>3. i = q
  BY <1>1, <1>2 DEF IInv, OneSlotPerId, Finds, Holds
<1>4. SlotEnters(i, outcome) /\ jobs[i].used /\ jobs[i].id = id /\ jobs[i].state = "RUNNING"
  BY <1>1, <1>2, <1>3, SlotEntersState DEF IInv, JobState, Outcome, Holds
<1>5. /\ worker.pc = "run" /\ worker'.pc \in {"notify", "idle"}
      /\ metrics'.submitted = metrics.submitted
      /\ UNCHANGED <<next_id, job_q, client, accepted>>
  BY <1>2 DEF WorkerFinish, IInv, TypeOK, WorkerPlace, Resting, Metrics
<1> HIDE DEF id
<1>6. \A k \in Slot :
        /\ jobs'[k].used = jobs[k].used /\ jobs'[k].id = jobs[k].id
        /\ jobs'[k].type = jobs[k].type /\ jobs'[k].delay = jobs[k].delay
  BY <1>4 DEF SlotEnters
<1>7. \A k \in Slot : InFlight(jobs[k])' => k # i /\ jobs'[k] = jobs[k] /\ InFlight(jobs[k])
  BY <1>4 DEF SlotEnters, InFlight, Outcome
<1>8. \A k \in Slot : \A x : QueuedSlot(k, x) => QueuedSlot(k, x)'
  BY <1>4 DEF SlotEnters, QueuedSlot
<1>9. \A k \in Slot \ {i} : jobs[k].used => jobs[k].id # id
  BY <1>4 DEF IInv, OneSlotPerId
<1>10. IdsIssued' /\ OneSlotPerId' /\ SingleFlight'
  <2>1. IdsIssued'
    <3>1. id \in 1 .. metrics.submitted
      BY <1>4 DEF IInv, IdsIssued
    <3>2. QED
      BY <1>2, <1>5, <1>6, <3>1 DEF IInv, IdsIssued
  <2>2. OneSlotPerId'
    BY <1>6 DEF IInv, OneSlotPerId
  <2>3. SingleFlight'
    BY <1>6, <1>7 DEF IInv, SingleFlight, SameJob
  <2>4. QED
    BY <2>1, <2>2, <2>3
<1>11. HandsHoldQueued'
  <2>1. \A d \in Client : client'[d].pc = "send" => QueuedSlot(client[d].idx, client[d].id)'
    <3>1. \A d \in Client : client[d].idx \in Slot
      BY DEF IInv, TypeOK, ClientPlace
    <3>2. \A d \in Client : client[d].pc = "send" =>
             client[d].idx # i /\ QueuedSlot(client[d].idx, client[d].id)
      BY <1>4 DEF IInv, HandsHoldQueued, QueuedSlot
    <3>3. \A d \in Client : client[d].pc = "send" => jobs'[client[d].idx] = jobs[client[d].idx]
      BY <1>4, <3>1, <3>2 DEF SlotEnters
    <3>4. QED
      BY <1>5, <3>2, <3>3 DEF QueuedSlot
  <2>2. \A m \in 1 .. Len(job_q') : \E k \in Slot : QueuedSlot(k, job_q[m])'
    <3>1. \A m \in 1 .. Len(job_q) : \E k \in Slot : QueuedSlot(k, job_q[m])
      BY DEF IInv, HandsHoldQueued
    <3>2. \A m \in 1 .. Len(job_q) : \E k \in Slot :
             jobs'[k].used /\ jobs'[k].id = job_q[m] /\ jobs'[k].state = "QUEUED"
      BY <1>8, <3>1 DEF QueuedSlot
    <3>3. QED
      BY <1>5, <3>2 DEF QueuedSlot
  <2>3. QED
    BY <1>5, <2>1, <2>2 DEF HandsHoldQueued
<1>12. OneHand'
  BY <1>5 DEF IInv, OneHand, InHand, InQueue, WorkerHolds
<1>13. NoStrandedJob'
  <2> SUFFICES ASSUME NEW k \in Slot, InFlight(jobs[k])'
               PROVE  IF jobs'[k].state = "RUNNING" THEN WorkerRuns(jobs[k].id)'
                      ELSE \/ \E d \in Client : InHand(d, jobs[k].id)'
                           \/ InQueue(jobs[k].id)'
                           \/ WorkerHolds(jobs[k].id)'
    BY DEF NoStrandedJob
  <2>1. k # i /\ jobs'[k] = jobs[k] /\ InFlight(jobs[k])
    BY <1>7
  <2>2. jobs[k].id # id
    BY <1>9, <2>1 DEF InFlight
  <2>3. ~WorkerRuns(jobs[k].id) /\ ~WorkerHolds(jobs[k].id)
    BY <1>5, <2>2 DEF WorkerRuns, WorkerHolds, id
  <2>4. QED
    BY <1>5, <2>1, <2>3 DEF IInv, NoStrandedJob, InHand, InQueue
<1>14. HistoryMatches'
  <2>1. \A k \in Slot : InFlight(jobs[k])' => jobs'[k].id \notin finished'
    BY <1>2, <1>7, <1>9 DEF IInv, HistoryMatches, InFlight
  <2>2. \A x \in accepted' \ finished' : \E k \in Slot : jobs'[k].used /\ jobs'[k].id = x /\ InFlight(jobs[k])'
    <3> SUFFICES ASSUME NEW x \in accepted \ finished, x # id
                 PROVE  \E k \in Slot : jobs'[k].used /\ jobs'[k].id = x /\ InFlight(jobs[k])'
      BY <1>2, <1>5
    <3>1. PICK k \in Slot : Holds(k, x) /\ InFlight(jobs[k])
      BY DEF IInv, HistoryMatches
    <3>2. k # i
      BY <1>4, <3>1 DEF Holds
    <3>3. jobs'[k] = jobs[k]
      BY <1>4, <3>2 DEF SlotEnters
    <3>4. QED
      BY <3>1, <3>3 DEF Holds, InFlight
  <2>3. QED
    BY <2>1, <2>2 DEF HistoryMatches, Holds
<1>15. QED
  BY <1>10, <1>11, <1>12, <1>13, <1>14 DEF IInv

\* Steps that touch neither the table nor anyone's hands.
LEMMA StutterIInv ==
  ASSUME IInv, TypeOK', metrics'.submitted = metrics.submitted,
         worker' = worker \/ (worker.pc = "notify" /\ worker'.pc = "idle"),
         UNCHANGED <<jobs, next_id, job_q, client, accepted, finished>>
  PROVE  IInv'
<1>1. IdsIssued' /\ OneSlotPerId' /\ SingleFlight' /\ HistoryMatches'
  BY DEF IInv, IdsIssued, OneSlotPerId, SingleFlight, HistoryMatches, InFlight, SameJob, Holds
<1>2. HandsHoldQueued'
  BY DEF IInv, HandsHoldQueued, QueuedSlot, Holds
<1>3. OneHand'
  BY DEF IInv, OneHand, InHand, InQueue, WorkerHolds
<1>4. NoStrandedJob'
  BY DEF IInv, NoStrandedJob, InFlight, InHand, InQueue, WorkerHolds, WorkerRuns
<1>5. QED
  BY <1>1, <1>2, <1>3, <1>4 DEF IInv

LEMMA NextIInv == IInv /\ [Next]_vars => IInv'
<1> SUFFICES ASSUME IInv, [Next]_vars
             PROVE  IInv'
  OBVIOUS
<1>0. TypeOK /\ TypeOK'
  BY NextTypeOK DEF IInv
<1>1. ASSUME NEW c \in Client, NEW r \in Request, SubmitReuse(c, r)
      PROVE  IInv'
  <2>1. PICK i \in Slot : FindsInFlight(Pruned(jobs), r, i) /\ accepted' = accepted \cup {jobs[i].id}
    BY <1>1 DEF SubmitReuse
  <2>2. InFlight(jobs[i])
    BY <2>1 DEF FindsInFlight, Pruned, InFlight, NoJob
  <2>3. \E S \in SUBSET {k \in Slot : InFlight(jobs[k])} :
          accepted' = accepted \cup {jobs[k].id : k \in S}
    <3>1. {i} \in SUBSET {k \in Slot : InFlight(jobs[k])}
      BY <2>2
    <3>2. accepted' = accepted \cup {jobs[k].id : k \in {i}}
      BY <2>1
    <3>3. QED
      BY <3>1, <3>2
  <2>4. metrics'.submitted = metrics.submitted
    BY <1>0, <1>1 DEF SubmitReuse, TypeOK, Metrics
  <2>5. QED
    BY <1>0, <1>1, <2>3, <2>4, PruneIInv DEF SubmitReuse
<1>2. ASSUME NEW c \in Client, NEW r \in Request, SubmitNew(c, r)
      PROVE  IInv'
  BY <1>0, <1>2, NewIInv
<1>3. ASSUME NEW c \in Client, NEW r \in Request, SubmitNoSlot(c, r)
      PROVE  IInv'
  <2>1. \E S \in SUBSET {k \in Slot : InFlight(jobs[k])} :
          accepted' = accepted \cup {jobs[k].id : k \in S}
    <3>1. accepted' = accepted \cup {jobs[k].id : k \in {}}
      BY <1>3 DEF SubmitNoSlot
    <3>2. QED
      BY <3>1
  <2>2. QED
    BY <1>0, <1>3, <2>1, PruneIInv DEF SubmitNoSlot
<1>4. ASSUME NEW c \in Client, SubmitSend(c)
      PROVE  IInv'
  BY <1>0, <1>4, SendIInv
<1>5. CASE GetMetrics
  BY <1>0, <1>5, StutterIInv DEF GetMetrics, TypeOK, Metrics
<1>6. CASE WorkerReceive
  BY <1>0, <1>6, ReceiveIInv
<1>7. CASE WorkerBegin
  BY <1>0, <1>7, BeginIInv
<1>8. ASSUME NEW outcome \in Outcome, WorkerFinish(outcome)
      PROVE  IInv'
  BY <1>0, <1>8, FinishIInv
<1>9. CASE WorkerNotify
  BY <1>0, <1>9, StutterIInv DEF WorkerNotify, Resting
<1>10. CASE LqiEventDelivered
  BY <1>0, <1>10, StutterIInv DEF LqiEventDelivered
<1>11. CASE Tick
  BY <1>0, <1>11, StutterIInv DEF Tick
<1>12. CASE UNCHANGED vars
  BY <1>0, <1>12, StutterIInv DEF vars
<1>13. QED
  BY <1>1, <1>2, <1>3, <1>4, <1>5, <1>6, <1>7, <1>8, <1>9, <1>10, <1>11, <1>12
  DEF Next, Submit, Worker

-----------------------------------------------------------------------------
(***************************************************************************)
(* What the invariant gives.                                               *)
(***************************************************************************)

\* The inductive invariant holds in every reachable state.
THEOREM InductiveInvariant == Spec => []IInv
BY InitIInv, NextIInv, PTL DEF Spec

\* The xQueueSend of job_queue_submit never finds the queue full, whatever
\* the number of clients and slots: its rollback is dead code.
THEOREM SendAlwaysFits == Spec => []SendNeverFails
BY InductiveInvariant, RoomToSend, PTL

\* No job in flight is ever stranded in the table.
THEOREM NothingStranded == Spec => []NoStrandedJob
<1>1. IInv => NoStrandedJob
  BY DEF IInv
<1>2. QED
  BY InductiveInvariant, <1>1, PTL

\* No two jobs of the same kind are in flight at the same time.
THEOREM SingleFlightHolds == Spec => []SingleFlight
<1>1. IInv => SingleFlight
  BY DEF IInv
<1>2. QED
  BY InductiveInvariant, <1>1, PTL

\* An id a client was given can be polled until its job has completed.
THEOREM AcceptedStaysPollable == Spec => []AcceptedNotLost
<1>1. IInv => AcceptedNotLost
  <2> SUFFICES ASSUME IInv, NEW id \in accepted \ finished
               PROVE  JobGet(id) \in {"QUEUED", "RUNNING"}
    BY DEF AcceptedNotLost
  <2>1. PICK i \in Slot : Holds(i, id) /\ InFlight(jobs[i])
    BY DEF IInv, HistoryMatches
  <2>2. \A k \in Slot : jobs[k].used /\ jobs[k].id = id => k = i
    BY <2>1 DEF IInv, OneSlotPerId, Holds
  <2>3. Finds(jobs, id, i)
    BY <2>1, <2>2, JobQueueAssumption DEF Finds, Holds, Slot
  <2>4. (CHOOSE k \in Slot : Finds(jobs, id, k)) = i
    BY <2>2, <2>3 DEF Finds
  <2>5. ~Missing(jobs, id)
    BY <2>1 DEF Missing, Holds
  <2>6. QED
    BY <2>1, <2>4, <2>5 DEF JobGet, InFlight
<1>2. QED
  BY InductiveInvariant, <1>1, PTL

-----------------------------------------------------------------------------
(***************************************************************************)
(* What one step may do to the slot table.                                 *)
(***************************************************************************)

\* The worker starts the job in slot i, or completes the one it runs there.
Starts(i) == worker.pc = "begin" /\ QueuedSlot(i, worker.id) /\ SlotEnters(i, "RUNNING")

Completes(i, outcome) ==
    /\ WorkerFinish(outcome)
    /\ Holds(i, worker.id) /\ jobs[i].state = "RUNNING" /\ SlotEnters(i, outcome)

\* The id the worker holds is that of a queued slot, the id it runs that of the
\* running one, so that both lookups of execute_job find the job's own slot.
LEMMA BeginStarts ==
  ASSUME IInv, WorkerBegin
  PROVE  /\ \E i \in Slot : Starts(i)
         /\ UNCHANGED <<next_id, metrics>>
<1>1. PICK q \in Slot : QueuedSlot(q, worker.id)
  BY DEF WorkerBegin, IInv, HandsHoldQueued
<1>2. PICK i \in Slot :
        Finds(jobs, worker.id, i) /\ jobs' = [jobs EXCEPT ![i] = Entered(@, "RUNNING")]
  BY <1>1 DEF WorkerBegin, Missing, QueuedSlot
<1>3. i = q
  BY <1>1, <1>2 DEF IInv, OneSlotPerId, Finds, QueuedSlot
<1>4. SlotEnters(i, "RUNNING")
  BY <1>2, SlotEntersState DEF IInv, JobState
<1>5. QED
  BY <1>1, <1>3, <1>4 DEF Starts, WorkerBegin

LEMMA FinishCompletes ==
  ASSUME IInv, NEW outcome \in Outcome, WorkerFinish(outcome)
  PROVE  /\ \E i \in Slot : Completes(i, outcome)
         /\ metrics' = IF outcome = "SUCCEEDED"
                       THEN [metrics EXCEPT !.completed = @ + 1]
                       ELSE [metrics EXCEPT !.failed = @ + 1]
<1>1. PICK q \in Slot : Holds(q, worker.id) /\ jobs[q].state = "RUNNING"
  BY DEF WorkerFinish, IInv, HandsHoldQueued
<1>2. ~Missing(jobs, worker.id)
  BY <1>1 DEF Missing, Holds
<1>3. PICK i \in Slot :
        Finds(jobs, worker.id, i) /\ jobs' = [jobs EXCEPT ![i] = Entered(@, outcome)]
  BY <1>2 DEF WorkerFinish
<1>4. i = q
  BY <1>1, <1>3 DEF IInv, OneSlotPerId, Finds, Holds
<1>5. SlotEnters(i, outcome)
  BY <1>3, SlotEntersState DEF IInv, JobState, Outcome
<1>6. QED
  BY <1>1, <1>2, <1>4, <1>5 DEF Completes, WorkerFinish

\* The five things a step does to the table: nothing, a prune, a new job, a
\* start and a completion.
LEMMA TableStep ==
  ASSUME IInv, [Next]_vars
  PROVE  \/ UNCHANGED jobs
         \/ jobs' = Pruned(jobs)
         \/ \E c \in Client, r \in Request : SubmitNew(c, r)
         \/ \E i \in Slot : Starts(i)
         \/ \E i \in Slot, outcome \in Outcome : Completes(i, outcome)
<1>1. ASSUME NEW c \in Client, SubmitSend(c)
      PROVE  UNCHANGED jobs
  BY <1>1, RoomToSend DEF SubmitSend, SendNeverFails
<1>2. QED
  BY <1>1, BeginStarts, FinishCompletes
  DEF Next, vars, Submit, Worker, SubmitReuse, SubmitNoSlot, GetMetrics, WorkerReceive,
      WorkerNotify, LqiEventDelivered, Tick

\* A job is executed at most once (execute_job).
THEOREM JobsRunOnce == Spec => ExecutedOnce
<1>1. IInv /\ [Next]_vars => [RunsOnce]_vars
  <2> SUFFICES ASSUME IInv, [Next]_vars
               PROVE  RunsOnce
    OBVIOUS
  <2>0. TypeOK
    BY DEF IInv
  <2>1. CASE UNCHANGED jobs
    BY <2>1 DEF RunsOnce
  <2>2. CASE jobs' = Pruned(jobs)
    BY <2>0, <2>2, PruneOnly DEF RunsOnce, Completed
  <2>3. ASSUME NEW c \in Client, NEW r \in Request, SubmitNew(c, r)
        PROVE  RunsOnce
    <3>1. PICK i \in Slot : jobs'[i] = NewJob(r) /\ OthersKept(i)
      BY <2>0, <2>3, NewSlot
    <3>2. jobs'[i].state = "QUEUED"
      BY <3>1 DEF NewJob
    <3>3. \A k \in Slot \ {i} : jobs'[k] = jobs[k] \/ ~jobs'[k].used
      BY <3>1 DEF OthersKept
    <3>4. QED
      BY <3>2, <3>3 DEF RunsOnce, Completed
  <2>4. ASSUME NEW i \in Slot, Starts(i)
        PROVE  RunsOnce
    <3>1. jobs[i].state = "QUEUED" /\ jobs[i].id \notin finished
      BY <2>4 DEF Starts, QueuedSlot, IInv, HistoryMatches, InFlight
    <3>2. QED
      BY <2>4, <3>1 DEF Starts, RunsOnce, SlotEnters, Completed
  <2>5. ASSUME NEW i \in Slot, NEW outcome \in Outcome, Completes(i, outcome)
        PROVE  RunsOnce
    BY <2>5 DEF Completes, RunsOnce, SlotEnters, Completed, Holds, Outcome
  <2>6. QED
    BY <2>1, <2>2, <2>3, <2>4, <2>5, TableStep
<1>2. QED
  BY InductiveInvariant, <1>1, PTL DEF ExecutedOnce, Spec

-----------------------------------------------------------------------------
(***************************************************************************)
(* The counters.                                                           *)
(***************************************************************************)

Live(js) == {i \in Slot : InFlight(js[i])}

\* The depth of a table whose jobs in flight are those of another, one more or
\* one less.
LEMMA DepthOfLive ==
  ASSUME NEW js, NEW ks
  PROVE  /\ InflightDepth(js) \in Nat
         /\ Live(ks) = Live(js) => InflightDepth(ks) = InflightDepth(js)
         /\ \A i \in Slot : i \notin Live(js) /\ Live(ks) = Live(js) \cup {i} =>
               InflightDepth(ks) = InflightDepth(js) + 1
         /\ \A i \in Live(js) : Live(ks) = Live(js) \ {i} =>
               InflightDepth(ks) = InflightDepth(js) - 1
<1>1. IsFiniteSet(Slot)
  BY JobQueueAssumption, FS_Interval DEF Slot
<1>2. IsFiniteSet(Live(js))
  <2>1. Live(js) \in SUBSET Slot
    BY DEF Live
  <2>2. QED
    BY <1>1, <2>1, FS_Subset
<1>3. InflightDepth(js) = Cardinality(Live(js)) /\ InflightDepth(ks) = Cardinality(Live(ks))
  BY DEF InflightDepth, Live
<1>4. InflightDepth(js) \in Nat
  BY DepthType
<1>5. ASSUME NEW i \in Slot, i \notin Live(js), Live(ks) = Live(js) \cup {i}
      PROVE  InflightDepth(ks) = InflightDepth(js) + 1
  BY <1>2, <1>3, <1>5, FS_AddElement
<1>6. ASSUME NEW i \in Live(js), Live(ks) = Live(js) \ {i}
      PROVE  InflightDepth(ks) = InflightDepth(js) - 1
  BY <1>2, <1>3, <1>6, FS_RemoveElement
<1>7. QED
  BY <1>3, <1>4, <1>5, <1>6

\* The metrics are advanced together with the table, although submit, finish and
\* poll do so in critical sections of their own.
LEMMA NextMetrics ==
  ASSUME IInv, MetricsBalance, [Next]_vars
  PROVE  MetricsBalance'
<1>0. TypeOK /\ metrics \in Metrics
  BY DEF IInv, TypeOK
<1>1. InflightDepth(jobs) \in Nat /\ InflightDepth(jobs') \in Nat
  BY DepthType
<1>2. (Live(jobs))' = Live(jobs')
  BY DEF Live, InFlight
<1> DEFINE Same == InflightDepth(jobs') = InflightDepth(jobs)
<1>3. CASE UNCHANGED jobs /\ (UNCHANGED metrics \/ GetMetrics)
  BY <1>0, <1>1, <1>3 DEF MetricsBalance, Metrics, GetMetrics
<1>4. ASSUME jobs' = Pruned(jobs)
      PROVE  Same
  <2>1. \A k \in Slot : InFlight(jobs'[k]) <=> InFlight(jobs[k])
    BY <1>0, <1>4, PruneOnly DEF InFlight, Completed
  <2>2. Live(jobs') = Live(jobs)
    BY <2>1 DEF Live
  <2>3. QED
    BY <2>2, DepthOfLive
<1>5. ASSUME NEW c \in Client, NEW r \in Request, SubmitReuse(c, r) \/ SubmitNoSlot(c, r)
      PROVE  MetricsBalance'
  <2>1. Same
    BY <1>4, <1>5 DEF SubmitReuse, SubmitNoSlot
  <2>2. metrics' \in {metrics, [metrics EXCEPT !.dedup = @ + 1]}
    BY <1>5 DEF SubmitReuse, SubmitNoSlot
  <2>3. QED
    BY <1>0, <1>1, <2>1, <2>2 DEF MetricsBalance, Metrics
<1>6. ASSUME NEW c \in Client, NEW r \in Request, SubmitNew(c, r)
      PROVE  MetricsBalance'
  <2>1. PICK i \in Slot : ~InFlight(jobs[i]) /\ jobs'[i] = NewJob(r) /\ OthersKept(i)
    BY <1>0, <1>6, NewSlot
  <2>2. \A k \in Slot : InFlight(jobs'[k]) <=> k = i \/ InFlight(jobs[k])
    BY <2>1 DEF NewJob, OthersKept, InFlight, Completed
  <2>3. i \notin Live(jobs) /\ Live(jobs') = Live(jobs) \cup {i}
    BY <2>1, <2>2 DEF Live
  <2>4. InflightDepth(jobs') = InflightDepth(jobs) + 1
    BY <2>3, DepthOfLive
  <2> DEFINE d == InflightDepth(jobs')
             p == IF d > metrics.peak THEN d ELSE metrics.peak
  <2>5. metrics' = [metrics EXCEPT !.submitted = @ + 1, !.depth = d, !.peak = p]
    BY <1>0, <1>6 DEF SubmitNew, Metrics
  <2>6. /\ metrics'.submitted = metrics.submitted + 1 /\ metrics'.depth = d
        /\ metrics'.peak = p /\ metrics'.completed = metrics.completed
        /\ metrics'.failed = metrics.failed
    BY <1>0, <2>5 DEF Metrics
  <2>7. QED
    BY <1>0, <1>1, <2>4, <2>6 DEF MetricsBalance, Metrics
<1>7. CASE WorkerBegin
  <2>1. PICK i \in Slot : Starts(i)
    BY <1>7, BeginStarts
  <2>2. UNCHANGED metrics
    BY <1>7, BeginStarts
  <2>3. \A k \in Slot : InFlight(jobs'[k]) <=> InFlight(jobs[k])
    BY <2>1 DEF Starts, SlotEnters, QueuedSlot, InFlight
  <2>4. Same
    BY <2>3, DepthOfLive DEF Live
  <2>5. QED
    BY <2>2, <2>4 DEF MetricsBalance
<1>8. ASSUME NEW outcome \in Outcome, WorkerFinish(outcome)
      PROVE  MetricsBalance'
  <2>1. PICK i \in Slot : Completes(i, outcome)
    BY <1>8, FinishCompletes
  <2>2. metrics' \in {[metrics EXCEPT !.completed = @ + 1], [metrics EXCEPT !.failed = @ + 1]}
    BY <1>8, FinishCompletes
  <2>3. /\ InFlight(jobs[i])
        /\ \A k \in Slot : InFlight(jobs'[k]) <=> k # i /\ InFlight(jobs[k])
    BY <2>1 DEF Completes, SlotEnters, Holds, InFlight, Outcome
  <2>4. i \in Live(jobs) /\ Live(jobs') = Live(jobs) \ {i}
    BY <2>3 DEF Live
  <2>5. InflightDepth(jobs') = InflightDepth(jobs) - 1
    BY <2>4, DepthOfLive
  <2>6. /\ metrics'.submitted = metrics.submitted
        /\ metrics'.depth = metrics.depth /\ metrics'.peak = metrics.peak
        /\ metrics'.completed + metrics'.failed = metrics.completed + metrics.failed + 1
    BY <1>0, <2>2 DEF Metrics
  <2>7. QED
    BY <1>0, <1>1, <2>5, <2>6 DEF MetricsBalance, Metrics
<1>9. ASSUME NEW c \in Client, SubmitSend(c)
      PROVE  UNCHANGED <<jobs, metrics>>
  BY <1>9, RoomToSend DEF SubmitSend, SendNeverFails
<1>10. QED
  BY <1>3, <1>5, <1>6, <1>7, <1>8, <1>9
  DEF Next, vars, Submit, Worker, GetMetrics, WorkerReceive, WorkerNotify,
      LqiEventDelivered, Tick

\* The counters account for every job that was ever submitted, whatever the
\* number of clients and slots (zgw_job_metrics_t).
THEOREM MetricsAlwaysBalance == Spec => []MetricsBalance
<1>1. Init => MetricsBalance
  <2> SUFFICES ASSUME Init PROVE MetricsBalance
    OBVIOUS
  <2>1. Live(jobs) = {}
    BY DEF Init, NoJob, Live, InFlight
  <2>2. InflightDepth(jobs) = 0
    BY <2>1, FS_EmptySet DEF InflightDepth, Live
  <2>3. QED
    BY <2>2 DEF Init, MetricsBalance
<1>2. IInv /\ MetricsBalance /\ [Next]_vars => MetricsBalance'
  BY NextMetrics
<1>3. QED
  BY InductiveInvariant, <1>1, <1>2, PTL DEF Spec

-----------------------------------------------------------------------------
(***************************************************************************)
(* What leaves the table.                                                  *)
(***************************************************************************)

\* What a submission may do to a result: nothing, let it expire, or evict it
\* from a full table of which it is the oldest.
KeepsResult(i) ==
    Completed(jobs[i]) /\ ~(jobs'[i].used /\ jobs'[i].id = jobs[i].id) =>
        \/ Expired(jobs[i])
        \/ \A k \in Slot :
             /\ jobs[k].used /\ ~Expired(jobs[k])
             /\ Completed(jobs[k]) => jobs[i].updated <= jobs[k].updated

LEMMA PruneKeeps ==
  ASSUME NEW i \in Slot, ~Expired(jobs[i])
  PROVE  Pruned(jobs)[i] = jobs[i]
BY DEF Pruned

\* An accepted job's result stays pollable until it has expired or is the oldest
\* of a full table (job_queue_prune_completed_jobs, job_queue_alloc_slot_index).
THEOREM ResultsStay == Spec => ResultKept
<1>1. IInv /\ [Next]_vars => [\A i \in Slot : KeepsResult(i)]_vars
  <2> SUFFICES ASSUME IInv, [Next]_vars, NEW i \in Slot
               PROVE  KeepsResult(i)
    OBVIOUS
  <2>1. CASE UNCHANGED jobs
    BY <2>1 DEF KeepsResult, Completed
  <2>2. CASE jobs' = Pruned(jobs)
    BY <2>2, PruneKeeps DEF KeepsResult, Completed
  <2>3. ASSUME NEW c \in Client, NEW r \in Request, SubmitNew(c, r)
        PROVE  KeepsResult(i)
    <3>1. PICK n \in Slot :
            Allocates(Pruned(jobs), n) /\ jobs' = [Pruned(jobs) EXCEPT ![n] = NewJob(r)]
      BY <2>3 DEF SubmitNew
    <3>2. \A k \in Slot : Pruned(jobs)[k].used => ~Expired(jobs[k]) /\ Pruned(jobs)[k] = jobs[k]
      BY DEF Pruned, NoJob
    <3>3. i # n => jobs'[i] = Pruned(jobs)[i]
      BY <3>1
    <3>4. CASE ~Pruned(jobs)[n].used
      BY <3>3, <3>4, PruneKeeps DEF KeepsResult, Completed
    <3>5. CASE \A k \in Slot : Pruned(jobs)[k].used
      <4>1. i = n => \A k \in Slot : Completed(jobs[k]) => jobs[i].updated <= jobs[k].updated
        BY <3>1, <3>2, <3>5 DEF Allocates
      <4>2. QED
        BY <3>2, <3>3, <3>5, <4>1, PruneKeeps DEF KeepsResult, Completed
    <3>6. QED
      BY <3>1, <3>4, <3>5 DEF Allocates
  <2>4. ASSUME NEW k \in Slot, NEW s, SlotEnters(k, s)
        PROVE  KeepsResult(i)
    BY <2>4 DEF SlotEnters, KeepsResult, Completed
  <2>5. QED
    BY <2>1, <2>2, <2>3, <2>4, TableStep DEF Starts, Completes
<1>2. QED
  BY InductiveInvariant, <1>1, PTL DEF ResultKept, KeepsResult, Spec

-----------------------------------------------------------------------------
(***************************************************************************)
(* The queue implements the single-flight service.                         *)
(***************************************************************************)

\* What a poll of a job in a given state is answered.
Answered(state) == CASE state = "RUNNING" -> "running"
                     [] state = "QUEUED"  -> "waiting"
                     [] OTHER             -> "done"

\* With one slot per id, the mapped status and kind of an id are those of the
\* slot that holds it.
LEMMA MappedSlot ==
  ASSUME OneSlotPerId, NEW i \in Slot, NEW id \in Id, Holds(i, id)
  PROVE  /\ ServiceStatus[id] = Answered(jobs[i].state)
         /\ ServiceKind[id] = IF InFlight(jobs[i]) THEN KindOf(jobs[i]) ELSE NoKind
<1>1. \A k \in Slot : Holds(k, id) <=> k = i
  BY DEF OneSlotPerId, Holds
<1>2. ServiceStatus[id] = Answered(jobs[i].state)
  BY <1>1 DEF ServiceStatus, Answered
<1>3. InFlight(jobs[i]) => (CHOOSE k \in Slot : Holds(k, id) /\ InFlight(jobs[k])) = i
  BY <1>1
<1>4. QED
  BY <1>1, <1>2, <1>3 DEF ServiceKind

LEMMA MappedAbsent ==
  ASSUME NEW id \in Id, \A i \in Slot : ~Holds(i, id)
  PROVE  ServiceStatus[id] = "unknown" /\ ServiceKind[id] = NoKind
BY DEF ServiceStatus, ServiceKind

\* The same after a step.
LEMMA MappedSlotNext ==
  ASSUME OneSlotPerId', NEW i \in Slot, NEW id \in Id, jobs'[i].used, jobs'[i].id = id
  PROVE  /\ ServiceStatus'[id] = Answered(jobs'[i].state)
         /\ ServiceKind'[id] = IF InFlight(jobs'[i]) THEN KindOf(jobs'[i]) ELSE NoKind
<1>1. \A k \in Slot : jobs'[k].used /\ jobs'[k].id = id <=> k = i
  BY DEF OneSlotPerId
<1>2. ServiceStatus'[id] = Answered(jobs'[i].state)
  BY <1>1 DEF ServiceStatus, Answered, Holds
<1>3. InFlight(jobs'[i]) =>
         (CHOOSE k \in Slot : jobs'[k].used /\ jobs'[k].id = id /\ InFlight(jobs'[k])) = i
  BY <1>1
<1>4. QED
  BY <1>1, <1>2, <1>3 DEF ServiceKind, Holds, InFlight

LEMMA MappedAbsentNext ==
  ASSUME NEW id \in Id, \A i \in Slot : ~(jobs'[i].used /\ jobs'[i].id = id)
  PROVE  ServiceStatus'[id] = "unknown" /\ ServiceKind'[id] = NoKind
BY DEF ServiceStatus, ServiceKind, Holds, InFlight

\* The slot that holds an id holds it after the step too, or the id is free.
LEMMA MappedFunctions ==
  /\ ServiceStatus = [id \in Id |-> ServiceStatus[id]]
  /\ ServiceKind = [id \in Id |-> ServiceKind[id]]
  /\ ServiceStatus' = [id \in Id |-> ServiceStatus'[id]]
  /\ ServiceKind' = [id \in Id |-> ServiceKind'[id]]
BY DEF ServiceStatus, ServiceKind

\* An id whose slot is left alone keeps its status and kind; one whose result is
\* dropped becomes unknown.
LEMMA MappedKept ==
  ASSUME OneSlotPerId, OneSlotPerId', NEW id \in Id, NEW i \in Slot, Holds(i, id),
         jobs'[i] = jobs[i]
  PROVE  ServiceStatus'[id] = ServiceStatus[id] /\ ServiceKind'[id] = ServiceKind[id]
<1>1. /\ ServiceStatus[id] = Answered(jobs[i].state)
      /\ ServiceKind[id] = IF InFlight(jobs[i]) THEN KindOf(jobs[i]) ELSE NoKind
  BY MappedSlot
<1>2. jobs'[i].used /\ jobs'[i].id = id
  BY DEF Holds
<1>3. /\ ServiceStatus'[id] = Answered(jobs'[i].state)
      /\ ServiceKind'[id] = IF InFlight(jobs'[i]) THEN KindOf(jobs'[i]) ELSE NoKind
  BY <1>2, MappedSlotNext
<1>4. QED
  BY <1>1, <1>3

\* A prune is the service's Forget.
LEMMA PruneForgets ==
  ASSUME TypeOK, OneSlotPerId, OneSlotPerId', jobs' = Pruned(jobs)
  PROVE  Service!Forget
<1> DEFINE drop == {id \in Id : ServiceStatus[id] = "done" /\ ServiceStatus'[id] = "unknown"}
<1>1. \A k \in Slot : \/ jobs'[k] = jobs[k]
                      \/ Completed(jobs[k]) /\ ~jobs'[k].used
  BY PruneOnly
<1>2. ASSUME NEW id \in Id
      PROVE  /\ ServiceStatus'[id] = IF id \in drop THEN "unknown" ELSE ServiceStatus[id]
             /\ ServiceKind'[id] = ServiceKind[id]
  <2>1. CASE \A i \in Slot : ~Holds(i, id)
    <3>1. \A i \in Slot : ~(jobs'[i].used /\ jobs'[i].id = id)
      BY <1>1, <2>1 DEF Holds
    <3>2. QED
      BY <2>1, <3>1, MappedAbsent, MappedAbsentNext
  <2>2. ASSUME NEW i \in Slot, Holds(i, id), jobs'[i] = jobs[i]
        PROVE  ServiceStatus'[id] = ServiceStatus[id] /\ ServiceKind'[id] = ServiceKind[id]
    BY <2>2, MappedKept
  <2>3. ASSUME NEW i \in Slot, Holds(i, id), Completed(jobs[i]), ~jobs'[i].used
        PROVE  id \in drop /\ ServiceStatus'[id] = "unknown" /\ ServiceKind'[id] = ServiceKind[id]
    <3>1. \A k \in Slot : ~(jobs'[k].used /\ jobs'[k].id = id)
      BY <1>1, <2>3 DEF OneSlotPerId, Holds
    <3>2. ServiceStatus[id] = "done" /\ ServiceKind[id] = NoKind
      BY <2>3, MappedSlot DEF Answered, Completed, InFlight
    <3>3. QED
      BY <3>1, <3>2, MappedAbsentNext
  <2>4. QED
    BY <1>1, <2>1, <2>2, <2>3
<1>3. drop \in SUBSET {id \in Id : ServiceStatus[id] = "done"}
  OBVIOUS
<1>4. ServiceStatus' = [id \in Id |-> IF id \in drop THEN "unknown" ELSE ServiceStatus[id]]
  BY <1>2, MappedFunctions
<1>5. ServiceKind' = ServiceKind
  BY <1>2, MappedFunctions
<1>6. QED
  BY <1>3, <1>4, <1>5 DEF Service!Forget

\* A submission that fills a slot is the service's Create.
LEMMA NewCreates ==
  ASSUME IInv, IInv', NEW c \in Client, NEW r \in Request, SubmitNew(c, r)
  PROVE  \E id \in Id, k \in {KindOf(q) : q \in Request} : Service!Create(id, k)
<1> DEFINE kind == KindOf(r)
           drop == {id \in Id : ServiceStatus[id] = "done" /\ ServiceStatus'[id] = "unknown"}
<1>0. TypeOK /\ OneSlotPerId /\ OneSlotPerId' /\ next_id \in Id
  BY DEF IInv, TypeOK
<1>1. PICK i \in Slot : ~InFlight(jobs[i]) /\ jobs'[i] = NewJob(r) /\ OthersKept(i)
  BY <1>0, NewSlot
<1>2. /\ jobs'[i].used /\ jobs'[i].id = next_id /\ jobs'[i].state = "QUEUED"
      /\ KindOf(jobs'[i]) = kind
  BY <1>1 DEF NewJob, KindOf
<1>3. \A k \in Slot : ~Holds(k, next_id)
  <2>1. metrics.submitted \in Nat /\ metrics.submitted < IdMax
    BY <1>0, JobQueueAssumption DEF SubmitNew, TypeOK, Metrics
  <2>2. next_id = metrics.submitted + 1
    BY <2>1, JobQueueAssumption DEF IInv, IdsIssued
  <2>3. QED
    BY <2>1, <2>2 DEF IInv, IdsIssued, Holds
<1>4. ServiceStatus[next_id] = "unknown"
  BY <1>0, <1>3, MappedAbsent
<1>5. ASSUME NEW id \in Id, ServiceStatus[id] \in {"waiting", "running"}
      PROVE  ServiceKind[id] # kind
  <2>1. PICK k \in Slot : Holds(k, id)
    BY <1>5, MappedAbsent
  <2>2. InFlight(jobs[k]) /\ ServiceKind[id] = KindOf(jobs[k])
    BY <1>0, <1>5, <2>1, MappedSlot DEF Answered, InFlight, Holds
  <2>3. Pruned(jobs)[k] = jobs[k]
    BY <2>2 DEF Pruned, Expired, InFlight, Completed
  <2>4. ~SameJob(jobs[k], r)
    BY <2>2, <2>3 DEF SubmitNew, NoneInFlight
  <2>5. QED
    BY <2>2, <2>4 DEF KindOf, SameJob
<1>6. ServiceStatus'[next_id] = "waiting" /\ ServiceKind'[next_id] = kind
  BY <1>0, <1>2, MappedSlotNext DEF Answered, InFlight
<1>7. ASSUME NEW id \in Id, id # next_id
      PROVE  /\ ServiceStatus'[id] = IF id \in drop THEN "unknown" ELSE ServiceStatus[id]
             /\ ServiceKind'[id] = ServiceKind[id]
  <2>1. \A k \in Slot : jobs'[k].used /\ jobs'[k].id = id => k # i /\ jobs'[k] = jobs[k]
    BY <1>1, <1>2, <1>7 DEF OthersKept
  <2>2. CASE \A k \in Slot : ~(jobs'[k].used /\ jobs'[k].id = id)
    <3>1. ServiceStatus'[id] = "unknown" /\ ServiceKind'[id] = NoKind
      BY <2>2, MappedAbsentNext
    <3>2. CASE \A k \in Slot : ~Holds(k, id)
      BY <3>1, <3>2, MappedAbsent
    <3>3. ASSUME NEW k \in Slot, Holds(k, id)
          PROVE  ServiceStatus[id] = "done" /\ ServiceKind[id] = NoKind
      <4>1. Completed(jobs[k])
        <5>1. jobs[k] \in Job
          BY <1>0 DEF TypeOK
        <5>2. k # i => Completed(jobs[k])
          BY <1>1, <2>2, <3>3 DEF OthersKept, Holds
        <5>3. k = i => Completed(jobs[k])
          BY <1>1, <3>3, <5>1 DEF InFlight, Completed, Holds, Job, JobState
        <5>4. QED
          BY <5>2, <5>3
      <4>2. QED
        BY <1>0, <3>3, <4>1, MappedSlot DEF Answered, Completed, InFlight
    <3>4. QED
      BY <3>1, <3>2, <3>3
  <2>3. ASSUME NEW k \in Slot, jobs'[k].used, jobs'[k].id = id
        PROVE  ServiceStatus'[id] = ServiceStatus[id] /\ ServiceKind'[id] = ServiceKind[id]
    BY <1>0, <2>1, <2>3, MappedKept DEF Holds
  <2>4. QED
    BY <2>2, <2>3
<1>8. drop \in SUBSET {id \in Id : ServiceStatus[id] = "done"}
  OBVIOUS
<1>9. ServiceStatus' = [id \in Id |-> IF id = next_id THEN "waiting"
                                      ELSE IF id \in drop THEN "unknown"
                                      ELSE ServiceStatus[id]]
  BY <1>6, <1>7, MappedFunctions
<1>10. ServiceKind' = [ServiceKind EXCEPT ![next_id] = kind]
  BY <1>6, <1>7, MappedFunctions
<1>11. Service!Create(next_id, kind)
  BY <1>4, <1>5, <1>8, <1>9, <1>10 DEF Service!Create, Service!Live
<1>12. QED
  BY <1>0, <1>11

LEMMA IssuedIsId ==
  ASSUME TypeOK, IdsIssued
  PROVE  \A i \in Slot : jobs[i].used => jobs[i].id \in Id
<1>1. metrics.submitted \in 0 .. SubmitBound
  BY DEF TypeOK, Metrics
<1>2. \A x \in 1 .. metrics.submitted : x \in Id
  BY <1>1, JobQueueAssumption DEF Id
<1>3. QED
  BY <1>2 DEF IdsIssued

\* The worker's first critical section is the service's Start: no other job runs.
LEMMA BeginIsStart ==
  ASSUME IInv, IInv', NEW i \in Slot, Starts(i)
  PROVE  \E id \in Id : Service!Start(id)
<1> DEFINE id == worker.id
<1>0. OneSlotPerId /\ OneSlotPerId' /\ jobs[i] \in Job
  BY DEF IInv, TypeOK
<1>1. Holds(i, id) /\ jobs[i].state = "QUEUED" /\ worker.pc = "begin" /\ SlotEnters(i, "RUNNING")
  BY DEF Starts, QueuedSlot, Holds
<1>2. id \in Id
  BY <1>1, IssuedIsId DEF IInv, Holds
<1>3. /\ jobs'[i].used /\ jobs'[i].id = id /\ jobs'[i].state = "RUNNING"
      /\ KindOf(jobs'[i]) = KindOf(jobs[i])
  BY <1>0, <1>1 DEF SlotEnters, Holds, KindOf, Job
<1> HIDE DEF id
<1>4. /\ ServiceStatus[id] = Answered(jobs[i].state)
      /\ ServiceKind[id] = IF InFlight(jobs[i]) THEN KindOf(jobs[i]) ELSE NoKind
  BY <1>0, <1>1, <1>2, MappedSlot
<1>5. /\ ServiceStatus'[id] = Answered(jobs'[i].state)
      /\ ServiceKind'[id] = IF InFlight(jobs'[i]) THEN KindOf(jobs'[i]) ELSE NoKind
  BY <1>0, <1>3, <1>2, MappedSlotNext
<1>6. ServiceStatus[id] = "waiting" /\ ServiceStatus'[id] = "running"
  BY <1>1, <1>3, <1>5, <1>4 DEF Answered
<1>7. InFlight(jobs[i]) /\ InFlight(jobs'[i])
  BY <1>1, <1>3 DEF InFlight, Holds
<1>8. ServiceKind'[id] = ServiceKind[id]
  BY <1>5, <1>4, <1>3, <1>7
<1>9. ASSUME NEW x \in Id
      PROVE  ServiceStatus[x] # "running"
  <2>1. ASSUME NEW k \in Slot, Holds(k, x)
        PROVE  jobs[k].state # "RUNNING"
    BY <1>1, <2>1 DEF IInv, NoStrandedJob, InFlight, Holds, WorkerRuns
  <2>2. QED
    BY <1>0, <2>1, MappedSlot, MappedAbsent DEF Answered
<1>10. ASSUME NEW x \in Id, x # id
      PROVE  ServiceStatus'[x] = ServiceStatus[x] /\ ServiceKind'[x] = ServiceKind[x]
  <2>1. CASE \A k \in Slot : ~Holds(k, x)
    <3>1. \A k \in Slot : ~(jobs'[k].used /\ jobs'[k].id = x)
      BY <1>1, <2>1 DEF SlotEnters, Holds
    <3>2. QED
      BY <2>1, <3>1, MappedAbsent, MappedAbsentNext
  <2>2. ASSUME NEW k \in Slot, Holds(k, x)
        PROVE  jobs'[k] = jobs[k]
    BY <1>1, <1>10, <2>2 DEF SlotEnters, Holds
  <2>3. QED
    BY <1>0, <2>1, <2>2, MappedKept
<1>11. ServiceStatus' = [ServiceStatus EXCEPT ![id] = "running"] /\ ServiceKind' = ServiceKind
  BY <1>6, <1>8, <1>10, MappedFunctions
<1>12. QED
  BY <1>2, <1>6, <1>9, <1>11 DEF Service!Start

\* The second one is its Finish.
LEMMA CompletionIsFinish ==
  ASSUME IInv, IInv', NEW i \in Slot, NEW outcome \in Outcome, Completes(i, outcome)
  PROVE  \E id \in Id : Service!Finish(id)
<1> DEFINE id == worker.id
<1>0. OneSlotPerId /\ OneSlotPerId' /\ jobs[i] \in Job
  BY DEF IInv, TypeOK
<1>1. Holds(i, id) /\ jobs[i].state = "RUNNING" /\ SlotEnters(i, outcome)
  BY DEF Completes
<1>2. id \in Id
  BY <1>1, IssuedIsId DEF IInv, Holds
<1>3. jobs'[i].used /\ jobs'[i].id = id /\ jobs'[i].state \in Outcome
  BY <1>0, <1>1 DEF SlotEnters, Holds, Job
<1> HIDE DEF id
<1>4. ServiceStatus[id] = Answered(jobs[i].state)
  BY <1>0, <1>1, <1>2, MappedSlot
<1>5. /\ ServiceStatus'[id] = Answered(jobs'[i].state)
      /\ ServiceKind'[id] = IF InFlight(jobs'[i]) THEN KindOf(jobs'[i]) ELSE NoKind
  BY <1>0, <1>3, <1>2, MappedSlotNext
<1>6. ~InFlight(jobs'[i])
  BY <1>3 DEF InFlight, Outcome
<1>7. ServiceStatus[id] = "running" /\ ServiceStatus'[id] = "done" /\ ServiceKind'[id] = NoKind
  BY <1>1, <1>3, <1>5, <1>4, <1>6 DEF Answered, Outcome
<1>8. ASSUME NEW x \in Id, x # id
      PROVE  ServiceStatus'[x] = ServiceStatus[x] /\ ServiceKind'[x] = ServiceKind[x]
  <2>1. CASE \A k \in Slot : ~Holds(k, x)
    <3>1. \A k \in Slot : ~(jobs'[k].used /\ jobs'[k].id = x)
      BY <1>1, <2>1 DEF SlotEnters, Holds
    <3>2. QED
      BY <2>1, <3>1, MappedAbsent, MappedAbsentNext
  <2>2. ASSUME NEW k \in Slot, Holds(k, x)
        PROVE  jobs'[k] = jobs[k]
    BY <1>1, <1>8, <2>2 DEF SlotEnters, Holds
  <2>3. QED
    BY <1>0, <2>1, <2>2, MappedKept
<1>9. /\ ServiceStatus' = [ServiceStatus EXCEPT ![id] = "done"]
      /\ ServiceKind' = [ServiceKind EXCEPT ![id] = NoKind]
  BY <1>7, <1>8, MappedFunctions
<1>10. QED
  BY <1>2, <1>7, <1>9 DEF Service!Finish

\* Every step of the queue, with its slots, hands and mutex, is a step of the
\* single-flight service or leaves it unchanged, for any number of clients,
\* slots and kinds of job (job_queue_submit, execute_job).
THEOREM ImplementsJobService == Spec => Service!Spec
<1>1. Init => Service!Init
  <2> SUFFICES ASSUME Init PROVE Service!Init
    OBVIOUS
  <2>1. \A i \in Slot : ~jobs[i].used
    BY DEF Init, NoJob
  <2>2. QED
    BY <2>1 DEF Service!Init, ServiceStatus, ServiceKind, Holds
<1>2. IInv /\ IInv' /\ [Next]_vars => [Service!Next]_(Service!vars)
  <2> SUFFICES ASSUME IInv, IInv', [Next]_vars
               PROVE  Service!Next \/ UNCHANGED Service!vars
    OBVIOUS
  <2>1. CASE UNCHANGED jobs
    BY <2>1 DEF Service!vars, ServiceStatus, ServiceKind, Holds, InFlight
  <2>2. CASE jobs' = Pruned(jobs)
    BY <2>2, PruneForgets DEF IInv, Service!Next
  <2>3. ASSUME NEW c \in Client, NEW r \in Request, SubmitNew(c, r)
        PROVE  Service!Next
    BY <2>3, NewCreates DEF Service!Next
  <2>4. ASSUME NEW i \in Slot, Starts(i)
        PROVE  Service!Next
    BY <2>4, BeginIsStart DEF Service!Next
  <2>5. ASSUME NEW i \in Slot, NEW outcome \in Outcome, Completes(i, outcome)
        PROVE  Service!Next
    BY <2>5, CompletionIsFinish DEF Service!Next
  <2>6. QED
    BY <2>1, <2>2, <2>3, <2>4, <2>5, TableStep
<1>3. QED
  BY InductiveInvariant, <1>1, <1>2, PTL DEF Spec, Service!Spec
=============================================================================
