----------------------------- MODULE JobService -----------------------------
(***************************************************************************)
(* What the job queue promises its clients, without slots, queue or mutex: *)
(* a single-flight service.  A submission either joins the live job of the *)
(* same kind or creates a new one; jobs run one at a time, each at most    *)
(* once; only the result of a completed job may be forgotten.              *)
(***************************************************************************)
EXTENDS Naturals

CONSTANTS Id,      \* the ids of jobs
          Kind,    \* jobs of one kind are never live together
          NoKind   \* the kind of an id that is not live

VARIABLES status,  \* what a poll of each id would be answered
          kind     \* the kind of each live job

vars == <<status, kind>>

Status == {"unknown", "waiting", "running", "done"}

Live(id) == status[id] \in {"waiting", "running"}

Init ==
    /\ status = [id \in Id |-> "unknown"]
    /\ kind = [id \in Id |-> NoKind]

\* A submission may drop completed results; it creates a job only when no
\* live job is of its kind, and reuses an id only after it was forgotten.
Create(id, k) ==
    /\ status[id] = "unknown"
    /\ \A other \in Id : Live(other) => kind[other] # k
    /\ \E drop \in SUBSET {other \in Id : status[other] = "done"} :
         status' = [other \in Id |-> IF other = id THEN "waiting"
                                     ELSE IF other \in drop THEN "unknown"
                                     ELSE status[other]]
    /\ kind' = [kind EXCEPT ![id] = k]

Forget ==
    /\ \E drop \in SUBSET {id \in Id : status[id] = "done"} :
         status' = [id \in Id |-> IF id \in drop THEN "unknown" ELSE status[id]]
    /\ UNCHANGED kind

Start(id) ==
    /\ status[id] = "waiting"
    /\ \A other \in Id : status[other] # "running"
    /\ status' = [status EXCEPT ![id] = "running"]
    /\ UNCHANGED kind

Finish(id) ==
    /\ status[id] = "running"
    /\ status' = [status EXCEPT ![id] = "done"]
    /\ kind' = [kind EXCEPT ![id] = NoKind]

Next ==
    \/ \E id \in Id, k \in Kind : Create(id, k)
    \/ Forget
    \/ \E id \in Id : Start(id) \/ Finish(id)

Spec == Init /\ [][Next]_vars

\* Every job that was created is run to its end.
Fairness == \A id \in Id : SF_vars(Start(id)) /\ WF_vars(Finish(id))

FairSpec == Spec /\ Fairness
=============================================================================
