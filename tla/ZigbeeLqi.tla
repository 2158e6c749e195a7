----------------------------- MODULE ZigbeeLqi -----------------------------
(***************************************************************************)
(* Link qualities: zigbee_service.c over the LQI cache of gateway_state.c. *)
(*                                                                         *)
(* The job worker asks the stack for the neighbours page by page and waits *)
(* for each answer, which the Zigbee task delivers through a callback into *)
(* a context on the worker's stack.  The Zigbee task itself copies its     *)
(* neighbour table into the cache after an announcement or a report, at    *)
(* most once per interval, and whoever builds the LQI payload does so when *)
(* the cache is still empty.  Each entry is written under the lock of the  *)
(* state store, one at a time, so that the three writers interleave.       *)
(*                                                                         *)
(* Of a measurement only its source is kept and, of its time (updated_ms), *)
(* whether the refresh under way had begun: entries of earlier ones age    *)
(* when the next begins.                                                   *)
(***************************************************************************)
EXTENDS Naturals, Sequences, SequencesExt, FiniteSetsExt

CONSTANTS
    Addr,       \* network addresses
    Capacity,   \* GATEWAY_STATE_LQI_CACHE_CAPACITY = MAX_DEVICES
    PageSize,   \* the most records of one answer of the stack
    MaxPages,   \* pages a refresh asks for at most: 8
    MaxTable,   \* bound: entries a page says the stack's table has, at most 255
    MaxScan     \* bound: entries a scan of the table finds

Scanner == {"zigbee", "builder"}
Source  == {"mgmt_lqi", "neighbor_table"}

ASSUME LqiAssumption ==
    /\ {Capacity, MaxPages} \subseteq Nat \ {0}
    /\ {PageSize, MaxTable, MaxScan} \subseteq Nat

VARIABLES
    started,    \* zigbee_started of the published network state
    cache,      \* lqi_cache
    recent,     \* last_live_lqi_refresh_us is less than the interval ago
    scan,       \* what each scanner still has to write
    worker,     \* the refresh the job worker is in
    pending,    \* requests the stack has not answered: their start index
    late        \* and those whose context is gone

vars == <<started, cache, recent, scan, worker, pending, late>>

Entry == [addr : Addr, source : Source, fresh : BOOLEAN]
Job   == [pc : {"idle", "wait", "write"}, out : Seq(Entry), next : Nat,
          total : Nat, err : BOOLEAN, sem : BOOLEAN, pages : Nat,
          left : Seq(Entry)]
Idle  == [pc |-> "idle", out |-> <<>>, next |-> 0, total |-> 0, err |-> TRUE,
          sem |-> FALSE, pages |-> 0, left |-> <<>>]

Init ==
    /\ started = FALSE
    /\ cache = <<>>
    /\ recent = FALSE
    /\ scan = [s \in Scanner |-> <<>>]
    /\ worker = Idle
    /\ pending = {} /\ late = {}

(***************************************************************************)
(* The cache.                                                              *)
(***************************************************************************)
Rows(c, a) == {i \in DOMAIN c : c[i].addr = a}
Has(c, a)  == Rows(c, a) # {}

\* Mutant: the entry was looked for before the lock was taken.
WrittenUnchecked(c, e) == IF Len(c) < Capacity THEN Append(c, e) ELSE c

\* Mutant: a full cache refuses the devices it has as well.
WrittenWithRoom(c, e) ==
    IF Len(c) = Capacity THEN c
    ELSE IF Has(c, e.addr)
    THEN [i \in DOMAIN c |-> IF c[i].addr = e.addr THEN e ELSE c[i]]
    ELSE Append(c, e)

\* Mutant: no capacity.
WrittenUnbounded(c, e) ==
    IF Has(c, e.addr)
    THEN [i \in DOMAIN c |-> IF c[i].addr = e.addr THEN e ELSE c[i]]
    ELSE Append(c, e)

\* gateway_state_update_lqi: nothing is ever removed, and a full cache refuses.
Written(c, e) ==
    IF Has(c, e.addr)
    THEN [i \in DOMAIN c |-> IF c[i].addr = e.addr THEN e ELSE c[i]]
    ELSE IF Len(c) < Capacity THEN Append(c, e) ELSE c

Aged(list) == [i \in DOMAIN list |-> [list[i] EXCEPT !.fresh = FALSE]]

(***************************************************************************)
(* The stack, which is external: its start, and what it reads from its     *)
(* neighbour table, which changes at any time.                             *)
(***************************************************************************)
Neighbours(n) == {list \in SeqOf(Addr, n) : IsInjective(list)}

Start ==
    /\ ~started
    /\ started' = TRUE
    /\ UNCHANGED <<cache, recent, scan, worker, pending, late>>

IntervalPasses ==
    /\ recent
    /\ recent' = FALSE
    /\ UNCHANGED <<started, cache, scan, worker, pending, late>>

(***************************************************************************)
(* zigbee_service_get_neighbor_lqi_snapshot, on the Zigbee task after an   *)
(* event and on the task of a payload builder while the cache is empty.    *)
(***************************************************************************)
Measured(addrs, source) ==
    [i \in 1 .. Len(addrs) |-> [addr |-> addrs[i], source |-> source,
                               fresh |-> TRUE]]

FirstOf(s, n) == SubSeq(s, 1, Min({Len(s), n}))

Scan(s) ==
    /\ started
    /\ scan[s] = <<>>
    /\ \E list \in Neighbours(MaxScan) :
          scan' = [scan EXCEPT ![s] =
                     Measured(FirstOf(list, Capacity), "neighbor_table")]

LiveEvent ==
    /\ Scan("zigbee")
    /\ ~recent
    /\ recent' = TRUE
    /\ UNCHANGED <<started, cache, worker, pending, late>>

BuildOnEmptyCache ==
    /\ Scan("builder")
    /\ cache = <<>>
    /\ UNCHANGED <<started, cache, recent, worker, pending, late>>

ScanWrites(s) ==
    /\ scan[s] # <<>>
    /\ cache' = Written(cache, Head(scan[s]))
    /\ scan' = [scan EXCEPT ![s] = Tail(@)]
    /\ UNCHANGED <<started, recent, worker, pending, late>>

(***************************************************************************)
(* zigbee_service_refresh_neighbor_lqi_snapshot, on the job worker.        *)
(***************************************************************************)
At(pc) == worker.pc = pc

BeginRefresh ==
    /\ At("idle")
    /\ started
    /\ worker' = [Idle EXCEPT !.pc = "wait"]
    /\ pending' = {0}
    /\ cache' = Aged(cache)
    /\ scan' = [s \in Scanner |-> Aged(scan[s])]
    /\ UNCHANGED <<started, recent, late>>

\* The stack's lock is not free for 2 s: the request is not sent.
RequestFails ==
    /\ pending # {}
    /\ pending' = {}
    /\ worker' = Idle
    /\ UNCHANGED <<started, cache, recent, scan, late>>

\* mgmt_lqi_rsp_cb, on the Zigbee task, writes into the context it was given.
Filled(w, start, list, total) ==
    [w EXCEPT !.out = FirstOf(@ \o Measured(list, "mgmt_lqi"), Capacity),
              !.total = total,
              !.next = (start + Len(list)) % 256,
              !.err = FALSE,
              !.sem = TRUE]

Refused(w) == [w EXCEPT !.err = TRUE, !.sem = TRUE]

ZigbeeTaskFree == scan["zigbee"] = <<>>

Answered(w, start) ==
    {Refused(w)} \cup
    {Filled(w, start, list, total) :
       list \in Neighbours(PageSize), total \in 0 .. MaxTable}

Answer ==
    /\ ZigbeeTaskFree
    /\ \E start \in pending : worker' \in Answered(worker, start)
    /\ pending' = {}
    /\ UNCHANGED <<started, cache, recent, scan, late>>

\* An answer after the time-out writes to memory that is no longer the request's:
\* memory in no use, the context of the next refresh in the same stack frame, or
\* what makes the gateway restart.
LateAnswerLost(start) ==
    /\ late' = late \ {start}
    /\ UNCHANGED <<started, cache, recent, scan, worker, pending>>

LateAnswerMisplaced(start) ==
    /\ ZigbeeTaskFree
    /\ late' = late \ {start}
    /\ At("wait")
    /\ worker' \in Answered(worker, start)
    /\ UNCHANGED <<started, cache, recent, scan, pending>>

LateAnswerCrashes ==
    /\ started' = FALSE /\ cache' = <<>> /\ recent' = FALSE
    /\ scan' = [s \in Scanner |-> <<>>]
    /\ worker' = Idle
    /\ pending' = {} /\ late' = {}

TimesOut ==
    /\ At("wait")
    /\ ~worker.sem
    /\ late' = late \cup pending
    /\ pending' = {}
    /\ worker' = Idle
    /\ UNCHANGED <<started, cache, recent, scan>>

\* Mutant: only the answers end the loop.
MoreEndless(w) == w.next < w.total /\ Len(w.out) < Capacity

More(w) == w.next < w.total /\ Len(w.out) < Capacity /\ w.pages + 1 < MaxPages

\* The next page's request takes the index the answer left; one that a misplaced
\* answer overtook is still under way.
TakeAnswer ==
    /\ At("wait")
    /\ worker.sem
    /\ late' = late \cup pending
    /\ \/ /\ ~worker.err /\ More(worker)
          /\ pending' = {worker.next}
          /\ worker' = [worker EXCEPT !.sem = FALSE, !.total = 0,
                             !.pages = IF @ < MaxPages THEN @ + 1 ELSE @]
       \/ /\ ~worker.err /\ ~More(worker)
          /\ pending' = {}
          /\ worker' = [Idle EXCEPT !.pc = "write", !.out = worker.out,
                                    !.left = worker.out]
       \/ worker.err /\ pending' = {} /\ worker' = Idle
    /\ UNCHANGED <<started, cache, recent, scan>>

WriteEntry ==
    /\ At("write")
    /\ worker.left # <<>>
    /\ cache' = Written(cache, Head(worker.left))
    /\ worker' = [worker EXCEPT !.left = Tail(@)]
    /\ UNCHANGED <<started, recent, scan, pending, late>>

EndRefresh ==
    /\ At("write")
    /\ worker.left = <<>>
    /\ worker' = Idle
    /\ UNCHANGED <<started, cache, recent, scan, pending, late>>

Work == RequestFails \/ TimesOut \/ TakeAnswer \/ WriteEntry
            \/ EndRefresh

Next ==
    \/ Start \/ IntervalPasses \/ LiveEvent \/ BuildOnEmptyCache \/ \E s \in Scanner : ScanWrites(s)
    \/ BeginRefresh \/ Work
    \/ Answer
    \/ \E start \in late : LateAnswerLost(start) \/ LateAnswerMisplaced(start)
                               \/ LateAnswerCrashes

\* The worker runs.  The stack need not answer, and nothing else has to happen.
Spec == Init /\ [][Next]_vars
FairSpec == Spec /\ WF_vars(Work)

(***************************************************************************)
(* Properties.                                                             *)
(***************************************************************************)
\* Every variable keeps its type, the cache and the request's buffer their
\* capacity.
TypeOK ==
    /\ {started, recent} \subseteq BOOLEAN
    /\ cache \in Seq(Entry) /\ Len(cache) <= Capacity
    /\ scan \in [Scanner -> Seq(Entry)]
    /\ worker \in Job /\ Len(worker.out) <= Capacity
    /\ pending \subseteq Nat /\ late \subseteq Nat

\* However the three writers interleave, a device has one entry: the row of the
\* LQI payload is the entry that every later measurement goes to.
OneEntryPerDevice == \A a \in Addr : \A i, j \in Rows(cache, a) : i = j

\* The cache shows a measurement of a device that is not older than the refresh
\* under way, or is full.  Only a payload builder, which reads the neighbour table
\* and writes it later, may have written an older one.
Visible(c, a) ==
    IF Has(c, a)
    THEN \A i \in Rows(c, a) : c[i].fresh \/ c[i].source = "neighbor_table"
    ELSE Len(c) = Capacity

\* When a refresh succeeds, each neighbour that was reported to it is visible as
\* soon as it was written, whatever the other writers do meanwhile and even when an
\* answer to an earlier request was taken for its own.
RefreshIsVisible ==
    At("write") =>
        \A i \in 1 .. (Len(worker.out) - Len(worker.left)) :
            Visible(cache, worker.out[i].addr)

\* A refresh comes to an end though the stack never answers, refuses, or sends
\* pages that bring it no further: the job worker is never kept for good.
RefreshEnds == ~At("idle") ~> At("idle")
=============================================================================
