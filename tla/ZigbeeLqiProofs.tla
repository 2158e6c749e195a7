--------------------------- MODULE ZigbeeLqiProofs ---------------------------
(* Theorems about ZigbeeLqi for every set of devices, every capacity of the *)
(* cache and every page the stack may send.                                 *)
EXTENDS ZigbeeLqi, SequenceTheorems, TLAPS

(***************************************************************************)
(* The cache: Written keeps it distinct, and shows what was written.       *)
(***************************************************************************)

\* A measurement that may stand for what a refresh found.
Showable(e) == e.fresh \/ e.source = "neighbor_table"

LEMMA CapacityType == Capacity \in Nat \ {0}
BY LqiAssumption

LEMMA WrittenType ==
  ASSUME NEW c \in Seq(Entry), NEW e \in Entry, Len(c) <= Capacity
  PROVE  /\ Written(c, e) \in Seq(Entry)
         /\ Len(Written(c, e)) <= Capacity /\ Len(Written(c, e)) >= Len(c)
<1> DEFINE new == [i \in DOMAIN c |-> IF c[i].addr = e.addr THEN e ELSE c[i]]
<1>1. Len(c) \in Nat /\ DOMAIN c = 1 .. Len(c) /\ \A i \in 1 .. Len(c) : c[i] \in Entry
  BY LenProperties, ElementOfSeq
<1>2. CASE Has(c, e.addr)
  <2>1. new \in [1 .. Len(c) -> Entry]
    BY <1>1
  <2>2. new \in Seq(Entry)
    BY <1>1, <2>1, SeqDef
  <2>3. Len(new) = Len(c)
    BY <1>1, <2>1, <2>2, LenProperties
  <2>4. Written(c, e) = new
    BY <1>2 DEF Written
  <2>5. QED
    BY <1>1, <2>2, <2>3, <2>4
<1>3. CASE ~Has(c, e.addr)
  BY <1>1, <1>3, AppendProperties, CapacityType DEF Written
<1>4. QED
  BY <1>2, <1>3

\* What Written does to each entry.
LEMMA WrittenEntries ==
  ASSUME NEW c \in Seq(Entry), NEW e \in Entry, Len(c) <= Capacity
  PROVE  LET w == Written(c, e) IN
         /\ Has(c, e.addr) =>
              /\ DOMAIN w = DOMAIN c
              /\ \A i \in DOMAIN c : w[i] = IF c[i].addr = e.addr THEN e ELSE c[i]
         /\ ~Has(c, e.addr) /\ Len(c) < Capacity =>
              /\ DOMAIN c = 1 .. Len(c) /\ DOMAIN w = 1 .. Len(c) + 1
              /\ w[Len(c) + 1] = e /\ \A i \in DOMAIN c : w[i] = c[i]
         /\ ~Has(c, e.addr) /\ Len(c) >= Capacity => w = c
<1> DEFINE w == Written(c, e)
<1>1. Len(c) \in Nat /\ DOMAIN c = 1 .. Len(c)
  BY LenProperties
<1>2. Has(c, e.addr) =>
              /\ DOMAIN w = DOMAIN c
              /\ \A i \in DOMAIN c : w[i] = IF c[i].addr = e.addr THEN e ELSE c[i]
  BY DEF Written
<1>3. ASSUME ~Has(c, e.addr), Len(c) < Capacity
      PROVE  /\ DOMAIN w = 1 .. Len(c) + 1
             /\ w[Len(c) + 1] = e /\ \A i \in DOMAIN c : w[i] = c[i]
  <2>1. w = Append(c, e)
    BY <1>3 DEF Written
  <2>2. w \in Seq(Entry) /\ Len(w) = Len(c) + 1
    BY <2>1, AppendProperties
  <2>3. DOMAIN w = 1 .. Len(c) + 1
    BY <2>2, LenProperties
  <2>4. QED
    BY <1>1, <2>1, <2>3, AppendProperties
<1>4. ASSUME ~Has(c, e.addr), Len(c) >= Capacity
      PROVE  w = c
  <2>1. ~(Len(c) < Capacity)
    BY <1>1, <1>4, CapacityType
  <2>2. QED
    BY <1>4, <2>1, Zenon DEF Written
<1>5. QED
  BY <1>1, <1>2, <1>3, <1>4

\* A device has one entry in c.
Distinct(c) == \A a \in Addr : \A i, j \in Rows(c, a) : i = j

LEMMA WrittenDistinct ==
  ASSUME NEW c \in Seq(Entry), NEW e \in Entry, Len(c) <= Capacity, Distinct(c)
  PROVE  Distinct(Written(c, e))
<1> DEFINE w == Written(c, e)
<1>0. Len(c) \in Nat /\ Capacity \in Nat
  BY LenProperties, CapacityType
<1>1. CASE Has(c, e.addr)
  <2>1. \A a \in Addr : Rows(w, a) = Rows(c, a)
    BY <1>1, WrittenEntries DEF Rows
  <2>2. QED
    BY <2>1 DEF Distinct
<1>2. CASE ~Has(c, e.addr) /\ Len(c) < Capacity
  <2> SUFFICES ASSUME NEW a \in Addr, NEW i \in Rows(w, a), NEW j \in Rows(w, a)
               PROVE  i = j
    BY DEF Distinct
  <2>1. DOMAIN c = 1 .. Len(c) /\ DOMAIN w = 1 .. Len(c) + 1
        /\ w[Len(c) + 1] = e /\ \A k \in DOMAIN c : w[k] = c[k]
    BY <1>2, WrittenEntries
  <2>2. i \in 1 .. Len(c) + 1 /\ j \in 1 .. Len(c) + 1 /\ w[i].addr = a /\ w[j].addr = a
    BY <2>1 DEF Rows
  <2>3. \A k \in 1 .. Len(c) : c[k].addr # e.addr
    BY <1>2, <2>1 DEF Has, Rows
  <2>4. CASE i \in 1 .. Len(c) /\ j \in 1 .. Len(c)
    <3>1. i \in Rows(c, a) /\ j \in Rows(c, a)
      BY <2>1, <2>2, <2>4 DEF Rows
    <3>2. QED
      BY <3>1 DEF Distinct
  <2>5. CASE i = Len(c) + 1 \/ j = Len(c) + 1
    <3> HIDE DEF w
    <3>1. a = e.addr
      BY <2>1, <2>2, <2>5
    <3>2. i \notin 1 .. Len(c) /\ j \notin 1 .. Len(c)
      BY <2>1, <2>2, <2>3, <3>1
    <3>3. QED
      BY <1>0, <2>2, <3>2
  <2>6. QED
    BY <1>0, <2>2, <2>4, <2>5
<1>3. CASE ~Has(c, e.addr) /\ Len(c) >= Capacity
  BY <1>3, WrittenEntries
<1>4. QED
  BY <1>0, <1>1, <1>2, <1>3

\* Nothing that was visible is hidden by what any writer writes.
LEMMA WrittenKeepsVisible ==
  ASSUME NEW c \in Seq(Entry), NEW e \in Entry, Len(c) <= Capacity, Showable(e),
         NEW a, Visible(c, a)
  PROVE  Visible(Written(c, e), a)
<1> DEFINE w == Written(c, e)
<1>0. Len(c) \in Nat /\ Capacity \in Nat
  BY LenProperties, CapacityType
<1>1. CASE Has(c, e.addr)
  <2>1. Rows(w, a) = Rows(c, a)
    BY <1>1, WrittenEntries DEF Rows
  <2>2. Len(w) <= Capacity /\ Len(w) >= Len(c) /\ Len(w) \in Nat
    BY WrittenType, LenProperties
  <2>3. \A i \in Rows(w, a) : w[i] = e \/ w[i] = c[i]
    BY <1>1, <2>1, WrittenEntries DEF Rows
  <2>4. Has(w, a) <=> Has(c, a)
    BY <2>1 DEF Has
  <2> HIDE DEF w
  <2>5. Visible(w, a)
    BY <1>0, <2>1, <2>2, <2>3, <2>4 DEF Visible, Showable
  <2>6. QED
    BY <2>5 DEF w
<1>2. CASE ~Has(c, e.addr) /\ Len(c) < Capacity
  <2>1. DOMAIN c = 1 .. Len(c) /\ DOMAIN w = 1 .. Len(c) + 1
        /\ w[Len(c) + 1] = e /\ \A k \in DOMAIN c : w[k] = c[k]
    BY <1>2, WrittenEntries
  <2>2. Has(c, a)
    BY <1>0, <1>2 DEF Visible
  <2>3. PICK k \in Rows(c, a) : TRUE
    BY <2>2 DEF Has
  <2> HIDE DEF w
  <2>4. Has(w, a)
    BY <1>0, <2>1, <2>3 DEF Has, Rows
  <2>5. \A i \in Rows(w, a) : Showable(w[i])
    BY <1>0, <2>1, <2>2 DEF Rows, Visible, Showable
  <2>6. QED
    BY <2>4, <2>5 DEF Visible, Showable, w
<1>3. CASE ~Has(c, e.addr) /\ Len(c) >= Capacity
  BY <1>3, WrittenEntries
<1>4. QED
  BY <1>0, <1>1, <1>2, <1>3

\* What was written is visible.
LEMMA WrittenIsVisible ==
  ASSUME NEW c \in Seq(Entry), NEW e \in Entry, Len(c) <= Capacity, Showable(e)
  PROVE  Visible(Written(c, e), e.addr)
<1> DEFINE w == Written(c, e)
<1>0. Len(c) \in Nat /\ Capacity \in Nat
  BY LenProperties, CapacityType
<1>1. CASE Has(c, e.addr)
  <2>1. Rows(w, e.addr) = Rows(c, e.addr) /\ \A i \in Rows(w, e.addr) : w[i] = e
    BY <1>1, WrittenEntries DEF Rows
  <2>2. QED
    BY <1>1, <2>1 DEF Visible, Has, Showable
<1>2. CASE ~Has(c, e.addr) /\ Len(c) < Capacity
  <2>1. DOMAIN c = 1 .. Len(c) /\ DOMAIN w = 1 .. Len(c) + 1
        /\ w[Len(c) + 1] = e /\ \A k \in DOMAIN c : w[k] = c[k]
    BY <1>2, WrittenEntries
  <2>2. \A k \in DOMAIN c : c[k].addr # e.addr
    BY <1>2 DEF Has, Rows
  <2> HIDE DEF w
  <2>3. Rows(w, e.addr) = {Len(c) + 1}
    BY <1>0, <2>1, <2>2 DEF Rows
  <2>4. QED
    BY <2>1, <2>3 DEF Visible, Has, Showable, w
<1>3. CASE ~Has(c, e.addr) /\ Len(c) >= Capacity
  <2>1. w = c /\ Len(c) = Capacity
    BY <1>0, <1>3, WrittenEntries
  <2>2. QED
    BY <1>3, <2>1 DEF Visible
<1>4. QED
  BY <1>0, <1>1, <1>2, <1>3

(***************************************************************************)
(* The inductive invariant.                                                *)
(***************************************************************************)

\* A scanner writes what it read in the neighbour table.
ScansFromTable ==
    \A s \in Scanner : \A i \in 1 .. Len(scan[s]) :
        scan[s][i].source = "neighbor_table"

\* The job holds what was answered to it since it began ...
AnswersFresh == \A i \in 1 .. Len(worker.out) : worker.out[i].fresh

\* ... and has still to write the end of it.
WritesInOrder ==
    At("write") =>
        /\ Len(worker.left) <= Len(worker.out)
        /\ \A j \in 1 .. Len(worker.left) :
              worker.left[j] = worker.out[Len(worker.out) - Len(worker.left) + j]

\* An answer to the request under way finds the job waiting for it.
PendingWaits == pending # {} => At("wait")

Inv ==
    /\ TypeOK
    /\ ScansFromTable
    /\ PendingWaits
    /\ AnswersFresh
    /\ WritesInOrder
    /\ OneEntryPerDevice
    /\ RefreshIsVisible

\* The lists that a step may put in place of others.
Table(list) == /\ list \in Seq(Entry)
               /\ \A i \in 1 .. Len(list) : list[i].source = "neighbor_table"

Answers(list) == /\ list \in Seq(Entry) /\ Len(list) <= Capacity
                 /\ \A i \in 1 .. Len(list) : list[i].fresh

LEMMA AgedType ==
  ASSUME NEW list \in Seq(Entry)
  PROVE  /\ Aged(list) \in Seq(Entry) /\ Len(Aged(list)) = Len(list)
         /\ DOMAIN Aged(list) = DOMAIN list
         /\ \A i \in 1 .. Len(list) : /\ Aged(list)[i].source = list[i].source
                                      /\ Aged(list)[i].addr = list[i].addr
<1>1. Len(list) \in Nat /\ DOMAIN list = 1 .. Len(list)
      /\ \A i \in 1 .. Len(list) : list[i] \in Entry
  BY LenProperties, ElementOfSeq
<1>2. \A i \in 1 .. Len(list) : /\ [list[i] EXCEPT !.fresh = FALSE] \in Entry
                                /\ [list[i] EXCEPT !.fresh = FALSE].source = list[i].source
                                /\ [list[i] EXCEPT !.fresh = FALSE].addr = list[i].addr
  BY <1>1 DEF Entry
<1>3. Aged(list) = [i \in 1 .. Len(list) |-> [list[i] EXCEPT !.fresh = FALSE]]
  BY <1>1 DEF Aged
<1>4. Aged(list) \in [1 .. Len(list) -> Entry]
  BY <1>2, <1>3
<1>5. Aged(list) \in Seq(Entry)
  BY <1>1, <1>4, SeqDef
<1>6. Len(Aged(list)) = Len(list)
  BY <1>1, <1>4, <1>5, LenProperties
<1>7. QED
  BY <1>1, <1>2, <1>3, <1>5, <1>6

LEMMA NeighboursType ==
  ASSUME NEW n \in Nat, NEW list \in Neighbours(n)
  PROVE  list \in Seq(Addr) /\ Len(list) \in Nat
<1>1. PICK k \in 0 .. n : list \in [1 .. k -> Addr]
  BY DEF Neighbours, SeqOf
<1>2. list \in Seq(Addr)
  BY <1>1, SeqDef
<1>3. QED
  BY <1>2, LenProperties

LEMMA MeasuredType ==
  ASSUME NEW list \in Seq(Addr), NEW source \in Source
  PROVE  LET measured == Measured(list, source) IN
         /\ measured \in Seq(Entry)
         /\ \A i \in 1 .. Len(measured) : /\ measured[i].source = source
                                          /\ measured[i].fresh
<1> DEFINE measured == Measured(list, source)
<1>1. Len(list) \in Nat /\ \A i \in 1 .. Len(list) : list[i] \in Addr
  BY LenProperties, ElementOfSeq
<1>2. \A i \in 1 .. Len(list) :
         [addr |-> list[i], source |-> source, fresh |-> TRUE] \in Entry
  BY <1>1 DEF Entry
<1>3. measured \in [1 .. Len(list) -> Entry]
  BY <1>2 DEF Measured
<1>4. measured \in Seq(Entry)
  BY <1>1, <1>3, SeqDef
<1>5. Len(measured) = Len(list)
  BY <1>1, <1>3, <1>4, LenProperties
<1>6. \A i \in 1 .. Len(list) : measured[i].source = source /\ measured[i].fresh
  BY DEF Measured
<1>7. QED
  BY <1>4, <1>5, <1>6

LEMMA FirstOfType ==
  ASSUME NEW S, NEW list \in Seq(S), NEW n \in Nat
  PROVE  /\ FirstOf(list, n) \in Seq(S)
         /\ Len(FirstOf(list, n)) <= n
         /\ \A i \in 1 .. Len(FirstOf(list, n)) :
               i \in 1 .. Len(list) /\ FirstOf(list, n)[i] = list[i]
<1> DEFINE m == Min({Len(list), n})
<1>1. Len(list) \in Nat /\ \A i \in 1 .. Len(list) : list[i] \in S
  BY LenProperties, ElementOfSeq
<1>2. m \in Nat /\ m <= n /\ m <= Len(list)
  <2>1. \E x \in {Len(list), n} : \A y \in {Len(list), n} : x <= y
    BY <1>1
  <2>2. m \in {Len(list), n} /\ \A y \in {Len(list), n} : m <= y
    BY <2>1 DEF Min
  <2>3. QED
    BY <1>1, <2>2
<1> HIDE DEF m
<1>3. \A i \in 1 .. m : list[i] \in S
  BY <1>1, <1>2
<1>4. /\ SubSeq(list, 1, m) \in Seq(S)
      /\ Len(SubSeq(list, 1, m)) = IF 1 <= m THEN m - 1 + 1 ELSE 0
      /\ \A i \in 1 .. m - 1 + 1 : SubSeq(list, 1, m)[i] = list[1 + i - 1]
  BY <1>2, <1>3, SubSeqProperties
<1>5. FirstOf(list, n) = SubSeq(list, 1, m)
  BY DEF FirstOf, m
<1>6. Len(SubSeq(list, 1, m)) = m
  BY <1>2, <1>4
<1>7. QED
  BY <1>1, <1>2, <1>4, <1>5, <1>6

LEMMA NothingLeft ==
  /\ <<>> \in Seq(Entry) /\ Len(<<>>) = 0
  /\ Idle \in Job /\ Answers(<<>>) /\ Table(<<>>)
<1>1. <<>> \in Seq(Entry) /\ Len(<<>>) = 0
  BY EmptySeq
<1>2. QED
  BY <1>1, CapacityType DEF Idle, Job, Answers, Table

LEMMA InitInv == Init => Inv
<1> SUFFICES ASSUME Init PROVE Inv
  OBVIOUS
<1>1. TypeOK
  <2>1. worker \in Job /\ Len(worker.out) <= Capacity
    BY NothingLeft, CapacityType DEF Init, Answers, Idle
  <2>2. cache \in Seq(Entry) /\ Len(cache) <= Capacity
        /\ scan \in [Scanner -> Seq(Entry)]
    BY NothingLeft, CapacityType DEF Init
  <2>3. {started, recent} \subseteq BOOLEAN /\ pending \subseteq Nat /\ late \subseteq Nat
    BY DEF Init
  <2>4. QED
    BY <2>1, <2>2, <2>3 DEF TypeOK
<1>2. ScansFromTable /\ AnswersFresh
  BY NothingLeft DEF Init, ScansFromTable, AnswersFresh, Idle
<1>3. PendingWaits /\ WritesInOrder /\ RefreshIsVisible
  BY DEF Init, PendingWaits, WritesInOrder, RefreshIsVisible, At, Idle
<1>4. OneEntryPerDevice
  BY DEF Init, OneEntryPerDevice, Rows
<1>5. QED
  BY <1>1, <1>2, <1>3, <1>4 DEF Inv

(***************************************************************************)
(* Steps that change the cache or a scan.                                  *)
(***************************************************************************)
LEMMA CacheWritten ==
  ASSUME Inv, NEW e \in Entry, Showable(e), cache' = Written(cache, e)
  PROVE  /\ cache' \in Seq(Entry) /\ Len(cache') <= Capacity
         /\ OneEntryPerDevice'
         /\ \A a : Visible(cache, a) => Visible(cache', a)
         /\ Visible(cache', e.addr)
<1>1. cache \in Seq(Entry) /\ Len(cache) <= Capacity
  BY DEF Inv, TypeOK
<1>2. Distinct(cache')
  BY <1>1, WrittenDistinct DEF Inv, OneEntryPerDevice, Distinct
<1>3. QED
  BY <1>1, <1>2, WrittenType, WrittenKeepsVisible, WrittenIsVisible
     DEF OneEntryPerDevice, Distinct

\* The job is left alone, and what it wrote stays visible.
LEMMA JobKept ==
  ASSUME Inv, UNCHANGED <<worker, pending>>,
         \A a : Visible(cache, a) => Visible(cache', a)
  PROVE  AnswersFresh' /\ PendingWaits' /\ WritesInOrder' /\ RefreshIsVisible'
<1>1. AnswersFresh' /\ PendingWaits' /\ WritesInOrder'
  BY DEF Inv, AnswersFresh, PendingWaits, WritesInOrder, At
<1>2. RefreshIsVisible'
  BY DEF Inv, RefreshIsVisible, At
<1>3. QED
  BY <1>1, <1>2

LEMMA ScanWritesInv ==
  ASSUME Inv, NEW s \in Scanner, ScanWrites(s)
  PROVE  Inv'
<1> DEFINE e == Head(scan[s])
<1>1. scan[s] \in Seq(Entry) /\ scan[s] # <<>> /\ Table(scan[s])
  BY DEF Inv, TypeOK, ScanWrites, ScansFromTable, Table
<1>2. e \in Entry /\ Tail(scan[s]) \in Seq(Entry)
      /\ Len(scan[s]) \in Nat \ {0} /\ Len(Tail(scan[s])) = Len(scan[s]) - 1
      /\ \A i \in 1 .. Len(Tail(scan[s])) : Tail(scan[s])[i] = scan[s][i + 1]
  BY <1>1, HeadTailProperties, EmptySeq
<1>3. e = scan[s][1]
  BY <1>1
<1>4. Showable(e) /\ Table(Tail(scan[s]))
  BY <1>1, <1>2, <1>3 DEF Showable, Table
<1>5. cache' = Written(cache, e) /\ scan' = [scan EXCEPT ![s] = Tail(@)]
      /\ UNCHANGED <<started, recent, worker, pending, late>>
  BY DEF ScanWrites
<1> HIDE DEF e
<1>6. cache' \in Seq(Entry) /\ Len(cache') <= Capacity /\ OneEntryPerDevice'
      /\ \A a : Visible(cache, a) => Visible(cache', a)
  BY <1>2, <1>4, <1>5, CacheWritten
<1>7. TypeOK'
  BY <1>2, <1>5, <1>6 DEF Inv, TypeOK
<1>8. ScansFromTable'
  BY <1>4, <1>5 DEF Inv, TypeOK, ScansFromTable, Table
<1>9. QED
  BY <1>5, <1>6, <1>7, <1>8, JobKept DEF Inv

LEMMA ScanType ==
  ASSUME Inv, NEW s \in Scanner, Scan(s)
  PROVE  scan' \in [Scanner -> Seq(Entry)] /\ ScansFromTable'
<1>1. PICK list \in Neighbours(MaxScan) :
         scan' = [scan EXCEPT ![s] =
                    Measured(FirstOf(list, Capacity), "neighbor_table")]
  BY DEF Scan
<1> DEFINE found == Measured(FirstOf(list, Capacity), "neighbor_table")
<1>2. FirstOf(list, Capacity) \in Seq(Addr)
  BY NeighboursType, FirstOfType, LqiAssumption
<1>3. Table(found)
  BY <1>2, MeasuredType DEF Table, Source
<1> HIDE DEF found
<1>4. scan' = [scan EXCEPT ![s] = found] /\ scan \in [Scanner -> Seq(Entry)]
  BY <1>1 DEF found, Inv, TypeOK
<1>5. QED
  BY <1>3, <1>4 DEF Inv, ScansFromTable, Table

LEMMA LiveEventInv ==
  ASSUME Inv, LiveEvent
  PROVE  Inv'
<1>1. scan' \in [Scanner -> Seq(Entry)] /\ ScansFromTable'
  BY ScanType DEF LiveEvent, Scanner
<1>2. UNCHANGED <<started, cache, worker, pending, late>> /\ recent' = TRUE
  BY DEF LiveEvent
<1>3. TypeOK' /\ OneEntryPerDevice'
  BY <1>1, <1>2 DEF Inv, TypeOK, OneEntryPerDevice
<1>4. QED
  BY <1>1, <1>2, <1>3, JobKept DEF Inv

LEMMA BuildOnEmptyCacheInv ==
  ASSUME Inv, BuildOnEmptyCache
  PROVE  Inv'
<1>1. scan' \in [Scanner -> Seq(Entry)] /\ ScansFromTable'
  BY ScanType DEF BuildOnEmptyCache, Scanner
<1>2. UNCHANGED <<started, recent, cache, worker, pending, late>>
  BY DEF BuildOnEmptyCache
<1>3. TypeOK' /\ OneEntryPerDevice'
  BY <1>1, <1>2 DEF Inv, TypeOK, OneEntryPerDevice
<1>4. QED
  BY <1>1, <1>2, <1>3, JobKept DEF Inv

LEMMA StackInv ==
  ASSUME Inv, Start \/ IntervalPasses
  PROVE  Inv'
<1>1. UNCHANGED <<cache, scan, worker, pending, late>>
      /\ started' \in BOOLEAN /\ recent' \in BOOLEAN
  BY DEF Inv, TypeOK, Start, IntervalPasses
<1>2. TypeOK' /\ OneEntryPerDevice' /\ ScansFromTable'
  BY <1>1 DEF Inv, TypeOK, OneEntryPerDevice, ScansFromTable
<1>3. QED
  BY <1>1, <1>2, JobKept DEF Inv

(***************************************************************************)
(* Steps of the job.                                                       *)
(***************************************************************************)

\* A job that is not writing has only its answers to keep.
LEMMA NotWriting ==
  ASSUME Inv, worker' \in Job, Answers(worker'.out), worker'.pc # "write",
         pending' # {} => worker'.pc = "wait",
         pending' \subseteq Nat, late' \subseteq Nat,
         UNCHANGED <<started, cache, recent, scan>>
  PROVE  Inv'
<1>1. TypeOK'
  BY DEF Inv, TypeOK, Answers
<1>2. OneEntryPerDevice' /\ ScansFromTable'
  BY DEF Inv, OneEntryPerDevice, ScansFromTable
<1>3. AnswersFresh' /\ PendingWaits' /\ WritesInOrder' /\ RefreshIsVisible'
  BY DEF Answers, AnswersFresh, PendingWaits, WritesInOrder, RefreshIsVisible, At
<1>4. QED
  BY <1>1, <1>2, <1>3 DEF Inv

LEMMA JobType ==
  ASSUME Inv
  PROVE  /\ worker \in Job /\ Answers(worker.out) /\ Len(worker.out) \in Nat
         /\ pending \subseteq Nat /\ late \subseteq Nat
<1>1. worker.out \in Seq(Entry) /\ Len(worker.out) <= Capacity
  BY DEF Inv, TypeOK, Job
<1>2. QED
  BY <1>1, LenProperties DEF Inv, TypeOK, AnswersFresh, Answers

LEMMA BeginRefreshInv ==
  ASSUME Inv, BeginRefresh
  PROVE  Inv'
<1>1. cache \in Seq(Entry) /\ Len(cache) <= Capacity
      /\ scan \in [Scanner -> Seq(Entry)]
  BY DEF Inv, TypeOK
<1>2. worker' \in Job /\ Answers(worker'.out) /\ worker'.pc = "wait"
  BY NothingLeft DEF BeginRefresh, Idle, Job
<1>3. cache' = Aged(cache) /\ scan' = [s \in Scanner |-> Aged(scan[s])]
      /\ pending' = {0} /\ UNCHANGED <<started, recent, late>>
  BY DEF BeginRefresh
<1>4. cache' \in Seq(Entry) /\ Len(cache') <= Capacity
      /\ \A a : Rows(cache', a) = Rows(cache, a)
  BY <1>1, <1>3, AgedType, LenProperties DEF Rows
<1>5. OneEntryPerDevice'
  BY <1>4 DEF Inv, OneEntryPerDevice
<1>6. scan' \in [Scanner -> Seq(Entry)] /\ ScansFromTable'
  <2>1. \A s \in Scanner : /\ Aged(scan[s]) \in Seq(Entry)
                            /\ Len(Aged(scan[s])) = Len(scan[s])
                            /\ \A i \in 1 .. Len(scan[s]) :
                                  Aged(scan[s])[i].source = scan[s][i].source
    BY <1>1, AgedType
  <2>2. \A s \in Scanner : scan'[s] = Aged(scan[s])
    BY <1>3
  <2>3. ScansFromTable'
    BY <2>1, <2>2 DEF Inv, ScansFromTable
  <2>4. QED
    BY <1>3, <2>1, <2>3
<1>7. TypeOK'
  BY <1>2, <1>3, <1>4, <1>6 DEF Inv, TypeOK, Answers
<1>8. AnswersFresh' /\ PendingWaits' /\ WritesInOrder' /\ RefreshIsVisible'
  BY <1>2 DEF Answers, AnswersFresh, PendingWaits, WritesInOrder,
     RefreshIsVisible, At
<1>9. QED
  BY <1>5, <1>6, <1>7, <1>8 DEF Inv

\* An answer that the stack writes into the job's context.
LEMMA AnsweredType ==
  ASSUME Inv, At("wait"), NEW start \in Nat, worker' \in Answered(worker, start)
  PROVE  worker' \in Job /\ Answers(worker'.out) /\ worker'.pc = "wait"
<1>1. worker \in Job /\ Answers(worker.out) /\ worker.pc = "wait"
  BY JobType DEF At
<1>2. CASE worker' = Refused(worker)
  BY <1>1, <1>2 DEF Refused, Job
<1>3. ASSUME NEW list \in Neighbours(PageSize), NEW total \in 0 .. MaxTable,
             worker' = Filled(worker, start, list, total)
      PROVE  worker' \in Job /\ Answers(worker'.out) /\ worker'.pc = "wait"
  <2> DEFINE more == Measured(list, "mgmt_lqi")
             out  == FirstOf(worker.out \o more, Capacity)
             next == (start + Len(list)) % 256
  <2>1. list \in Seq(Addr) /\ Len(list) \in Nat
    BY NeighboursType, LqiAssumption
  <2>2. more \in Seq(Entry) /\ \A i \in 1 .. Len(more) : more[i].fresh
    BY <2>1, MeasuredType DEF Source
  <2>3. next \in Nat /\ total \in Nat
    BY <2>1, LqiAssumption
  <2> HIDE DEF more
  <2> DEFINE both == worker.out \o more
  <2>4. Len(worker.out) \in Nat /\ Len(more) \in Nat
    BY <1>1, <2>2, LenProperties DEF Answers
  <2>5. both \in Seq(Entry) /\ Len(both) = Len(worker.out) + Len(more)
        /\ \A i \in 1 .. Len(both) :
              both[i] = IF i <= Len(worker.out) THEN worker.out[i]
                        ELSE more[i - Len(worker.out)]
    BY <1>1, <2>2, ConcatProperties DEF Answers
  <2>6. \A i \in 1 .. Len(both) : both[i].fresh
    <3> HIDE DEF both
    <3> SUFFICES ASSUME NEW i \in 1 .. Len(both) PROVE both[i].fresh
      OBVIOUS
    <3>1. CASE i <= Len(worker.out)
      BY <1>1, <2>4, <2>5, <3>1 DEF Answers
    <3>2. CASE ~(i <= Len(worker.out))
      <4>1. i - Len(worker.out) \in 1 .. Len(more)
        BY <2>4, <2>5, <3>2
      <4>2. QED
        BY <2>2, <2>5, <3>2, <4>1
    <3>3. QED
      BY <3>1, <3>2
  <2> HIDE DEF both
  <2>7. out = FirstOf(both, Capacity)
    BY DEF both
  <2>8. Answers(out)
    BY <2>5, <2>6, <2>7, FirstOfType, CapacityType DEF Answers
  <2>9. worker' = [worker EXCEPT !.out = out, !.total = total, !.next = next,
                                 !.err = FALSE, !.sem = TRUE]
    BY <1>3 DEF Filled, more
  <2> HIDE DEF out, next
  <2>10. QED
    BY <1>1, <2>3, <2>8, <2>9 DEF Job, Answers
<1>4. QED
  BY <1>2, <1>3 DEF Answered

LEMMA AnswerInv ==
  ASSUME Inv, Answer
  PROVE  Inv'
<1>1. PICK start \in pending : worker' \in Answered(worker, start)
  BY DEF Answer
<1>2. At("wait") /\ start \in Nat /\ pending \subseteq Nat /\ late \subseteq Nat
  BY <1>1, JobType DEF Inv, PendingWaits
<1>3. QED
  BY <1>1, <1>2, AnsweredType, NotWriting DEF Answer

LEMMA LateAnswerInv ==
  ASSUME Inv, NEW start \in late,
         LateAnswerLost(start) \/ LateAnswerMisplaced(start)
  PROVE  Inv'
<1>1. CASE LateAnswerLost(start)
  <2>1. UNCHANGED <<started, cache, recent, scan, worker, pending>>
        /\ late' \subseteq Nat
    BY <1>1, JobType DEF LateAnswerLost
  <2>2. TypeOK' /\ OneEntryPerDevice' /\ ScansFromTable'
    BY <2>1 DEF Inv, TypeOK, OneEntryPerDevice, ScansFromTable
  <2>3. QED
    BY <2>1, <2>2, JobKept DEF Inv
<1>2. CASE LateAnswerMisplaced(start)
  <2>1. start \in Nat /\ pending \subseteq Nat /\ late' \subseteq Nat /\ At("wait")
        /\ worker' \in Answered(worker, start)
        /\ UNCHANGED <<started, cache, recent, scan, pending>>
    BY <1>2, JobType DEF LateAnswerMisplaced
  <2>2. QED
    BY <2>1, AnsweredType, NotWriting
<1>3. QED
  BY <1>1, <1>2

LEMMA LateAnswerCrashesInv ==
  ASSUME LateAnswerCrashes
  PROVE  Inv'
<1>1. (Init => Inv)'
  BY InitInv, PTL
<1>2. Init'
  BY DEF LateAnswerCrashes, Init
<1>3. QED
  BY <1>1, <1>2

\* The job ends without a result.
LEMMA JobFailsInv ==
  ASSUME Inv, RequestFails \/ TimesOut
  PROVE  Inv'
<1>1. worker' = Idle /\ pending' = {} /\ late' \subseteq Nat
      /\ UNCHANGED <<started, cache, recent, scan>>
  BY JobType DEF RequestFails, TimesOut
<1>2. worker'.pc = "idle" /\ worker'.out = <<>>
  BY <1>1 DEF Idle
<1>3. QED
  BY <1>1, <1>2, NothingLeft, NotWriting

LEMMA TakeAnswerInv ==
  ASSUME Inv, TakeAnswer
  PROVE  Inv'
<1>1. worker \in Job /\ Answers(worker.out) /\ worker.pc = "wait"
      /\ late' \subseteq Nat /\ UNCHANGED <<started, cache, recent, scan>>
  BY JobType DEF TakeAnswer, At
<1>2. ASSUME pending' = {worker.next},
             worker' = [worker EXCEPT !.sem = FALSE, !.total = 0,
                             !.pages = IF @ < MaxPages THEN @ + 1 ELSE @]
      PROVE  Inv'
  <2> DEFINE pages == IF worker.pages < MaxPages THEN worker.pages + 1
                                                 ELSE worker.pages
  <2>1. pages \in Nat /\ worker.next \in Nat
    BY <1>1 DEF Job
  <2>2. worker' = [worker EXCEPT !.sem = FALSE, !.total = 0, !.pages = pages]
    BY <1>2
  <2> HIDE DEF pages
  <2>3. worker' \in Job /\ worker'.out = worker.out /\ worker'.pc = "wait"
    BY <1>1, <2>1, <2>2 DEF Job
  <2>4. QED
    BY <1>1, <1>2, <2>1, <2>3, NotWriting
<1>3. ASSUME pending' = {},
             worker' = [Idle EXCEPT !.pc = "write", !.out = worker.out,
                                    !.left = worker.out]
      PROVE  Inv'
  <2>1. worker' \in Job /\ worker'.pc = "write" /\ worker'.out = worker.out
        /\ worker'.left = worker.out
    BY <1>1, <1>3, NothingLeft DEF Job, Idle
  <2>2. Len(worker.out) \in Nat
    BY JobType
  <2>3. WritesInOrder' /\ RefreshIsVisible'
    BY <2>1, <2>2 DEF WritesInOrder, RefreshIsVisible, At
  <2>4. AnswersFresh' /\ PendingWaits'
    BY <1>1, <1>3, <2>1 DEF AnswersFresh, PendingWaits, Answers
  <2>5. TypeOK'
    BY <1>1, <1>3, <2>1 DEF Inv, TypeOK, Answers
  <2>6. OneEntryPerDevice' /\ ScansFromTable'
    BY <1>1 DEF Inv, OneEntryPerDevice, ScansFromTable
  <2>7. QED
    BY <2>3, <2>4, <2>5, <2>6 DEF Inv
<1>4. ASSUME pending' = {}, worker' = Idle
      PROVE  Inv'
  <2>1. worker'.pc = "idle" /\ worker'.out = <<>>
    BY <1>4 DEF Idle
  <2>2. QED
    BY <1>1, <1>4, <2>1, NothingLeft, NotWriting
<1>5. QED
  BY <1>2, <1>3, <1>4 DEF TakeAnswer

LEMMA WriteEntryInv ==
  ASSUME Inv, WriteEntry
  PROVE  Inv'
<1> DEFINE e    == Head(worker.left)
           rest == Tail(worker.left)
           n    == Len(worker.out)
           k    == Len(worker.left)
<1>1. worker \in Job /\ Answers(worker.out) /\ worker.pc = "write"
      /\ worker.left # <<>> /\ worker.left \in Seq(Entry)
  BY JobType DEF WriteEntry, At, Job
<1>2. e \in Entry /\ rest \in Seq(Entry) /\ k \in Nat \ {0} /\ Len(rest) = k - 1
      /\ \A i \in 1 .. Len(rest) : rest[i] = worker.left[i + 1]
  BY <1>1, HeadTailProperties, EmptySeq
<1>3. n \in Nat /\ k <= n /\ \A j \in 1 .. k : worker.left[j] = worker.out[n - k + j]
  BY <1>1, JobType DEF Inv, WritesInOrder, At
<1>4. e = worker.left[1]
  BY <1>1
<1> HIDE DEF e, rest, n, k
<1>5. n - k + 1 \in 1 .. n /\ e = worker.out[n - k + 1]
  <2>1. 1 \in 1 .. k /\ n - k + 1 \in 1 .. n
    BY <1>2, <1>3
  <2>2. QED
    BY <1>3, <1>4, <2>1
<1>6. Showable(e)
  BY <1>1, <1>5 DEF Answers, Showable, n
<1>7. cache' = Written(cache, e) /\ worker' = [worker EXCEPT !.left = rest]
      /\ UNCHANGED <<started, recent, scan, pending, late>>
  BY DEF WriteEntry, e, rest
<1>8. worker' \in Job /\ worker'.pc = "write" /\ worker'.out = worker.out
      /\ worker'.left = rest
  BY <1>1, <1>2, <1>7 DEF Job
<1>9. cache' \in Seq(Entry) /\ Len(cache') <= Capacity /\ OneEntryPerDevice'
      /\ (\A a : Visible(cache, a) => Visible(cache', a))
      /\ Visible(cache', e.addr)
  BY <1>2, <1>6, <1>7, CacheWritten
<1>10. TypeOK'
  BY <1>7, <1>8, <1>9 DEF Inv, TypeOK
<1>11. ScansFromTable' /\ AnswersFresh' /\ PendingWaits'
  BY <1>1, <1>7, <1>8 DEF Inv, ScansFromTable, AnswersFresh, PendingWaits, At
<1>12. WritesInOrder'
  <2>1. Len(rest) <= n
    BY <1>2, <1>3
  <2>2. ASSUME NEW j \in 1 .. Len(rest)
        PROVE  rest[j] = worker.out[n - Len(rest) + j]
    <3>1. j + 1 \in 1 .. k /\ n - k + (j + 1) = n - Len(rest) + j
      BY <1>2, <1>3
    <3>2. rest[j] = worker.left[j + 1]
      BY <1>2
    <3>3. worker.left[j + 1] = worker.out[n - k + (j + 1)]
      BY <1>3, <3>1
    <3>4. QED
      BY <3>1, <3>2, <3>3
  <2>3. QED
    BY <1>8, <2>1, <2>2 DEF WritesInOrder, n
<1>13. RefreshIsVisible'
  <2>1. ASSUME NEW i \in 1 .. (n - Len(rest))
        PROVE  Visible(cache', worker.out[i].addr)
    <3>1. CASE i \in 1 .. (n - k)
      <4>1. Visible(cache, worker.out[i].addr)
        BY <1>1, <3>1 DEF Inv, RefreshIsVisible, At, n, k
      <4>2. QED
        BY <1>9, <4>1
    <3>2. CASE i = n - k + 1
      BY <1>5, <1>9, <3>2
    <3>3. QED
      BY <1>2, <1>3, <3>1, <3>2
  <2>2. QED
    BY <1>8, <2>1 DEF RefreshIsVisible, n
<1>14. QED
  BY <1>9, <1>10, <1>11, <1>12, <1>13 DEF Inv

LEMMA EndRefreshInv ==
  ASSUME Inv, EndRefresh
  PROVE  Inv'
<1>1. worker' = Idle /\ pending' = {} /\ late' \subseteq Nat
      /\ UNCHANGED <<started, cache, recent, scan>>
  BY JobType DEF Inv, PendingWaits, EndRefresh, At
<1>2. worker'.pc = "idle" /\ worker'.out = <<>>
  BY <1>1 DEF Idle
<1>3. QED
  BY <1>1, <1>2, NothingLeft, NotWriting

(***************************************************************************)
(* The theorems.                                                           *)
(***************************************************************************)
LEMMA NextInv == Inv /\ [Next]_vars => Inv'
<1> SUFFICES ASSUME Inv, [Next]_vars PROVE Inv'
  OBVIOUS
<1>1. CASE Start \/ IntervalPasses
  BY <1>1, StackInv
<1>2. CASE LiveEvent \/ BuildOnEmptyCache
  BY <1>2, LiveEventInv, BuildOnEmptyCacheInv
<1>3. CASE \E s \in Scanner : ScanWrites(s)
  BY <1>3, ScanWritesInv
<1>4. CASE BeginRefresh \/ Answer
  BY <1>4, BeginRefreshInv, AnswerInv
<1>5. CASE Work
  BY <1>5, JobFailsInv, TakeAnswerInv, WriteEntryInv, EndRefreshInv DEF Work
<1>6. CASE \E start \in late : LateAnswerLost(start) \/ LateAnswerMisplaced(start)
                               \/ LateAnswerCrashes
  BY <1>6, LateAnswerInv, LateAnswerCrashesInv
<1>7. CASE UNCHANGED vars
  <2>1. UNCHANGED <<started, cache, recent, scan, worker, pending, late>>
    BY <1>7 DEF vars
  <2>2. TypeOK' /\ OneEntryPerDevice' /\ ScansFromTable'
    BY <2>1 DEF Inv, TypeOK, OneEntryPerDevice, ScansFromTable
  <2>3. QED
    BY <2>1, <2>2, JobKept DEF Inv
<1>8. QED
  BY <1>1, <1>2, <1>3, <1>4, <1>5, <1>6, <1>7 DEF Next

THEOREM InvHolds == Spec => []Inv
BY InitInv, NextInv, PTL DEF Spec

\* The types of the variables, the cache and the request's buffer within their
\* capacity (gateway_state.c:185, zigbee_service.c:228).
THEOREM TypesHold == Spec => []TypeOK
<1>1. Inv => TypeOK
  BY DEF Inv
<1>2. QED
  BY <1>1, InvHolds, PTL

\* A device has one entry, however the three writers interleave
\* (zigbee_service.c:111).
THEOREM OneEntry == Spec => []OneEntryPerDevice
<1>1. Inv => OneEntryPerDevice
  BY DEF Inv
<1>2. QED
  BY <1>1, InvHolds, PTL

\* What a refresh was told is visible once it was written, as long as the refresh
\* lasts, unless the cache is full (gateway_state.c:185).
THEOREM RefreshVisible == Spec => []RefreshIsVisible
<1>1. Inv => RefreshIsVisible
  BY DEF Inv
<1>2. QED
  BY <1>1, InvHolds, PTL
=============================================================================
