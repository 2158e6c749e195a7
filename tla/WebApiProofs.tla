---------------------------- MODULE WebApiProofs ----------------------------
(* Theorems about WebApi for every set of tasks that record errors, every ring, *)
(* and every request.                                                           *)
EXTENDS WebApi, FiniteSetTheorems, SequenceTheorems, TLAPS

(***************************************************************************)
(* The ring of errors, which every task writes.                            *)
(***************************************************************************)
Place == {"idle", "parse", "call", "build", "snapshot", "copy",
          "add", "store", "advance", "send"}

\* A task holds the ring from the step that takes the lock to the one that
\* leaves it, and an error is half-way in between store and advance.
RingPlace == {"store", "advance", "copy"}
Storing   == \E t \in Task : At(t, "advance")

\* The tasks that count against the bound on errors, and those of them that may
\* still record one.
Busy      == {t \in Task : ~At(t, "idle")}
Recording == {t \in Task : pc[t] \notin {"idle", "send"}}

\* Entry i from the newest is error stored + 1 - i; the oldest of a full ring is
\* the one that a new error overwrites.
Entry(i) == slots[(head + RingCap - i) % RingCap]

RingType ==
    /\ slots \in [0 .. RingCap - 1 -> 0 .. ErrorBound]
    /\ head \in 0 .. RingCap - 1
    /\ stored \in 0 .. ErrorBound
    /\ holder \in Task \cup {Free}
    /\ pc \in [Task -> Place]
    /\ \A t \in Caster : pc[t] \in {"idle", "add", "store", "advance"}

LockedInv == \A t \in Task : holder = t <=> pc[t] \in RingPlace

EntriesInv ==
    /\ count = Cut(stored, RingCap)
    /\ Storing => slots[head] = stored + 1
    /\ \A i \in 1 .. count : (i = RingCap /\ Storing) \/ Entry(i) = stored + 1 - i

BoundInv == IsFiniteSet(Busy) /\ stored + Cardinality(Recording) <= ErrorBound

RingInv == RingType /\ LockedInv /\ EntriesInv /\ BoundInv

LEMMA Caps ==
  /\ RingCap \in Nat \ {0} /\ Emit \in Nat \ {0} /\ Emit <= RingCap
  /\ ErrorBound \in Nat \ {0}
BY ApiAssumption

LEMMA Tasks == Httpd \in Task /\ Httpd \notin Caster /\ Caster \subseteq Task /\ Free \notin Task
BY ApiAssumption DEF Task

\* The remainder by the size of the ring, for what the ring divides.
LEMMA Wraps ==
  ASSUME NEW a \in 0 .. 2 * RingCap - 1
  PROVE  a % RingCap = IF a < RingCap THEN a ELSE a - RingCap
<1>1. CASE a < RingCap
  BY <1>1, Caps
<1>2. CASE ~(a < RingCap)
  BY <1>2, Caps
<1>3. QED
  BY <1>1, <1>2

\* A history of n errors leaves Cut(n, RingCap) of them.
LEMMA CutType ==
  ASSUME NEW v \in Nat, NEW n \in Nat
  PROVE  Cut(v, n) \in 0 .. n /\ Cut(v, n) <= v /\ (v <= n => Cut(v, n) = v)
BY DEF Cut

\* The tasks that may still record are finitely many of the busy ones.
LEMMA RecordingFinite ==
  ASSUME IsFiniteSet(Busy)
  PROVE  /\ IsFiniteSet(Recording) /\ Cardinality(Recording) \in Nat
         /\ Cardinality(Busy) \in Nat /\ Cardinality(Recording) <= Cardinality(Busy)
<1>1. Recording \in SUBSET Busy
  BY DEF Recording, Busy, At
<1>2. QED
  BY <1>1, FS_Subset, FS_CardinalityType

\* A task that goes from one place to another.
LEMMA OneGoes ==
  ASSUME pc \in [Task -> Place], IsFiniteSet(Busy), NEW t \in Task, NEW p \in Place, Goto(t, p)
  PROVE  /\ pc' \in [Task -> Place] /\ pc'[t] = p /\ \A u \in Task \ {t} : pc'[u] = pc[u]
         /\ IsFiniteSet(Busy')
         /\ (pc[t] \notin {"idle", "send"} <=> p \notin {"idle", "send"}) =>
               Cardinality(Recording') = Cardinality(Recording)
         /\ pc[t] \notin {"idle", "send"} /\ p \in {"idle", "send"} =>
               Cardinality(Recording') = Cardinality(Recording) - 1
         /\ pc[t] \in {"idle", "send"} /\ p \notin {"idle", "send"} =>
               Cardinality(Recording') = Cardinality(Recording) + 1
<1>1. pc' \in [Task -> Place] /\ pc'[t] = p /\ \A u \in Task \ {t} : pc'[u] = pc[u]
  BY DEF Goto
<1>2. IsFiniteSet(Busy')
  <2>1. IsFiniteSet(Busy \cup {t})
    BY FS_AddElement
  <2>2. Busy' \in SUBSET (Busy \cup {t})
    BY <1>1 DEF Busy, At
  <2>3. QED
    BY <2>1, <2>2, FS_Subset
<1>3. IsFiniteSet(Recording) /\ Cardinality(Recording) \in Nat
  BY RecordingFinite
<1>4. ASSUME pc[t] \notin {"idle", "send"} <=> p \notin {"idle", "send"}
      PROVE  Cardinality(Recording') = Cardinality(Recording)
  <2>1. Recording' = Recording
    BY <1>1, <1>4 DEF Recording
  <2>2. QED
    BY <2>1
<1>5. ASSUME pc[t] \notin {"idle", "send"}, p \in {"idle", "send"}
      PROVE  Cardinality(Recording') = Cardinality(Recording) - 1
  <2>1. t \in Recording /\ Recording' = Recording \ {t}
    BY <1>1, <1>5 DEF Recording
  <2>2. QED
    BY <1>3, <2>1, FS_RemoveElement
<1>6. ASSUME pc[t] \in {"idle", "send"}, p \notin {"idle", "send"}
      PROVE  Cardinality(Recording') = Cardinality(Recording) + 1
  <2>1. t \notin Recording /\ Recording' = Recording \cup {t}
    BY <1>1, <1>6 DEF Recording
  <2>2. QED
    BY <1>3, <2>1, FS_AddElement
<1>7. QED
  BY <1>1, <1>2, <1>4, <1>5, <1>6

\* The ring as it is at power-on.
LEMMA EmptyRing ==
  ASSUME slots = [i \in 0 .. RingCap - 1 |-> 0], head = 0, count = 0, holder = Free,
         stored = 0, pc = [t \in Task |-> "idle"]
  PROVE  RingInv
<1>1. RingType
  BY Caps, Tasks DEF RingType, Place
<1>2. LockedInv
  BY Tasks DEF LockedInv, RingPlace
<1>3. EntriesInv
  BY Caps DEF EntriesInv, Cut, Storing, At
<1>4. BoundInv
  <2>1. Busy = {} /\ Recording = {}
    BY DEF Busy, Recording, At
  <2>2. QED
    BY <2>1, FS_EmptySet, Caps DEF BoundInv
<1>5. QED
  BY <1>1, <1>2, <1>3, <1>4 DEF RingInv

\* A step of one task that leaves the ring alone.
LEMMA GoesOn ==
  ASSUME RingInv, NEW t \in Task, NEW p \in Place, Goto(t, p),
         UNCHANGED <<slots, head, count, stored>>,
         ~At(t, "advance"), p # "advance",
         t \in Caster => p \in {"idle", "add", "store"},
         \/ UNCHANGED holder /\ pc[t] \notin RingPlace /\ p \notin RingPlace
         \/ holder = Free /\ holder' = t /\ p \in RingPlace
         \/ pc[t] \in RingPlace /\ holder' = Free /\ p \notin RingPlace,
         \/ pc[t] \notin {"idle", "send"}
         \/ p \in {"idle", "send"}
         \/ BelowBound
  PROVE  RingInv'
<1>0. RingType /\ LockedInv /\ EntriesInv /\ BoundInv
  BY DEF RingInv
<1>1. /\ pc' \in [Task -> Place] /\ pc'[t] = p /\ \A u \in Task \ {t} : pc'[u] = pc[u]
      /\ IsFiniteSet(Busy')
  BY <1>0, OneGoes DEF RingType, BoundInv
<1>2. RingType'
  BY <1>0, <1>1, Tasks DEF RingType
<1>3. LockedInv'
  BY <1>0, <1>1, Tasks DEF LockedInv
<1>4. Storing' <=> Storing
  BY <1>1 DEF Storing, At
<1>5. EntriesInv'
  BY <1>0, <1>4 DEF EntriesInv, Entry
<1>6. stored \in Nat /\ Cardinality(Recording) \in Nat /\ Cardinality(Busy) \in Nat
      /\ Cardinality(Recording) <= Cardinality(Busy)
      /\ stored + Cardinality(Recording) <= ErrorBound
  BY <1>0, RecordingFinite DEF RingType, BoundInv
<1>7. BelowBound => stored + Cardinality(Recording) + 1 <= ErrorBound
  BY <1>6, Caps DEF BelowBound, Pending, Busy
<1>8. \/ Cardinality(Recording') \in {Cardinality(Recording), Cardinality(Recording) - 1}
      \/ BelowBound /\ Cardinality(Recording') = Cardinality(Recording) + 1
  BY <1>0, OneGoes DEF RingType, BoundInv
<1>9. stored + Cardinality(Recording') <= ErrorBound
  BY <1>6, <1>7, <1>8, Caps
<1>10. QED
  BY <1>1, <1>2, <1>3, <1>5, <1>9 DEF RingInv, BoundInv

\* The error is stored at the head; the entries are those before.
LEMMA StoreKeepsRing ==
  ASSUME RingInv, NEW t \in Task, StoreError(t)
  PROVE  RingInv'
<1>0. RingType /\ LockedInv /\ EntriesInv /\ BoundInv /\ pc[t] = "store"
  BY DEF RingInv, StoreError, At
<1>1. /\ pc' \in [Task -> Place] /\ pc'[t] = "advance" /\ \A u \in Task \ {t} : pc'[u] = pc[u]
      /\ IsFiniteSet(Busy') /\ Cardinality(Recording') = Cardinality(Recording)
  BY <1>0, OneGoes DEF StoreError, RingType, BoundInv, Place
<1>2. stored + 1 \in 0 .. ErrorBound
  <2>1. t \in Recording
    BY <1>0 DEF Recording
  <2>2. Cardinality(Recording) \in Nat /\ Cardinality(Recording) # 0
    BY <1>0, <2>1, RecordingFinite, FS_EmptySet DEF BoundInv
  <2>3. QED
    BY <1>0, <2>2, Caps DEF BoundInv, RingType
<1>3. slots' \in [0 .. RingCap - 1 -> 0 .. ErrorBound] /\ slots'[head] = stored + 1
      /\ \A k \in 0 .. RingCap - 1 : k # head => slots'[k] = slots[k]
  BY <1>0, <1>2 DEF StoreError, RingType
<1>4. UNCHANGED <<head, count, holder, stored>>
  BY DEF StoreError
<1>5. RingType'
  <2>1. \A u \in Caster : pc'[u] \in {"idle", "add", "store", "advance"}
    BY <1>0, <1>1, Tasks DEF RingType
  <2>2. QED
    BY <1>0, <1>1, <1>2, <1>3, <1>4, <2>1 DEF RingType
<1>6. LockedInv'
  BY <1>0, <1>1, <1>4 DEF LockedInv, RingPlace
<1>7. ~Storing
  BY <1>0 DEF Storing, LockedInv, RingPlace, At
<1>8. ASSUME NEW i \in 1 .. count, i # RingCap
      PROVE  slots'[(head + RingCap - i) % RingCap] = stored + 1 - i
  <2>1. count \in 0 .. RingCap /\ head \in 0 .. RingCap - 1
    BY <1>0, Caps, CutType DEF EntriesInv, RingType
  <2>2. head + RingCap - i \in 0 .. 2 * RingCap - 1
    BY <1>8, <2>1, Caps
  <2>3. (head + RingCap - i) % RingCap \in 0 .. RingCap - 1
        /\ (head + RingCap - i) % RingCap # head
    BY <1>8, <2>1, <2>2, Wraps, Caps
  <2>4. QED
    BY <1>0, <1>3, <1>7, <2>3 DEF EntriesInv, Entry
<1>9. EntriesInv'
  <2>1. Storing'
    BY <1>1 DEF Storing, At
  <2>2. QED
    BY <1>0, <1>3, <1>4, <1>8, <2>1 DEF EntriesInv, Entry
<1>10. QED
  BY <1>0, <1>1, <1>4, <1>5, <1>6, <1>9 DEF RingInv, BoundInv

\* The head moves on: what was the head's entry is the newest.
LEMMA AdvanceKeepsRing ==
  ASSUME RingInv, NEW t \in Task, AdvanceRing(t)
  PROVE  RingInv' /\ stored' = stored + 1
<1>0. RingType /\ LockedInv /\ EntriesInv /\ BoundInv /\ pc[t] = "advance"
  BY DEF RingInv, AdvanceRing, At
<1> DEFINE p == IF t = Httpd THEN "send" ELSE "idle"
<1>1. /\ pc' \in [Task -> Place] /\ pc'[t] = p /\ \A u \in Task \ {t} : pc'[u] = pc[u]
      /\ IsFiniteSet(Busy') /\ Cardinality(Recording') = Cardinality(Recording) - 1
  BY <1>0, OneGoes DEF AdvanceRing, RingType, BoundInv, Place
<1>2. stored' = stored + 1 /\ slots' = slots /\ holder' = Free /\ head' = (head + 1) % RingCap
      /\ count' = IF count < RingCap THEN count + 1 ELSE count
  BY DEF AdvanceRing, NextHead
<1>3. stored \in Nat /\ Cardinality(Recording) \in Nat /\ count \in 0 .. RingCap
      /\ head \in 0 .. RingCap - 1 /\ count = Cut(stored, RingCap)
  BY <1>0, RecordingFinite, Caps, CutType DEF BoundInv, RingType, EntriesInv
<1>4. BoundInv'
  BY <1>0, <1>1, <1>2, <1>3, Caps DEF BoundInv
<1>5. stored' \in 0 .. ErrorBound
  <2>1. Cardinality(Recording') \in Nat
    BY <1>1, FS_Subset, FS_CardinalityType DEF Recording, Busy, At
  <2>2. QED
    BY <1>2, <1>3, <1>4, <2>1, Caps DEF BoundInv
<1>6. head' = (IF head + 1 < RingCap THEN head + 1 ELSE 0) /\ head' \in 0 .. RingCap - 1
  BY <1>2, <1>3, Wraps, Caps
<1>7. RingType'
  BY <1>0, <1>1, <1>2, <1>5, <1>6, Tasks DEF RingType
<1>8. LockedInv' /\ ~Storing'
  <2>1. \A u \in Task \ {t} : pc[u] \notin RingPlace
    BY <1>0 DEF LockedInv, RingPlace
  <2>2. QED
    BY <1>1, <1>2, <2>1, Tasks DEF LockedInv, RingPlace, Storing, At
<1>9. count' = Cut(stored', RingCap)
  BY <1>2, <1>3, Caps DEF Cut
<1>10. ASSUME NEW i \in 1 .. count'
       PROVE  slots[(head' + RingCap - i) % RingCap] = stored' + 1 - i
  <2>1. CASE i = 1
    <3>1. head' + RingCap - 1 \in 0 .. 2 * RingCap - 1
      BY <1>6, Caps
    <3>2. (head' + RingCap - 1) % RingCap = head
      BY <1>3, <1>6, <3>1, Wraps, Caps
    <3>3. slots[head] = stored + 1
      BY <1>0 DEF EntriesInv, Storing, At
    <3>4. QED
      BY <1>2, <1>3, <2>1, <3>2, <3>3
  <2>2. CASE i # 1
    <3>1. i - 1 \in 1 .. count /\ i - 1 # RingCap
      BY <1>2, <1>3, <1>10, <2>2, Caps
    <3>2. Entry(i - 1) = stored + 1 - (i - 1)
      BY <1>0, <3>1 DEF EntriesInv
    <3>3. /\ head' + RingCap - i \in 0 .. 2 * RingCap - 1
          /\ head + RingCap - (i - 1) \in 0 .. 2 * RingCap - 1
      BY <1>3, <1>6, <3>1, Caps
    <3>4. (head' + RingCap - i) % RingCap = (head + RingCap - (i - 1)) % RingCap
      BY <1>3, <1>6, <3>1, <3>3, Wraps, Caps
    <3>5. QED
      BY <1>2, <1>3, <1>10, <3>2, <3>4 DEF Entry
  <2>3. QED
    BY <2>1, <2>2
<1>11. EntriesInv'
  BY <1>2, <1>8, <1>9, <1>10 DEF EntriesInv, Entry
<1>12. QED
  BY <1>2, <1>4, <1>7, <1>8, <1>11 DEF RingInv

(***************************************************************************)
(* The request and its answer, which the HTTP task alone writes.           *)
(***************************************************************************)
Statuses == {"400", "404", "409", "500", "503"}
Chunk == {"head", "data", "job", "null", "truncated", "result", "row", "tail", "end"}
           \cup Statuses \cup {"304"}

\* What the checks of a request read of its fields.
Read(args) == [f \in DOMAIN args |-> Parsed(f, args[f])]

\* The fields of a request are known, and its numbers are integers.
Fielded(args) ==
    /\ DOMAIN args \subseteq DOMAIN Allowed
    /\ \A f \in DOMAIN args \cap JsonNumber : args[f] \in Int

Request(args, done) ==
    [kind : Kind, args : {args}, body : Body, stage : 1 .. 2, try : 0 .. HeapRetries,
     rows : Nat, err : Err, done : {done}, shown : Seq(Nat), since : Nat,
     left : Seq(Chunk)]

RequestType ==
    /\ req \in Request(req.args, req.done) /\ req.since <= stored
    /\ Len(req.shown) <= Emit
    /\ Fielded(req.args)
    /\ req.args = [f \in DOMAIN req.args |-> req.args[f]]
    /\ list \in DeviceLists
    /\ wire \in Seq(Chunk)

\* Nothing is sent before the answer is known.
BeforeInv == pc[Httpd] \notin {"send", "idle"} => wire = <<>>

ParseInv == At(Httpd, "parse") =>
    req.kind \in WithBody /\ req.stage = 1 /\ req.done = {}

\* Of several calls those before this one have been made.
CallInv == At(Httpd, "call") =>
    /\ Valid(req.args)
    /\ req.kind # "file" => req.stage <= Len(Calls(req.kind))
    /\ req.done = IF req.stage = 1 THEN {} ELSE {<<Calls(req.kind)[1], Read(req.args)>>}
    /\ req.kind = "file" => req.stage = 1

PageInv == pc[Httpd] \in {"snapshot", "copy", "build"} =>
    /\ req.kind \in Page /\ req.done = {} /\ Valid(req.args)
    /\ ~At(Httpd, "build") => req.kind = "health"

\* The calls that a success tells of, with what was read of the request.
Told == {<<call, Read(req.args)>> : call \in Asked}

\* An answer is a file, a success or a refusal, and what of it is on the wire is
\* a beginning of it.
Refusal(s) == s \in Statuses /\ (s = "400" => req.done = {})
File    == req.kind = "file" /\ req.done = {}
Begun   ==
    /\ req.kind # "file" /\ req.done = Told
    /\ Len(wire) <= Len(Answer(req))
    /\ \A i \in 1 .. Len(wire) : wire[i] = Answer(req)[i]
ToCome  ==
    /\ Len(wire) + Len(req.left) = Len(Answer(req))
    /\ \A i \in 1 .. Len(req.left) : req.left[i] = Answer(req)[Len(wire) + i]
Turned  == wire = <<>> /\ req.kind # "file" /\ \E s \in Statuses : Refusal(s) /\ req.left = <<s>>

TurnedInv == pc[Httpd] \in {"add", "store", "advance"} => Turned

SendInv == At(Httpd, "send") =>
    /\ req.left # <<>>
    /\ File \/ (Begun /\ ToCome) \/ Turned

IdleInv == At(Httpd, "idle") =>
    File \/ Begun \/ wire = <<>> \/ \E s \in Statuses : Refusal(s) /\ wire = <<s>>

ServeInv ==
    /\ RequestType /\ BeforeInv /\ ParseInv /\ CallInv /\ PageInv
    /\ NewestErrorsShown /\ TurnedInv /\ SendInv /\ IdleInv

ApiInv == RingInv /\ ServeInv

\* What is asked for and answered depends on the request alone.
LEMMA SameAnswer ==
  ASSUME NEW r, NEW s, s.kind = r.kind, s.rows = r.rows, s.args = r.args
  PROVE  Answer(s) = Answer(r)
BY Zenon DEF Answer, Result

\* An answer has at least one chunk; it begins with no status, and the last chunk
\* of a page, and no other, is its end.
LEMMA AnswerShape ==
  ASSUME NEW r, r.rows \in Nat
  PROVE  /\ Answer(r) \in Seq(Chunk) /\ Len(Answer(r)) \in Nat \ {0}
         /\ Answer(r)[1] \notin Statuses
         /\ r.kind # "file" => \A i \in 1 .. Len(Answer(r)) :
               Answer(r)[i] = "end" => i = Len(Answer(r))
<1>1. Rows(r.rows) \in Seq(Chunk) /\ Len(Rows(r.rows)) = r.rows
      /\ \A i \in 1 .. r.rows : Rows(r.rows)[i] = "row"
  <2>1. Rows(r.rows) \in [1 .. r.rows -> Chunk] /\ \A i \in 1 .. r.rows : Rows(r.rows)[i] = "row"
    BY DEF Rows, Chunk
  <2>2. Rows(r.rows) \in Seq(Chunk)
    BY <2>1, SeqDef
  <2>3. Len(Rows(r.rows)) = r.rows
    BY <2>1, <2>2, LenProperties
  <2>4. QED
    BY <2>1, <2>2, <2>3
<1>2. CASE r.kind = "scan" /\ r.rows > 0
  <2> DEFINE a == <<"head">> \o Rows(r.rows)
             b == <<"tail", "end">>
  <2>1. a \in Seq(Chunk) /\ Len(a) = r.rows + 1 /\ a[1] = "head"
        /\ \A i \in 2 .. r.rows + 1 : a[i] = "row"
    BY <1>1 DEF Chunk
  <2>2. Answer(r) = a \o b
    <3>1. Answer(r) = <<"head">> \o Rows(r.rows) \o <<"tail", "end">>
      BY <1>2, Zenon DEF Answer
    <3>2. QED
      BY <3>1
  <2>3. b \in Seq(Chunk) /\ Len(b) = 2 /\ b[1] = "tail" /\ b[2] = "end"
    BY DEF Chunk
  <2> HIDE DEF a, b
  <2>4. /\ a \o b \in Seq(Chunk)
         /\ Len(a \o b) = Len(a) + Len(b)
         /\ \A i \in 1 .. Len(a) + Len(b) :
               (a \o b)[i] = IF i <= Len(a) THEN a[i] ELSE b[i - Len(a)]
    BY <2>1, <2>3, ConcatProperties, Zenon
  <2>5. /\ Answer(r) \in Seq(Chunk)
         /\ Len(Answer(r)) = Len(a) + Len(b)
         /\ \A i \in 1 .. Len(a) + Len(b) :
               Answer(r)[i] = IF i <= Len(a) THEN a[i] ELSE b[i - Len(a)]
    BY <2>2, <2>4, Zenon
  <2>6. Answer(r) \in Seq(Chunk) /\ Len(Answer(r)) = r.rows + 3
    BY <2>1, <2>3, <2>5
  <2>7. /\ \A i \in 1 .. r.rows + 1 : Answer(r)[i] = a[i]
        /\ Answer(r)[r.rows + 2] = b[1]
    <3>1. Len(a) = r.rows + 1 /\ Len(b) = 2
      BY <2>1, <2>3
    <3>2. r.rows + 2 \in 1 .. Len(a) + Len(b) /\ ~(r.rows + 2 <= Len(a))
          /\ r.rows + 2 - Len(a) = 1
      BY <3>1
    <3>3. Answer(r)[r.rows + 2] = b[1]
      BY <2>5, <3>2
    <3>4. \A i \in 1 .. r.rows + 1 : i \in 1 .. Len(a) + Len(b) /\ i <= Len(a)
      BY <3>1
    <3>5. QED
      BY <2>5, <3>3, <3>4
  <2>8. \A i \in 1 .. r.rows + 3 : i # r.rows + 3 => Answer(r)[i] # "end"
    <3>1. SUFFICES ASSUME NEW i \in 1 .. r.rows + 3, i # r.rows + 3
                   PROVE  Answer(r)[i] # "end"
      OBVIOUS
    <3>2. i \in 1 .. r.rows + 1 \/ i = r.rows + 2
      BY <3>1
    <3>3. i \in 1 .. r.rows + 1 => i = 1 \/ i \in 2 .. r.rows + 1
      OBVIOUS
    <3>4. QED
      BY <2>1, <2>3, <2>7, <3>2, <3>3
  <2>9. Answer(r)[1] = "head"
    <3>1. 1 \in 1 .. r.rows + 1
      OBVIOUS
    <3>2. QED
      BY <2>1, <2>7, <3>1
  <2>10. QED
    BY <2>6, <2>8, <2>9 DEF Statuses
<1>3. CASE r.kind = "file"
  <2> DEFINE a == Rows(r.rows)
             b == <<"end">>
  <2>1. Answer(r) = a \o b
    <3>1. ~(r.kind = "scan" /\ r.rows > 0) /\ r.kind # "job"
      BY <1>3
    <3>2. QED
      BY <1>3, <3>1, Zenon DEF Answer
  <2>2. b \in Seq(Chunk) /\ Len(b) = 1 /\ b[1] = "end"
    BY DEF Chunk
  <2>3. a \in Seq(Chunk) /\ Len(a) = r.rows /\ \A i \in 1 .. r.rows : a[i] = "row"
    BY <1>1 DEF Chunk
  <2> HIDE DEF a, b
  <2>4. Answer(r) \in Seq(Chunk) /\ Len(Answer(r)) = r.rows + 1
        /\ Answer(r)[1] \in {"row", "end"}
    <3>1. CASE r.rows = 0
      BY <2>1, <2>2, <2>3, <3>1, ConcatProperties
    <3>2. CASE r.rows # 0
      <4>1. /\ a \o b \in Seq(Chunk)
            /\ Len(a \o b) = Len(a) + Len(b)
            /\ \A i \in 1 .. Len(a) + Len(b) :
                  (a \o b)[i] = IF i <= Len(a) THEN a[i] ELSE b[i - Len(a)]
        BY <2>2, <2>3, ConcatProperties, Zenon
      <4>2. /\ Answer(r) \in Seq(Chunk)
            /\ Len(Answer(r)) = Len(a) + Len(b)
            /\ \A i \in 1 .. Len(a) + Len(b) :
                  Answer(r)[i] = IF i <= Len(a) THEN a[i] ELSE b[i - Len(a)]
        BY <2>1, <4>1, Zenon
      <4>3. Len(a) = r.rows /\ Len(b) = 1 /\ 1 \in 1 .. r.rows
        BY <2>2, <2>3, <3>2
      <4>4. 1 \in 1 .. Len(a) + Len(b) /\ 1 <= Len(a)
        BY <4>3
      <4>5. Answer(r)[1] = a[1] /\ Len(Answer(r)) = r.rows + 1
        BY <4>2, <4>3, <4>4
      <4>6. QED
        BY <2>3, <4>2, <4>3, <4>5
    <3>3. QED
      BY <3>1, <3>2
  <2>5. QED
    BY <1>3, <2>4 DEF Statuses
<1>4. CASE r.kind = "job"
  <2>1. Answer(r) = <<"head", "job", Result(r), "tail", "end">>
    <3>1. ~(r.kind = "scan" /\ r.rows > 0)
      BY <1>4
    <3>2. QED
      BY <1>4, <3>1, Zenon DEF Answer
  <2>2. Result(r) \in {"null", "truncated", "result"}
    BY Zenon DEF Result
  <2> HIDE DEF Result
  <2>3. QED
    BY <2>1, <2>2 DEF Chunk, Statuses
<1>5. CASE r.kind \notin {"file", "job"} /\ ~(r.kind = "scan" /\ r.rows > 0)
  <2>1. Answer(r) = <<"head", "data", "tail", "end">>
    <3>1. r.kind # "job" /\ r.kind # "file"
      BY <1>5
    <3>2. QED
      BY <1>5, <3>1, Zenon DEF Answer
  <2>2. QED
    BY <2>1 DEF Chunk, Statuses
<1>6. QED
  BY <1>2, <1>3, <1>4, <1>5

\* The fields of a request, and what their numbers and texts may be.
LEMMA Fields ==
  DOMAIN Allowed = {"addr", "ep", "cmd", "name", "ssid", "password", "delay", "type"}
BY DEF Allowed

LEMMA Numbers ==
  /\ ShortMax \in Nat /\ DelayMax \in Nat /\ DefaultDelay \in 0 .. DelayMax
  /\ \A v \in Allowed["addr"] : v \in 1 .. ShortMax
  /\ \A v \in Allowed["ep"] : v \in 0 .. 255
  /\ \A v \in Allowed["cmd"] : v \in 0 .. 255
  /\ Width["addr"] = ShortMax + 1 /\ Width["ep"] = 256 /\ Width["cmd"] = 256
<1>1. ShortMax \in Nat /\ DelayMax \in Nat /\ DefaultDelay \in 0 .. DelayMax
  BY DEF ShortMax, DelayMax, DefaultDelay
<1>2. \A v \in Allowed["addr"] : v \in 1 .. ShortMax
  BY DEF Allowed
<1>3. \A v \in Allowed["ep"] : v \in 0 .. 255
  BY DEF Allowed
<1>4. \A v \in Allowed["cmd"] : v \in 0 .. 255
  BY DEF Allowed
<1>5. Width["addr"] = ShortMax + 1 /\ Width["ep"] = 256 /\ Width["cmd"] = 256
  BY DEF Width
<1>6. QED
  BY <1>1, <1>2, <1>3, <1>4, <1>5

LEMMA Texts ==
  /\ \A v \in Allowed["name"] : v \in 0 .. 31
  /\ \A v \in Allowed["ssid"] : v \in 0 .. 32
  /\ \A v \in Allowed["password"] : v \in 0 .. 64
  /\ Room["name"] = 31 /\ Room["ssid"] = 32 /\ Room["password"] = 64
<1>1. \A v \in Allowed["name"] : v \in 0 .. 31
  BY DEF Allowed
<1>2. \A v \in Allowed["ssid"] : v \in 0 .. 32
  BY DEF Allowed
<1>3. \A v \in Allowed["password"] : v \in 0 .. 64
  BY DEF Allowed
<1>4. Room["name"] = 31 /\ Room["ssid"] = 32 /\ Room["password"] = 64
  BY DEF Room
<1>5. QED
  BY <1>1, <1>2, <1>3, <1>4

\* What a valid request says survives the types it is kept in.
LEMMA ValidIsKept ==
  ASSUME NEW f \in DOMAIN Allowed, NEW v, Parsed(f, v) \in Allowed[f]
  PROVE  Kept(f, v) = Parsed(f, v)
<1>1. CASE f \in {"addr", "ep", "cmd"}
  <2>1. f \in DOMAIN Width /\ Kept(f, v) = Parsed(f, v) % Width[f]
    BY <1>1 DEF Kept, Width
  <2>2. Parsed(f, v) \in 0 .. Width[f] - 1 /\ Width[f] \in Nat \ {0}
    BY <1>1, Numbers
  <2>3. QED
    BY <2>1, <2>2
<1>2. CASE f \in {"name", "ssid", "password"}
  <2>1. f \notin DOMAIN Width /\ f \in DOMAIN Room /\ Parsed(f, v) = v
    BY <1>2 DEF Width, Room, Parsed, JsonNumber
  <2>2. Kept(f, v) = Cut(v, Room[f])
    BY <2>1 DEF Kept
  <2>3. v \in Nat /\ Room[f] \in Nat /\ v <= Room[f]
    BY <1>2, <2>1, Texts
  <2>4. QED
    BY <2>1, <2>2, <2>3, CutType
<1>3. CASE f \in {"type", "delay"}
  <2>1. f \notin DOMAIN Width /\ f \notin DOMAIN Room
    BY <1>3 DEF Width, Room
  <2>2. f = "type" => v \in JobType
    BY DEF Allowed, Parsed, JsonNumber
  <2>3. QED
    BY <2>1, <2>2 DEF Kept
<1>4. QED
  BY <1>1, <1>2, <1>3, Fields

LEMMA ValidArgsKept ==
  ASSUME Fielded(req.args),
         req.args = [f \in DOMAIN req.args |-> req.args[f]], Valid(req.args)
  PROVE  [f \in DOMAIN req.args |-> Kept(f, req.args[f])] = Read(req.args)
<1>1. \A f \in DOMAIN req.args : Kept(f, req.args[f]) = Parsed(f, req.args[f])
  BY ValidIsKept DEF Valid, Fielded
<1>2. QED
  BY <1>1 DEF Read

\* The arguments of a request are among those that are checked.
LEMMA ArgsType ==
  ASSUME NEW kind \in Kind, NEW args \in Args(kind)
  PROVE  /\ Fielded(args) /\ args = [f \in DOMAIN args |-> args[f]]
         /\ kind \notin WithBody => Valid(args)
<1>1. CASE kind = "control"
  <2>1. args \in [addr : Sample.addr, ep : Sample.ep, cmd : Sample.cmd]
    BY <1>1, Zenon DEF Args
  <2>2. args = [f \in DOMAIN args |-> args[f]] /\ Fielded(args)
    BY <2>1, Fields, ApiAssumption DEF Fielded, JsonNumber
  <2>3. QED
    BY <1>1, <2>2 DEF WithBody
<1>2. CASE kind = "delete"
  <2>1. kind # "control"
    BY <1>2
  <2>2. args \in [addr : Sample.addr]
    BY <1>2, <2>1, Zenon DEF Args
  <2>3. args = [f \in DOMAIN args |-> args[f]] /\ Fielded(args)
    BY <2>2, Fields, ApiAssumption DEF Fielded, JsonNumber
  <2>4. QED
    BY <1>2, <2>3 DEF WithBody
<1>3. CASE kind = "rename"
  <2>1. kind # "control" /\ kind # "delete"
    BY <1>3
  <2>2. args \in [addr : Sample.addr, name : Sample.name]
    BY <1>3, <2>1, Zenon DEF Args
  <2>3. args = [f \in DOMAIN args |-> args[f]] /\ Fielded(args)
    BY <2>2, Fields, ApiAssumption DEF Fielded, JsonNumber
  <2>4. QED
    BY <1>3, <2>3 DEF WithBody
<1>4. CASE kind = "wifi_save"
  <2>1. kind # "control" /\ kind # "delete" /\ kind # "rename"
    BY <1>4
  <2>2. args \in [ssid : Sample.ssid, password : Sample.password]
    BY <1>4, <2>1, Zenon DEF Args
  <2>3. args = [f \in DOMAIN args |-> args[f]] /\ Fielded(args)
    BY <2>2, Fields, ApiAssumption DEF Fielded, JsonNumber
  <2>4. QED
    BY <1>4, <2>3 DEF WithBody
<1>5. CASE kind = "submit"
  <2>1. kind # "control" /\ kind # "delete" /\ kind # "rename" /\ kind # "wifi_save"
    BY <1>5
  <2>2. args \in [type : Sample.type, delay : Sample.delay]
    BY <1>5, <2>1, Zenon DEF Args
  <2>3. args = [f \in DOMAIN args |-> args[f]] /\ Fielded(args)
    BY <2>2, Fields, ApiAssumption DEF Fielded, JsonNumber
  <2>4. QED
    BY <1>5, <2>3 DEF WithBody
<1>6. CASE kind \notin WithBody
  <2>1. kind # "control" /\ kind # "delete" /\ kind # "rename" /\ kind # "wifi_save"
        /\ kind # "submit"
    BY <1>6 DEF WithBody
  <2>2. args \in {NoArgs}
    BY <2>1, Zenon DEF Args
  <2>3. DOMAIN NoArgs = {"delay"} /\ NoArgs["delay"] = DefaultDelay * Unit
        /\ NoArgs = [f \in DOMAIN NoArgs |-> NoArgs[f]]
    BY DEF NoArgs
  <2>4. NoArgs["delay"] \in Int /\ Parsed("delay", NoArgs["delay"]) = DefaultDelay
    BY <2>3 DEF Parsed, JsonNumber, valueint, Unit, DefaultDelay
  <2>5. DefaultDelay \in Allowed["delay"]
    BY Numbers DEF Allowed
  <2>6. QED
    BY <2>2, <2>3, <2>4, <2>5, Fields DEF Valid, Fielded
<1>7. QED
  BY <1>1, <1>2, <1>3, <1>4, <1>5, <1>6 DEF WithBody

\* Every error is told by a status, and only an invalid argument by 400.
LEMMA StatusType ==
  ASSUME NEW err \in Err
  PROVE  Status(err) \in Statuses /\ (Status(err) = "400" => err = "invalid_arg")
<1>1. CASE err = "invalid_arg"
  BY <1>1, Zenon DEF Status, Statuses
<1>2. CASE err # "invalid_arg"
  <2>1. CASE err \in {"not_found", "nvs_not_found"}
    <3>1. Status(err) = "404"
      BY <1>2, <2>1, Zenon DEF Status
    <3>2. QED
      BY <1>2, <3>1 DEF Statuses
  <2>2. CASE err \notin {"not_found", "nvs_not_found"} /\ err = "invalid_state"
    <3>1. Status(err) = "409"
      BY <1>2, <2>2, Zenon DEF Status
    <3>2. QED
      BY <1>2, <3>1 DEF Statuses
  <2>3. CASE err \notin {"not_found", "nvs_not_found"} /\ err # "invalid_state"
    <3>1. Status(err) \in {"503", "500"}
      BY <1>2, <2>3, Zenon DEF Status
    <3>2. QED
      BY <1>2, <3>1 DEF Statuses
  <2>4. QED
    BY <2>1, <2>2, <2>3
<1>3. QED
  BY <1>1, <1>2

\* The fields of a request that a step changes, and those it leaves.
LEMMA WithLeft ==
  ASSUME NEW args, NEW done, NEW r \in Request(args, done), NEW l \in Seq(Chunk),
         NEW s, s = [r EXCEPT !.left = l]
  PROVE  /\ s \in Request(args, done) /\ s.left = l
         /\ s.kind = r.kind /\ s.args = r.args /\ s.body = r.body /\ s.stage = r.stage
         /\ s.try = r.try /\ s.rows = r.rows /\ s.err = r.err /\ s.done = r.done
         /\ s.shown = r.shown /\ s.since = r.since
BY DEF Request

LEMMA WithErr ==
  ASSUME NEW args, NEW done, NEW r \in Request(args, done), NEW err \in Err,
         NEW s, s = [r EXCEPT !.err = err]
  PROVE  /\ s \in Request(args, done) /\ s.err = err
         /\ s.kind = r.kind /\ s.args = r.args /\ s.body = r.body /\ s.stage = r.stage
         /\ s.try = r.try /\ s.rows = r.rows /\ s.done = r.done
         /\ s.shown = r.shown /\ s.since = r.since /\ s.left = r.left
BY DEF Request

LEMMA WithStage ==
  ASSUME NEW args, NEW done, NEW r \in Request(args, done), NEW stage \in 1 .. 2,
         NEW s, s = [r EXCEPT !.stage = stage]
  PROVE  /\ s \in Request(args, done) /\ s.stage = stage
         /\ s.kind = r.kind /\ s.args = r.args /\ s.body = r.body
         /\ s.try = r.try /\ s.rows = r.rows /\ s.err = r.err /\ s.done = r.done
         /\ s.shown = r.shown /\ s.since = r.since /\ s.left = r.left
BY DEF Request

LEMMA WithDone ==
  ASSUME NEW args, NEW done, NEW r \in Request(args, done), NEW more,
         NEW s, s = [r EXCEPT !.done = more]
  PROVE  /\ s \in Request(args, more) /\ s.done = more
         /\ s.kind = r.kind /\ s.args = r.args /\ s.body = r.body /\ s.stage = r.stage
         /\ s.try = r.try /\ s.rows = r.rows /\ s.err = r.err
         /\ s.shown = r.shown /\ s.since = r.since /\ s.left = r.left
BY DEF Request

\* The HTTP task goes on without touching the ring; no task moves.
LEMMA HttpdGoesOn ==
  ASSUME RingInv, NEW p \in Place \ RingPlace, Goto(Httpd, p), UNCHANGED ring,
         pc[Httpd] \notin RingPlace,
         \/ pc[Httpd] \notin {"idle", "send"}
         \/ p \in {"idle", "send"}
         \/ BelowBound
  PROVE  RingInv' /\ pc'[Httpd] = p
<1>1. UNCHANGED <<slots, head, count, stored>> /\ UNCHANGED holder
  BY DEF ring
<1>2. ~At(Httpd, "advance") /\ p # "advance" /\ p \in Place /\ Httpd \in Task
      /\ Httpd \notin Caster
  BY Tasks DEF At, RingPlace
<1>3. RingInv'
  BY <1>1, <1>2, GoesOn
<1>4. pc \in [Task -> Place]
  BY DEF RingInv, RingType
<1>5. QED
  BY <1>2, <1>3, <1>4 DEF Goto

\* A step that leaves the ring and every task's place.
LEMMA RingStays ==
  ASSUME RingInv, UNCHANGED <<ring, pc>>
  PROVE  RingInv'
BY DEF RingInv, RingType, LockedInv, EntriesInv, BoundInv, Busy, Recording, Storing,
       Entry, At, ring

\* What holds of a request at the place of the HTTP task.
LEMMA Served ==
  ASSUME ApiInv
  PROVE  /\ req \in Request(req.args, req.done) /\ req.since <= stored
         /\ Len(req.shown) <= Emit /\ wire \in Seq(Chunk) /\ stored \in Nat
         /\ pc \in [Task -> Place]
         /\ pc[Httpd] \notin {"send", "idle"} => wire = <<>>
BY DEF ApiInv, ServeInv, RequestType, BeforeInv, RingInv, RingType

\* An error is told; nothing was done if it is an invalid argument.
LEMMA Refuses ==
  ASSUME ApiInv, NEW err \in Err, Refuse(err), UNCHANGED <<ring, list, wire>>,
         pc[Httpd] \in {"parse", "call", "build"}, err = "invalid_arg" => req.done = {},
         req.kind # "file"
  PROVE  ApiInv'
<1> DEFINE told == IF req.kind = "health" /\ Status(err) # "503" THEN "fail" ELSE err
           p == IF req.kind = "health" THEN "send" ELSE "add"
           r == [req EXCEPT !.err = told]
           l == <<Status(told)>>
<1>0. req \in Request(req.args, req.done) /\ req.since <= stored /\ wire = <<>>
      /\ Len(req.shown) <= Emit
  BY Served
<1>1. told \in Err /\ (told = "invalid_arg" => req.done = {})
  BY DEF Err
<1>2. req' = [r EXCEPT !.left = l] /\ Goto(Httpd, p)
  BY DEF Refuse
<1>3. Status(told) \in Statuses /\ (Status(told) = "400" => req.done = {})
  BY <1>1, StatusType
<1>4. l \in Seq(Chunk) /\ l # <<>>
  BY <1>3 DEF Chunk
<1> HIDE DEF told, l
<1>5. /\ r \in Request(req.args, req.done)
      /\ r.kind = req.kind /\ r.args = req.args /\ r.done = req.done
      /\ r.shown = req.shown /\ r.since = req.since
  BY <1>0, <1>1, WithErr
<1> HIDE DEF r
<1>6. /\ req' \in Request(req.args, req.done) /\ req'.left = l
      /\ req'.kind = r.kind /\ req'.args = r.args /\ req'.done = r.done
      /\ req'.shown = r.shown /\ req'.since = r.since
  BY <1>2, <1>4, <1>5, WithLeft
<1>7. RingInv' /\ pc'[Httpd] = p
  <2>1. p \in Place \ RingPlace /\ pc[Httpd] \notin RingPlace /\ pc[Httpd] \notin {"idle", "send"}
    BY DEF Place, RingPlace
  <2>2. RingInv /\ UNCHANGED ring
    BY DEF ApiInv
  <2> HIDE DEF p
  <2>3. QED
    BY <1>2, <2>1, <2>2, HttpdGoesOn
<1>8. RequestType'
  BY <1>5, <1>6 DEF ApiInv, ServeInv, RequestType, ring
<1>9. Turned'
  BY <1>0, <1>3, <1>5, <1>6 DEF Turned, Refusal, l
<1>10. BeforeInv'
  BY <1>0 DEF BeforeInv
<1>11. SendInv' /\ TurnedInv'
  BY <1>4, <1>6, <1>9 DEF SendInv, TurnedInv
<1>12. ParseInv' /\ CallInv' /\ PageInv' /\ NewestErrorsShown' /\ IdleInv'
  BY <1>7 DEF ParseInv, CallInv, PageInv, NewestErrorsShown, IdleInv, At
<1>13. QED
  BY <1>7, <1>8, <1>10, <1>11, <1>12 DEF ApiInv, ServeInv

\* A success is told; everything that was asked for is done.
LEMMA Answers ==
  ASSUME ApiInv, NEW args, NEW done, NEW r \in Request(args, done), req' = Begin(r),
         Fielded(args), args = [f \in DOMAIN args |-> args[f]],
         r.since <= stored, Len(r.shown) <= Emit,
         IF r.kind = "file" THEN done = {} ELSE done = Told',
         Goto(Httpd, "send"), pc[Httpd] \in {"call", "build"}, UNCHANGED <<ring, list, wire>>
  PROVE  ApiInv'
<1>1. r.rows \in Nat /\ r.args = args /\ r.done = done
  BY DEF Request
<1>2. Answer(r) \in Seq(Chunk) /\ Len(Answer(r)) \in Nat \ {0}
  BY <1>1, AnswerShape
<1>3. /\ req' \in Request(args, done) /\ req'.left = Answer(r)
      /\ req'.kind = r.kind /\ req'.args = args /\ req'.rows = r.rows /\ req'.done = done
      /\ req'.shown = r.shown /\ req'.since = r.since
  BY <1>1, <1>2, WithLeft DEF Begin
<1>4. Answer(req') = Answer(r)
  BY <1>1, <1>3, SameAnswer
<1>5. RingInv' /\ pc'[Httpd] = "send"
  <2>1. "send" \in Place \ RingPlace /\ pc[Httpd] \notin RingPlace
    BY DEF Place, RingPlace
  <2>2. RingInv /\ UNCHANGED ring
    BY DEF ApiInv
  <2>3. QED
    BY <2>1, <2>2, HttpdGoesOn
<1>6. wire' = <<>>
  BY Served
<1>7. RequestType'
  BY <1>3 DEF ApiInv, ServeInv, RequestType, ring
<1>8. SendInv'
  <2>1. req'.left # <<>>
    BY <1>2, <1>3
  <2>2. r.kind = "file" => File'
    BY <1>3 DEF File
  <2>3. r.kind # "file" => (Begun /\ ToCome)'
    BY <1>2, <1>3, <1>4, <1>6 DEF Begun, ToCome
  <2>4. QED
    BY <2>1, <2>2, <2>3 DEF SendInv
<1>9. /\ BeforeInv' /\ TurnedInv' /\ ParseInv' /\ CallInv' /\ PageInv'
      /\ NewestErrorsShown' /\ IdleInv'
  BY <1>5 DEF BeforeInv, TurnedInv, ParseInv, CallInv, PageInv, NewestErrorsShown, IdleInv, At
<1>10. QED
  BY <1>5, <1>7, <1>8, <1>9 DEF ApiInv, ServeInv

\* What a request asks for depends on its kind and its arguments.
LEMMA ToldOf ==
  /\ req.kind = "wifi_save" => Told = {<<"save", Read(req.args)>>, <<"reboot", Read(req.args)>>}
  /\ req.kind = "factory_reset" => Told = {<<"reset", Read(req.args)>>}
  /\ req.kind = "submit" => Told = {<<"queue", Read(req.args)>>}
  /\ req.kind \in {"control", "delete", "rename", "permit_join", "reboot"} =>
        Told = {<<req.kind, Read(req.args)>>}
  /\ req.kind \in Page \cup {"scan", "job", "file"} => Told = {} /\ Asked = {}
<1>1. req.kind = "wifi_save" => Asked = {"save", "reboot"}
  BY Zenon DEF Asked
<1>2. req.kind = "factory_reset" => Asked = {"reset"}
  <2>1. req.kind = "factory_reset" => req.kind # "wifi_save"
    OBVIOUS
  <2>2. QED
    BY <2>1, Zenon DEF Asked
<1>3. req.kind = "submit" => Asked = {"queue"}
  <2>1. req.kind = "submit" => req.kind # "wifi_save" /\ req.kind # "factory_reset"
    OBVIOUS
  <2>2. QED
    BY <2>1, Zenon DEF Asked
<1>4. ASSUME req.kind \in {"control", "delete", "rename", "permit_join", "reboot"}
      PROVE  Asked = {req.kind}
  <2>1. req.kind # "wifi_save" /\ req.kind # "factory_reset" /\ req.kind # "submit"
    BY <1>4
  <2>2. QED
    BY <1>4, <2>1, Zenon DEF Asked
<1>5. ASSUME req.kind \in Page \cup {"scan", "job", "file"}
      PROVE  Asked = {}
  <2>1. req.kind # "wifi_save" /\ req.kind # "factory_reset" /\ req.kind # "submit"
    BY <1>5 DEF Page
  <2>2. req.kind \notin {"control", "delete", "rename", "permit_join", "reboot"}
    BY <1>5 DEF Page
  <2>3. QED
    BY <2>1, <2>2, Zenon DEF Asked
<1>6. QED
  BY <1>1, <1>2, <1>3, <1>4, <1>5 DEF Told

\* The calls of a handler.
LEMMA CallsOf ==
  ASSUME NEW kind
  PROVE  /\ kind = "wifi_save" => Calls(kind) = <<"save", "reboot">>
         /\ kind = "factory_reset" => Calls(kind) = <<"reset", "report">>
         /\ kind = "submit" => Calls(kind) = <<"queue", "state">>
         /\ kind = "job" => Calls(kind) = <<"state">>
         /\ kind \notin {"wifi_save", "factory_reset", "submit", "job", "file"} =>
               Calls(kind) = <<kind>>
         /\ kind # "file" => Len(Calls(kind)) =
               IF kind \in {"wifi_save", "factory_reset", "submit"} THEN 2 ELSE 1
<1>1. kind = "wifi_save" => Calls(kind) = <<"save", "reboot">>
  BY Zenon DEF Calls
<1>2. kind = "factory_reset" => Calls(kind) = <<"reset", "report">>
  <2>1. kind = "factory_reset" => kind # "wifi_save"
    OBVIOUS
  <2>2. QED
    BY <2>1, Zenon DEF Calls
<1>3. kind = "submit" => Calls(kind) = <<"queue", "state">>
  <2>1. kind = "submit" => kind # "wifi_save" /\ kind # "factory_reset"
    OBVIOUS
  <2>2. QED
    BY <2>1, Zenon DEF Calls
<1>4. kind = "job" => Calls(kind) = <<"state">>
  <2>1. kind = "job" => kind # "wifi_save" /\ kind # "factory_reset" /\ kind # "submit"
    OBVIOUS
  <2>2. QED
    BY <2>1, Zenon DEF Calls
<1>5. kind \notin {"wifi_save", "factory_reset", "submit", "job", "file"} =>
         Calls(kind) = <<kind>>
  BY Zenon DEF Calls
<1>6. kind # "file" => Len(Calls(kind)) =
         IF kind \in {"wifi_save", "factory_reset", "submit"} THEN 2 ELSE 1
  BY <1>1, <1>2, <1>3, <1>4, <1>5
<1>7. QED
  BY <1>1, <1>2, <1>3, <1>4, <1>5, <1>6

\* Of two calls the second does not fail as an invalid one.
LEMMA FailuresOf ==
  ASSUME NEW call
  PROVE  /\ call = "report" => Failures(call) = {}
         /\ call = "reboot" => Failures(call) = {"no_mem"}
<1>1. call = "report" => Failures(call) = {}
  <2>1. call = "report" => call \in {"permit_join", "report"}
    OBVIOUS
  <2>2. QED
    BY <2>1, Zenon DEF Failures, Page
<1>2. call = "reboot" => Failures(call) = {"no_mem"}
  <2>1. call = "reboot" => call \notin {"permit_join", "report"}
    OBVIOUS
  <2>2. QED
    BY <2>1, Zenon DEF Failures, Page
<1>3. QED
  BY <1>1, <1>2

\* A step of the HTTP task to a place before the answer; the request stays.
LEMMA ReceiveKeeps ==
  ASSUME ApiInv, NEW kind \in Kind, NEW args \in Args(kind), NEW body \in Body,
         Receive(kind, args, body)
  PROVE  ApiInv'
<1> DEFINE p == IF kind \in WithBody THEN "parse" ELSE "call"
<1>1. RingInv /\ stored \in Nat /\ UNCHANGED <<ring, list>> /\ UNCHANGED stored
      /\ wire' = <<>> /\ Goto(Httpd, p) /\ BelowBound
  BY Served DEF ApiInv, Receive, ring
<1>2. RingInv' /\ pc'[Httpd] = p
  <2>1. p \in Place \ RingPlace /\ pc[Httpd] \notin RingPlace
    BY DEF Place, RingPlace, Receive, At
  <2> HIDE DEF p
  <2>2. QED
    BY <1>1, <2>1, HttpdGoesOn DEF ring
<1>3. /\ Fielded(args) /\ args = [f \in DOMAIN args |-> args[f]]
      /\ kind \notin WithBody => Valid(args)
  BY ArgsType
<1>4. req' = [kind |-> kind, args |-> args, body |-> body, stage |-> 1, try |-> 0,
              rows |-> 0, err |-> "fail", done |-> {}, shown |-> <<>>, since |-> stored,
              left |-> <<>>]
  BY DEF Receive, NoRequest
<1>5. req' \in Request(args, {}) /\ req'.since = stored /\ req'.shown = <<>>
      /\ req'.args = args /\ req'.done = {} /\ req'.kind = kind /\ req'.stage = 1
  BY <1>1, <1>4 DEF Request, HeapRetries, Err
<1>6. RequestType'
  <2>1. Len(req'.shown) <= Emit
    BY <1>5, Caps
  <2>2. QED
    BY <1>1, <1>3, <1>5, <2>1 DEF ApiInv, ServeInv, RequestType
<1>7. ParseInv'
  BY <1>2, <1>5 DEF ParseInv, At
<1>8. CallInv'
  <2>1. SUFFICES ASSUME kind \notin WithBody
                 PROVE  CallInv'
    BY <1>2 DEF CallInv, At
  <2>2. Valid(req'.args)
    BY <1>3, <1>5, <2>1
  <2>3. kind # "file" => 1 <= Len(Calls(kind))
    <3>1. kind # "file" => Len(Calls(kind)) =
             IF kind \in {"wifi_save", "factory_reset", "submit"} THEN 2 ELSE 1
      BY CallsOf, Zenon
    <3>2. QED
      BY <3>1
  <2>4. QED
    BY <1>5, <2>2, <2>3 DEF CallInv, Valid
<1>9. BeforeInv' /\ TurnedInv' /\ PageInv' /\ NewestErrorsShown' /\ SendInv' /\ IdleInv'
  BY <1>1, <1>2 DEF BeforeInv, TurnedInv, PageInv, NewestErrorsShown, SendInv, IdleInv, At
<1>10. QED
  BY <1>2, <1>6, <1>7, <1>8, <1>9 DEF ApiInv, ServeInv

LEMMA ParseFailsKeeps ==
  ASSUME ApiInv, ParseFails
  PROVE  ApiInv'
<1> DEFINE err == IF req.kind = "submit" /\ req.body = "cut" THEN "fail" ELSE "invalid_arg"
<1>1. err \in Err
  BY DEF Err
<1>2. Refuse(err) /\ UNCHANGED <<ring, list, wire>> /\ pc[Httpd] = "parse" /\ req.done = {}
      /\ req.kind # "file"
  BY DEF ParseFails, At, ApiInv, ServeInv, ParseInv, WithBody
<1> HIDE DEF err
<1>3. QED
  BY <1>1, <1>2, Refuses

LEMMA ParseKeeps ==
  ASSUME ApiInv, Parse
  PROVE  ApiInv'
<1>1. Goto(Httpd, "call") /\ pc[Httpd] = "parse" /\ UNCHANGED <<ring, req, list, wire>>
      /\ Valid(req.args) /\ req.kind \in WithBody /\ req.stage = 1 /\ req.done = {}
  BY DEF Parse, At, ApiInv, ServeInv, ParseInv
<1>2. RingInv' /\ pc'[Httpd] = "call"
  <2>1. "call" \in Place \ RingPlace /\ pc[Httpd] \notin RingPlace
    BY <1>1 DEF Place, RingPlace
  <2>2. QED
    BY <1>1, <2>1, HttpdGoesOn DEF ApiInv
<1>3. RequestType'
  BY <1>1 DEF ApiInv, ServeInv, RequestType, ring
<1>4. CallInv'
  <2>1. req.kind # "file" /\ 1 <= Len(Calls(req.kind))
    BY <1>1, CallsOf DEF WithBody
  <2>2. QED
    BY <1>1, <2>1 DEF CallInv, Valid
<1>5. /\ BeforeInv' /\ ParseInv' /\ TurnedInv' /\ PageInv' /\ NewestErrorsShown'
      /\ SendInv' /\ IdleInv'
  BY <1>1, <1>2, Served DEF BeforeInv, ParseInv, TurnedInv, PageInv, NewestErrorsShown, SendInv,
     IdleInv, At
<1>6. QED
  BY <1>2, <1>3, <1>4, <1>5 DEF ApiInv, ServeInv

\* The last call of a handler that is no page completes what was asked for, with
\* the arguments as they were read.
LEMMA LastCompletes ==
  ASSUME ApiInv, At(Httpd, "call"), Last, req.kind \in Kind,
         req.kind \notin Page \cup {"scan", "job", "file"}
  PROVE  req.done \cup Effect = Told
<1>1. req.done = (IF req.stage = 1 THEN {} ELSE {<<Calls(req.kind)[1], Read(req.args)>>})
      /\ req.stage \in 1 .. 2
  BY Served DEF ApiInv, ServeInv, CallInv, Request
<1>2. Effect = IF Call \in Reads THEN {} ELSE {<<Call, Read(req.args)>>}
  BY ValidArgsKept DEF Effect, ApiInv, ServeInv, RequestType, CallInv
<1>3. Call = Calls(req.kind)[req.stage] /\ req.stage = Len(Calls(req.kind))
  BY DEF Call, Last
<1> HIDE DEF Call
<1>4. CASE req.kind = "wifi_save"
  <2>1. Calls(req.kind) = <<"save", "reboot">>
    BY <1>4, CallsOf
  <2>2. Told = {<<"save", Read(req.args)>>, <<"reboot", Read(req.args)>>}
    BY <1>4, ToldOf
  <2>3. Call = "reboot" /\ Call \notin Reads /\ req.done = {<<"save", Read(req.args)>>}
    BY <1>1, <1>3, <2>1 DEF Reads, Page
  <2>4. QED
    BY <1>2, <2>2, <2>3
<1>5. CASE req.kind = "factory_reset"
  <2>1. Calls(req.kind) = <<"reset", "report">>
    BY <1>5, CallsOf
  <2>2. Told = {<<"reset", Read(req.args)>>}
    BY <1>5, ToldOf
  <2>3. Call = "report" /\ Call \in Reads /\ req.done = {<<"reset", Read(req.args)>>}
    BY <1>1, <1>3, <2>1 DEF Reads, Page
  <2>4. QED
    BY <1>2, <2>2, <2>3
<1>6. CASE req.kind = "submit"
  <2>1. Calls(req.kind) = <<"queue", "state">>
    BY <1>6, CallsOf
  <2>2. Told = {<<"queue", Read(req.args)>>}
    BY <1>6, ToldOf
  <2>3. Call = "state" /\ Call \in Reads /\ req.done = {<<"queue", Read(req.args)>>}
    BY <1>1, <1>3, <2>1 DEF Reads, Page
  <2>4. QED
    BY <1>2, <2>2, <2>3
<1>7. CASE req.kind \in {"control", "delete", "rename", "permit_join", "reboot"}
  <2>1. Calls(req.kind) = <<req.kind>>
    BY <1>7, CallsOf
  <2>2. Told = {<<req.kind, Read(req.args)>>}
    BY <1>7, ToldOf
  <2>3. Call = req.kind /\ Call \notin Reads /\ req.done = {}
    BY <1>1, <1>3, <1>7, <2>1 DEF Reads, Page
  <2>4. QED
    BY <1>2, <2>2, <2>3
<1>8. QED
  BY <1>4, <1>5, <1>6, <1>7 DEF Kind, WithBody, Page

\* A call of a handler: one of several, the last one, or a page's only one.
LEMMA CallSucceedsKeeps ==
  ASSUME ApiInv, CallSucceeds
  PROVE  ApiInv'
<1> DEFINE more == req.done \cup Effect
           called == [req EXCEPT !.done = more]
<1>0. /\ req \in Request(req.args, req.done) /\ req.since <= stored /\ wire = <<>>
      /\ Len(req.shown) <= Emit /\ req.stage \in 1 .. 2 /\ req.kind \in Kind
      /\ At(Httpd, "call") /\ pc[Httpd] = "call" /\ pc[Httpd] \notin RingPlace
      /\ req.kind \notin {"scan", "job", "file"} /\ UNCHANGED <<ring, list, wire>>
      /\ RingInv /\ req.args = [f \in DOMAIN req.args |-> req.args[f]]
      /\ Fielded(req.args)
  BY Served DEF CallSucceeds, At, Request, RingPlace, ApiInv, ServeInv, RequestType
<1>1. /\ Valid(req.args) /\ req.stage <= Len(Calls(req.kind))
      /\ req.done = IF req.stage = 1 THEN {} ELSE {<<Calls(req.kind)[1], Read(req.args)>>}
  BY <1>0 DEF ApiInv, ServeInv, CallInv
<1>2. /\ called \in Request(req.args, more) /\ called.done = more
      /\ called.kind = req.kind /\ called.args = req.args /\ called.stage = req.stage
      /\ called.shown = req.shown /\ called.since = req.since
  <2>1. called = [req EXCEPT !.done = more]
    OBVIOUS
  <2> HIDE DEF called, more
  <2>2. QED
    BY <1>0, <2>1, WithDone
<1>3. Effect = IF Call \in Reads THEN {} ELSE {<<Call, Read(req.args)>>}
  BY <1>0, <1>1, ValidArgsKept DEF Effect
<1>4. \/ ~Last /\ req' = [called EXCEPT !.stage = called.stage + 1] /\ UNCHANGED pc
      \/ Last /\ req.kind \notin Page /\ req' = Begin(called) /\ Goto(Httpd, "send")
      \/ /\ Last /\ req.kind \in Page /\ req' = called
         /\ Goto(Httpd, IF req.kind = "health" THEN "snapshot" ELSE "build")
  BY DEF CallSucceeds
<1> HIDE DEF called
<1>5. CASE ~Last /\ req' = [called EXCEPT !.stage = called.stage + 1] /\ UNCHANGED pc
  <2>1. req.stage = 1 /\ Len(Calls(req.kind)) = 2
        /\ req.kind \in {"wifi_save", "factory_reset", "submit"}
    <3>1. Len(Calls(req.kind)) =
            IF req.kind \in {"wifi_save", "factory_reset", "submit"} THEN 2 ELSE 1
      BY <1>0, CallsOf
    <3>2. QED
      BY <1>0, <1>1, <1>5, <3>1 DEF Last
  <2>2. Calls(req.kind)[1] \in {"save", "reset", "queue"}
    BY <2>1, CallsOf
  <2>3. Call = Calls(req.kind)[1] /\ Call \notin Reads
    BY <2>1, <2>2 DEF Call, Reads, Page
  <2>4. more = {<<Calls(req.kind)[1], Read(req.args)>>}
    BY <1>1, <1>3, <2>1, <2>3
  <2>5. /\ req' \in Request(req.args, more) /\ req'.done = more /\ req'.stage = 2
        /\ req'.kind = req.kind /\ req'.args = req.args
        /\ req'.shown = req.shown /\ req'.since = req.since
    <3>1. called.stage + 1 = 2 /\ 2 \in 1 .. 2
      BY <1>2, <2>1
    <3>2. req' = [called EXCEPT !.stage = 2]
      BY <1>5, <3>1
    <3> HIDE DEF more
    <3>3. QED
      BY <1>2, <3>1, <3>2, WithStage
  <2>6. RingInv'
    BY <1>0, <1>5, RingStays
  <2>7. RequestType'
    BY <1>0, <2>5 DEF ApiInv, ServeInv, RequestType, ring
  <2>8. CallInv'
    <3>1. Calls(req'.kind) = Calls(req.kind) /\ Valid(req'.args)
      BY <1>1, <2>5
    <3>2. Len(Calls(req'.kind)) = 2
      BY <2>1, <3>1, Zenon
    <3>3. req'.kind # "file" /\ req'.stage <= Len(Calls(req'.kind))
      BY <1>0, <2>5, <3>2
    <3>4. req'.done = {<<Calls(req'.kind)[1], Read(req'.args)>>} /\ req'.stage # 1
      BY <2>4, <2>5, <3>1
    <3>5. QED
      BY <3>1, <3>3, <3>4 DEF CallInv, Valid
  <2>9. /\ BeforeInv' /\ ParseInv' /\ TurnedInv' /\ PageInv' /\ NewestErrorsShown'
        /\ SendInv' /\ IdleInv'
    BY <1>0, <1>5 DEF BeforeInv, ParseInv, TurnedInv, PageInv, NewestErrorsShown, SendInv,
       IdleInv, At
  <2>10. QED
    BY <2>6, <2>7, <2>8, <2>9 DEF ApiInv, ServeInv
<1>6. CASE Last /\ req.kind \notin Page /\ req' = Begin(called) /\ Goto(Httpd, "send")
  <2>1. more = Told
    BY <1>0, <1>6, LastCompletes
  <2>2. req'.kind = req.kind /\ req'.args = req.args
    BY <1>2, <1>6 DEF Begin, Request
  <2>3. Told' = Told
    BY <2>2, Zenon DEF Told, Asked, Read
  <2>4. IF called.kind = "file" THEN more = {} ELSE more = Told'
    BY <1>0, <1>2, <2>1, <2>3
  <2> HIDE DEF more
  <2>5. QED
    BY <1>0, <1>2, <1>6, <2>4, Answers
<1>7. CASE /\ Last /\ req.kind \in Page /\ req' = called
           /\ Goto(Httpd, IF req.kind = "health" THEN "snapshot" ELSE "build")
  <2> DEFINE p == IF req.kind = "health" THEN "snapshot" ELSE "build"
  <2>1. Calls(req.kind) = <<req.kind>>
    BY <1>7, CallsOf DEF Page
  <2>2. req.stage = 1 /\ Call \in Reads
    BY <1>7, <2>1 DEF Last, Call, Reads
  <2>3. more = {}
    BY <1>1, <1>3, <2>2
  <2>4. RingInv' /\ pc'[Httpd] = p
    <3>1. p \in Place \ RingPlace /\ Goto(Httpd, p)
      BY <1>7 DEF Place, RingPlace
    <3> HIDE DEF p
    <3>2. QED
      BY <1>0, <3>1, HttpdGoesOn
  <2>5. RequestType'
    BY <1>0, <1>2, <1>7 DEF ApiInv, ServeInv, RequestType, ring
  <2>6. PageInv' /\ NewestErrorsShown'
    BY <1>1, <1>2, <1>7, <2>3, <2>4 DEF PageInv, NewestErrorsShown, Valid, At
  <2>7. BeforeInv' /\ ParseInv' /\ TurnedInv' /\ CallInv' /\ SendInv' /\ IdleInv'
    BY <1>0, <2>4 DEF BeforeInv, ParseInv, TurnedInv, CallInv, SendInv, IdleInv, At
  <2>8. QED
    BY <2>4, <2>5, <2>6, <2>7 DEF ApiInv, ServeInv
<1>8. QED
  BY <1>4, <1>5, <1>6, <1>7

\* What a read found is added to a request that asks for nothing else.
LEMMA ReadSucceedsKeeps ==
  ASSUME ApiInv, NEW n \in ResultSize, NEW type \in JobType, ReadSucceeds(n, type)
  PROVE  ApiInv'
<1> DEFINE args == [type |-> type]
           r == [req EXCEPT !.rows = n, !.args = args]
<1>0. /\ req \in Request(req.args, req.done) /\ req.since <= stored
      /\ Len(req.shown) <= Emit /\ req.kind \in {"scan", "file", "job"}
      /\ pc[Httpd] = "call" /\ UNCHANGED <<ring, list, wire>>
      /\ req' = Begin(r) /\ Goto(Httpd, "send")
  BY Served DEF ReadSucceeds, At
<1>1. n \in Nat
  <2>1. \A t \in JobType : JobLimit[t] \in Nat
    BY DEF JobType, JobLimit
  <2>2. RowBound \in Nat
    BY ApiAssumption
  <2>3. QED
    BY <2>1, <2>2 DEF ResultSize
<1>2. req.done = {}
  <2>1. req.stage \in 1 .. 2 /\ (req.kind # "file" => req.stage <= Len(Calls(req.kind)))
        /\ (req.kind = "file" => req.stage = 1)
        /\ req.done = IF req.stage = 1 THEN {} ELSE {<<Calls(req.kind)[1], Read(req.args)>>}
    BY <1>0 DEF ApiInv, ServeInv, CallInv, At, Request
  <2>2. req.kind # "file" => Len(Calls(req.kind)) =
          IF req.kind \in {"wifi_save", "factory_reset", "submit"} THEN 2 ELSE 1
    BY CallsOf, Zenon
  <2>3. req.stage = 1
    BY <1>0, <2>1, <2>2
  <2>4. QED
    BY <2>1, <2>3
<1>3. Fielded(args) /\ args = [f \in DOMAIN args |-> args[f]]
  BY Fields DEF Fielded, JsonNumber
<1> HIDE DEF args
<1>4. /\ r \in Request(args, req.done) /\ r.kind = req.kind /\ r.done = req.done
      /\ r.shown = req.shown /\ r.since = req.since
  <2>1. r = [req EXCEPT !.rows = n, !.args = args]
    OBVIOUS
  <2> HIDE DEF r
  <2>2. QED
    BY <1>0, <1>1, <2>1 DEF Request
<1> HIDE DEF r
<1>5. req'.kind = req.kind
  BY <1>0, <1>4 DEF Begin, Request
<1>6. Told' = {}
  <2>1. req.kind # "wifi_save" /\ req.kind # "factory_reset" /\ req.kind # "submit"
        /\ req.kind \notin {"control", "delete", "rename", "permit_join", "reboot"}
    BY <1>0
  <2>2. QED
    BY <1>5, <2>1, Zenon DEF Told, Asked, Read
<1>7. QED
  BY <1>0, <1>2, <1>3, <1>4, <1>6, Answers

\* A call that fails before anything is done, or the last read of a job.
LEMMA CallFailsKeeps ==
  ASSUME ApiInv, NEW err \in Err, CallFails(err)
  PROVE  ApiInv'
<1>0. /\ req \in Request(req.args, req.done) /\ req.since <= stored
      /\ Len(req.shown) <= Emit /\ req.kind # "file" /\ req.kind \in Kind
      /\ pc[Httpd] = "call" /\ At(Httpd, "call") /\ UNCHANGED <<ring, list, wire>>
      /\ req.args = [f \in DOMAIN req.args |-> req.args[f]]
      /\ Fielded(req.args)
  BY Served DEF CallFails, At, Request, ApiInv, ServeInv, RequestType
<1>1. req.stage \in 1 .. 2 /\ req.stage <= Len(Calls(req.kind))
      /\ req.done = IF req.stage = 1 THEN {} ELSE {<<Calls(req.kind)[1], Read(req.args)>>}
  BY <1>0 DEF ApiInv, ServeInv, CallInv, Request
<1>2. CASE req.kind = "submit" /\ Last
  <2>1. Calls(req.kind) = <<"queue", "state">>
    BY <1>2, CallsOf
  <2>2. req.done = {<<"queue", Read(req.args)>>}
    <3>1. Calls(req.kind)[1] = "queue" /\ Len(Calls(req.kind)) = 2
      BY <2>1
    <3>2. req.stage = 2
      BY <1>2, <3>1 DEF Last
    <3>3. QED
      BY <1>1, <3>1, <3>2
  <2>3. Told = {<<"queue", Read(req.args)>>}
    BY <1>2, ToldOf
  <2>4. req' = Begin(req) /\ Goto(Httpd, "send")
    BY <1>2 DEF CallFails
  <2>5. req'.kind = req.kind /\ req'.args = req.args
    BY <1>0, <2>4 DEF Begin, Request
  <2>6. Told' = Told
    BY <2>5, Zenon DEF Told, Asked, Read
  <2>7. IF req.kind = "file" THEN req.done = {} ELSE req.done = Told'
    BY <1>0, <2>2, <2>3, <2>6
  <2>8. QED
    BY <1>0, <2>4, <2>7, Answers
<1>3. CASE ~(req.kind = "submit" /\ Last)
  <2> DEFINE told == IF req.kind \in {"delete", "rename", "reboot", "status"} THEN "fail" ELSE err
  <2>1. Refuse(told) /\ told \in Err /\ err \in Failures(Call)
    BY <1>3 DEF CallFails, Err
  <2>2. told = "invalid_arg" => req.done = {}
    <3>1. SUFFICES ASSUME told = "invalid_arg", req.stage = 2
                   PROVE  FALSE
      BY <1>1
    <3>2. Len(Calls(req.kind)) =
            IF req.kind \in {"wifi_save", "factory_reset", "submit"} THEN 2 ELSE 1
      BY <1>0, CallsOf
    <3>3. req.kind \in {"wifi_save", "factory_reset", "submit"} /\ Last
      BY <1>0, <1>1, <3>1, <3>2 DEF Last
    <3>4. CASE req.kind = "wifi_save"
      <4>1. Call = "reboot"
        BY <3>1, <3>4, CallsOf DEF Call
      <4>2. Failures(Call) = {"no_mem"}
        BY <4>1, FailuresOf
      <4>3. QED
        BY <2>1, <3>1, <4>2
    <3>5. CASE req.kind = "factory_reset"
      <4>1. Call = "report"
        BY <3>1, <3>5, CallsOf DEF Call
      <4>2. Failures(Call) = {}
        BY <4>1, FailuresOf
      <4>3. QED
        BY <2>1, <4>2
    <3>6. QED
      BY <1>3, <3>3, <3>4, <3>5
  <2> HIDE DEF told
  <2>3. QED
    BY <1>0, <2>1, <2>2, Refuses
<1>4. QED
  BY <1>2, <1>3

\* A file is answered by a status alone.
LEMMA FileRefusedKeeps ==
  ASSUME ApiInv, NEW status \in {"304", "404", "500"}, FileRefused(status)
  PROVE  ApiInv'
<1>1. /\ req \in Request(req.args, req.done) /\ req.since <= stored
      /\ Len(req.shown) <= Emit /\ req.kind = "file" /\ wire = <<>>
      /\ pc[Httpd] = "call" /\ UNCHANGED <<ring, list, wire>>
      /\ req' = [req EXCEPT !.left = <<status>>] /\ Goto(Httpd, "send")
  BY Served DEF FileRefused, At
<1>2. req.done = {}
  BY <1>1 DEF ApiInv, ServeInv, CallInv, At
<1>3. <<status>> \in Seq(Chunk) /\ <<status>> # <<>>
  BY DEF Chunk, Statuses
<1>4. /\ req' \in Request(req.args, req.done) /\ req'.left = <<status>>
      /\ req'.kind = req.kind /\ req'.args = req.args /\ req'.done = req.done
      /\ req'.shown = req.shown /\ req'.since = req.since
  BY <1>1, <1>3 DEF Request
<1>5. RingInv' /\ pc'[Httpd] = "send"
  <2>1. "send" \in Place \ RingPlace /\ pc[Httpd] \notin RingPlace
    BY <1>1 DEF Place, RingPlace
  <2>2. QED
    BY <1>1, <2>1, HttpdGoesOn DEF ApiInv
<1>6. RequestType'
  BY <1>1, <1>4 DEF ApiInv, ServeInv, RequestType, ring
<1>7. SendInv'
  BY <1>1, <1>2, <1>3, <1>4 DEF SendInv, File
<1>8. /\ BeforeInv' /\ ParseInv' /\ CallInv' /\ TurnedInv' /\ PageInv'
      /\ NewestErrorsShown' /\ IdleInv'
  BY <1>5 DEF BeforeInv, ParseInv, CallInv, TurnedInv, PageInv, NewestErrorsShown, IdleInv, At
<1>9. QED
  BY <1>5, <1>6, <1>7, <1>8 DEF ApiInv, ServeInv

(***************************************************************************)
(* The pages.                                                              *)
(***************************************************************************)
LEMMA LockSnapshotKeeps ==
  ASSUME ApiInv, LockSnapshot
  PROVE  ApiInv'
<1>1. /\ pc[Httpd] = "snapshot" /\ holder = Free /\ holder' = Httpd /\ Goto(Httpd, "copy")
      /\ UNCHANGED <<slots, head, count, stored>> /\ UNCHANGED <<req, list, wire>>
      /\ RingInv /\ req.kind = "health" /\ req.kind \in Page /\ req.done = {} /\ wire = <<>>
  BY Served DEF LockSnapshot, LockRing, At, ApiInv, ServeInv, PageInv
<1>2. RingInv' /\ pc'[Httpd] = "copy"
  <2>1. Httpd \in Task /\ Httpd \notin Caster /\ "copy" \in Place /\ "copy" \in RingPlace
        /\ ~At(Httpd, "advance")
    BY <1>1, Tasks DEF Place, RingPlace, At
  <2>2. RingInv'
    BY <1>1, <2>1, GoesOn
  <2>3. QED
    BY <1>1, <2>1, <2>2 DEF Goto, RingInv, RingType
<1>3. RequestType'
  BY <1>1 DEF ApiInv, ServeInv, RequestType
<1>4. PageInv'
  BY <1>1 DEF PageInv, Valid, ApiInv, ServeInv
<1>5. /\ BeforeInv' /\ ParseInv' /\ CallInv' /\ TurnedInv' /\ NewestErrorsShown'
      /\ SendInv' /\ IdleInv'
  BY <1>1, <1>2 DEF BeforeInv, ParseInv, CallInv, TurnedInv, NewestErrorsShown, SendInv,
     IdleInv, At
<1>6. QED
  BY <1>2, <1>3, <1>4, <1>5 DEF ApiInv, ServeInv

\* Under the lock no entry is half-way in, so the copy is the newest errors.
LEMMA SnapshotIsNewest ==
  ASSUME RingInv, At(Httpd, "copy")
  PROVE  /\ Snapshot = [i \in 1 .. Cut(stored, Emit) |-> stored + 1 - i]
         /\ Snapshot \in Seq(Nat) /\ Len(Snapshot) <= Emit
<1>0. RingType /\ LockedInv /\ EntriesInv /\ stored \in Nat /\ pc[Httpd] = "copy"
  BY DEF RingInv, RingType, At
<1>1. ~Storing
  <2>1. holder = Httpd
    BY <1>0, Tasks DEF LockedInv, RingPlace
  <2>2. \A t \in Task : pc[t] = "advance" => holder = t
    BY <1>0 DEF LockedInv, RingPlace
  <2>3. QED
    BY <1>0, <2>1, <2>2 DEF Storing, At
<1>2. Cut(count, Emit) = Cut(stored, Emit) /\ Cut(stored, Emit) \in 0 .. Emit
      /\ Cut(stored, Emit) <= stored /\ Cut(stored, Emit) <= count /\ count \in Nat
  BY <1>0, Caps DEF EntriesInv, Cut
<1>3. \A i \in 1 .. Cut(stored, Emit) : Entry(i) = stored + 1 - i
  <2>1. 1 .. Cut(stored, Emit) \subseteq 1 .. count
    BY <1>2, Caps
  <2>2. QED
    BY <1>0, <1>1, <2>1 DEF EntriesInv
<1>4. Snapshot = [i \in 1 .. Cut(stored, Emit) |-> stored + 1 - i]
  BY <1>2, <1>3 DEF Snapshot, Entry
<1>5. \A i \in 1 .. Cut(stored, Emit) : stored + 1 - i \in Nat
  BY <1>0, <1>2, Caps
<1> DEFINE n == Cut(stored, Emit)
<1>6. Snapshot \in [1 .. n -> Nat] /\ n \in Nat /\ n <= Emit
  BY <1>2, <1>4, <1>5, Caps
<1> HIDE DEF n
<1>7. Snapshot \in Seq(Nat)
  BY <1>6, SeqDef
<1>8. Len(Snapshot) = n
  BY <1>6, <1>7, LenProperties
<1>9. QED
  BY <1>4, <1>6, <1>7, <1>8

LEMMA CopyErrorsKeeps ==
  ASSUME ApiInv, CopyErrors
  PROVE  ApiInv'
<1>1. /\ pc[Httpd] = "copy" /\ At(Httpd, "copy") /\ holder' = Free /\ Goto(Httpd, "build")
      /\ UNCHANGED <<slots, head, count, stored>> /\ UNCHANGED <<list, wire>>
      /\ req' = [req EXCEPT !.shown = Snapshot]
      /\ RingInv /\ req.kind = "health" /\ req.kind \in Page /\ req.done = {} /\ wire = <<>>
      /\ req \in Request(req.args, req.done) /\ req.since <= stored /\ stored \in Nat
  BY Served DEF CopyErrors, At, ApiInv, ServeInv, PageInv
<1>2. RingInv' /\ pc'[Httpd] = "build"
  <2>1. Httpd \in Task /\ Httpd \notin Caster /\ "build" \in Place /\ "build" \notin RingPlace
        /\ ~At(Httpd, "advance") /\ pc[Httpd] \in RingPlace
        /\ pc[Httpd] \notin {"idle", "send"}
    BY <1>1, Tasks DEF Place, RingPlace, At
  <2>2. RingInv'
    BY <1>1, <2>1, GoesOn
  <2>3. QED
    BY <1>1, <2>1, <2>2 DEF Goto, RingInv, RingType
<1>3. /\ Snapshot = [i \in 1 .. Cut(stored, Emit) |-> stored + 1 - i]
      /\ Snapshot \in Seq(Nat) /\ Len(Snapshot) <= Emit
  BY <1>1, SnapshotIsNewest
<1>4. /\ req' \in Request(req.args, req.done) /\ req'.shown = Snapshot
      /\ req'.kind = req.kind /\ req'.args = req.args /\ req'.done = req.done
      /\ req'.since = req.since
  BY <1>1, <1>3 DEF Request
<1>5. RequestType'
  BY <1>1, <1>3, <1>4 DEF ApiInv, ServeInv, RequestType
<1>6. PageInv'
  BY <1>1, <1>4 DEF PageInv, Valid, ApiInv, ServeInv
<1>7. NewestErrorsShown'
  <2>1. stored \in req'.since .. stored' /\ stored' = stored
    BY <1>1, <1>4 DEF Request
  <2>2. req'.shown = [i \in 1 .. Cut(stored, Emit) |-> stored + 1 - i]
    BY <1>3, <1>4
  <2>3. QED
    BY <2>1, <2>2 DEF NewestErrorsShown, Cut
<1>8. BeforeInv' /\ ParseInv' /\ CallInv' /\ TurnedInv' /\ SendInv' /\ IdleInv'
  BY <1>1, <1>2 DEF BeforeInv, ParseInv, CallInv, TurnedInv, SendInv, IdleInv, At
<1>9. QED
  BY <1>2, <1>5, <1>6, <1>7, <1>8 DEF ApiInv, ServeInv

\* What is known of a page that is built.
LEMMA AtBuild ==
  ASSUME ApiInv, At(Httpd, "build")
  PROVE  /\ pc[Httpd] = "build" /\ req.kind \in Page /\ req.done = {} /\ wire = <<>>
         /\ req \in Request(req.args, req.done) /\ req.since <= stored
         /\ Len(req.shown) <= Emit /\ Told = {} /\ req.kind # "file"
         /\ req.args = [f \in DOMAIN req.args |-> req.args[f]]
         /\ Fielded(req.args)
<1>1. req.kind \in Page /\ pc[Httpd] = "build" /\ req.done = {}
  BY DEF ApiInv, ServeInv, PageInv, At
<1>2. Told = {} /\ req.kind # "file"
  BY <1>1, ToldOf DEF Page
<1>3. QED
  BY <1>1, <1>2, Served DEF ApiInv, ServeInv, RequestType

LEMMA BuildKeeps ==
  ASSUME ApiInv, Build
  PROVE  ApiInv'
<1>1. At(Httpd, "build") /\ req' = Begin(req) /\ Goto(Httpd, "send")
      /\ UNCHANGED <<ring, list, wire>>
  BY DEF Build
<1>2. /\ pc[Httpd] = "build" /\ req.done = {} /\ Told = {} /\ req.kind # "file"
      /\ req \in Request(req.args, req.done) /\ req.since <= stored
      /\ Len(req.shown) <= Emit
      /\ req.args = [f \in DOMAIN req.args |-> req.args[f]]
      /\ Fielded(req.args)
  BY <1>1, AtBuild
<1>3. req'.kind = req.kind /\ req'.args = req.args
  BY <1>1, <1>2 DEF Begin, Request
<1>4. Told' = Told
  BY <1>3, Zenon DEF Told, Asked, Read
<1>5. IF req.kind = "file" THEN req.done = {} ELSE req.done = Told'
  BY <1>2, <1>4
<1>6. QED
  BY <1>1, <1>2, <1>5, Answers

LEMMA TryLargerKeeps ==
  ASSUME ApiInv, TryLarger
  PROVE  ApiInv'
<1> DEFINE r == [req EXCEPT !.try = req.try + 1]
<1>1. /\ At(Httpd, "build") /\ Goto(Httpd, "call") /\ UNCHANGED <<ring, list, wire>>
      /\ req' = [r EXCEPT !.stage = 1] /\ req.try < HeapRetries
  BY DEF TryLarger
<1>2. /\ pc[Httpd] = "build" /\ req.done = {} /\ req.kind # "file" /\ req.kind \in Page
      /\ req \in Request(req.args, req.done) /\ wire = <<>>
      /\ req.args = [f \in DOMAIN req.args |-> req.args[f]]
      /\ Fielded(req.args)
  BY <1>1, AtBuild
<1>3. /\ r \in Request(req.args, req.done)
      /\ r.kind = req.kind /\ r.args = req.args /\ r.done = req.done
      /\ r.shown = req.shown /\ r.since = req.since
  <2>1. req.try + 1 \in 0 .. HeapRetries
    BY <1>1, <1>2 DEF Request, HeapRetries
  <2>2. QED
    BY <1>2, <2>1 DEF Request
<1> HIDE DEF r
<1>4. /\ req' \in Request(req.args, req.done) /\ req'.stage = 1
      /\ req'.kind = req.kind /\ req'.args = req.args /\ req'.done = {}
      /\ req'.shown = req.shown /\ req'.since = req.since
  BY <1>1, <1>2, <1>3 DEF Request
<1>5. RingInv' /\ pc'[Httpd] = "call"
  <2>1. "call" \in Place \ RingPlace /\ pc[Httpd] \notin RingPlace
    BY <1>2 DEF Place, RingPlace
  <2>2. QED
    BY <1>1, <1>2, <2>1, HttpdGoesOn DEF ApiInv
<1>6. RequestType'
  BY <1>1, <1>2, <1>4 DEF ApiInv, ServeInv, RequestType, ring
<1>7. CallInv'
  <2>1. Valid(req.args)
    BY <1>2 DEF ApiInv, ServeInv, PageInv
  <2>2. Len(Calls(req.kind)) =
          IF req.kind \in {"wifi_save", "factory_reset", "submit"} THEN 2 ELSE 1
    BY <1>2, CallsOf, Zenon
  <2>3. 1 <= Len(Calls(req'.kind))
    BY <1>4, <2>2
  <2>4. QED
    BY <1>2, <1>4, <2>1, <2>3 DEF CallInv, Valid
<1>8. /\ BeforeInv' /\ ParseInv' /\ TurnedInv' /\ PageInv' /\ NewestErrorsShown'
      /\ SendInv' /\ IdleInv'
  BY <1>1, <1>2, <1>5 DEF BeforeInv, ParseInv, TurnedInv, PageInv, NewestErrorsShown, SendInv,
     IdleInv, At
<1>9. QED
  BY <1>5, <1>6, <1>7, <1>8 DEF ApiInv, ServeInv

LEMMA PageRefusedKeeps ==
  ASSUME ApiInv, NoHeap \/ TooLarge
  PROVE  ApiInv'
<1>1. req.done = {} /\ req.kind # "file" /\ pc[Httpd] = "build" /\ UNCHANGED <<ring, list, wire>>
  BY AtBuild DEF NoHeap, TooLarge
<1>2. Refuse("no_mem") \/ Refuse("too_large")
  BY DEF NoHeap, TooLarge
<1>3. "no_mem" \in Err /\ "too_large" \in Err
  BY DEF Err
<1>4. QED
  BY <1>1, <1>2, <1>3, Refuses

(***************************************************************************)
(* Sending.                                                                *)
(***************************************************************************)
LEMMA OneSent ==
  ASSUME NEW S, NEW w \in Seq(S), NEW l \in Seq(S), l # <<>>
  PROVE  /\ Append(w, Head(l)) \in Seq(S) /\ Len(Append(w, Head(l))) = Len(w) + 1
         /\ \A i \in 1 .. Len(w) : Append(w, Head(l))[i] = w[i]
         /\ Append(w, Head(l))[Len(w) + 1] = l[1]
         /\ Tail(l) \in Seq(S) /\ Len(Tail(l)) = Len(l) - 1 /\ Len(l) \in Nat \ {0}
         /\ \A i \in 1 .. Len(l) - 1 : Tail(l)[i] = l[i + 1]
OBVIOUS

\* One chunk goes from what is left to the wire.
LEMMA SendKeeps ==
  ASSUME ApiInv, Send
  PROVE  ApiInv'
<1> DEFINE p == IF Len(req.left) = 1 THEN "idle" ELSE "send"
           l == req.left
<1>1. /\ pc[Httpd] = "send" /\ wire' = Append(wire, Head(l)) /\ Goto(Httpd, p)
      /\ req' = [req EXCEPT !.left = Tail(l)]
      /\ UNCHANGED <<ring, list>>
      /\ req \in Request(req.args, req.done) /\ req.since <= stored
      /\ wire \in Seq(Chunk) /\ l \in Seq(Chunk) /\ l # <<>>
      /\ File \/ (Begun /\ ToCome) \/ Turned
  BY Served DEF Send, At, ApiInv, ServeInv, SendInv, Request
<1>2. /\ wire' \in Seq(Chunk) /\ Len(wire') = Len(wire) + 1
      /\ \A i \in 1 .. Len(wire) : wire'[i] = wire[i]
      /\ wire'[Len(wire) + 1] = l[1]
      /\ Tail(l) \in Seq(Chunk) /\ Len(Tail(l)) = Len(l) - 1 /\ Len(l) \in Nat \ {0}
      /\ \A i \in 1 .. Len(l) - 1 : Tail(l)[i] = l[i + 1]
  BY <1>1, OneSent
<1>3. /\ req' \in Request(req.args, req.done) /\ req'.left = Tail(l)
      /\ req'.kind = req.kind /\ req'.args = req.args /\ req'.done = req.done
      /\ req'.rows = req.rows /\ req'.shown = req.shown /\ req'.since = req.since
  BY <1>1, <1>2 DEF Request
<1>4. RingInv' /\ pc'[Httpd] = p
  <2>1. p \in Place \ RingPlace /\ p \in {"idle", "send"} /\ pc[Httpd] \notin RingPlace
    BY <1>1 DEF Place, RingPlace
  <2> HIDE DEF p
  <2>2. QED
    BY <1>1, <2>1, HttpdGoesOn DEF ApiInv
<1>5. RequestType'
  BY <1>1, <1>2, <1>3 DEF ApiInv, ServeInv, RequestType, ring
<1>6. Answer(req') = Answer(req) /\ Told' = Told
  BY <1>3, SameAnswer, Zenon DEF Told, Asked, Read
<1>7. File => File'
  BY <1>3 DEF File
<1>8. ASSUME Begun, ToCome
      PROVE  Begun' /\ (Len(l) # 1 => ToCome')
  <2>0. Len(wire) \in Nat /\ Len(l) \in Nat \ {0} /\ Len(Answer(req)) = Len(wire) + Len(l)
    BY <1>1, <1>2, <1>8 DEF ToCome
  <2>1. l[1] = Answer(req)[Len(wire) + 1]
    BY <1>8, <2>0 DEF ToCome
  <2>2. \A i \in 1 .. Len(wire) + 1 : wire'[i] = Answer(req)[i]
    <3>1. SUFFICES ASSUME NEW i \in 1 .. Len(wire) + 1
                   PROVE  wire'[i] = Answer(req)[i]
      OBVIOUS
    <3>2. CASE i = Len(wire) + 1
      BY <1>2, <2>1, <3>2
    <3>3. CASE i # Len(wire) + 1
      <4>1. i \in 1 .. Len(wire)
        BY <2>0, <3>3
      <4>2. QED
        BY <1>2, <1>8, <4>1 DEF Begun
    <3>4. QED
      BY <3>2, <3>3
  <2>3. Begun'
    <3>1. Len(wire') <= Len(Answer(req'))
      BY <1>2, <1>6, <2>0
    <3>2. \A i \in 1 .. Len(wire') : wire'[i] = Answer(req')[i]
      BY <1>2, <1>6, <2>2
    <3>3. req'.kind # "file" /\ req'.done = Told'
      BY <1>3, <1>6, <1>8 DEF Begun
    <3>4. QED
      BY <3>1, <3>2, <3>3 DEF Begun
  <2>4. ToCome'
    <3>1. Len(wire') + Len(req'.left) = Len(Answer(req'))
      <4>1. Len(wire') = Len(wire) + 1 /\ Len(req'.left) = Len(l) - 1
        BY <1>2, <1>3
      <4>2. Len(Answer(req')) = Len(wire) + Len(l)
        BY <1>6, <2>0
      <4> HIDE DEF l
      <4>3. QED
        BY <2>0, <4>1, <4>2
    <3>2. ASSUME NEW i \in 1 .. Len(req'.left)
          PROVE  req'.left[i] = Answer(req')[Len(wire') + i]
      <4>1. i \in 1 .. Len(l) - 1 /\ i + 1 \in 1 .. Len(l)
            /\ Len(wire) + (i + 1) = Len(wire') + i
        BY <1>2, <1>3, <2>0
      <4>2. l[i + 1] = Answer(req)[Len(wire) + (i + 1)]
        BY <1>8, <4>1 DEF ToCome
      <4>3. QED
        BY <1>2, <1>3, <1>6, <4>1, <4>2
    <3>3. QED
      BY <3>1, <3>2 DEF ToCome
  <2>5. QED
    BY <2>3, <2>4
<1>9. ASSUME Turned
      PROVE  Len(l) = 1 /\ \E s \in Statuses : Refusal(s)' /\ wire' = <<s>>
  <2>1. PICK s \in Statuses : Refusal(s) /\ l = <<s>> /\ wire = <<>>
    BY <1>9 DEF Turned
  <2>2. Refusal(s)'
    BY <1>3, <2>1 DEF Refusal
  <2>3. wire' = <<s>> /\ Len(l) = 1
    BY <1>1, <2>1
  <2>4. QED
    BY <2>2, <2>3
<1>10. SendInv'
  <2>1. p = "send" => Len(l) # 1 /\ req'.left # <<>>
    <3>1. p = "send" => Len(l) # 1
      OBVIOUS
    <3>2. Len(l) # 1 => Len(req'.left) # 0
      BY <1>2, <1>3
    <3>3. Len(req'.left) # 0 => req'.left # <<>>
      OBVIOUS
    <3>4. QED
      BY <3>1, <3>2, <3>3
  <2>2. QED
    BY <1>1, <1>4, <1>7, <1>8, <1>9, <2>1 DEF SendInv, At
<1>11. IdleInv'
  BY <1>1, <1>7, <1>8, <1>9 DEF IdleInv
<1>12. /\ BeforeInv' /\ ParseInv' /\ CallInv' /\ TurnedInv' /\ PageInv'
       /\ NewestErrorsShown'
  BY <1>4 DEF BeforeInv, ParseInv, CallInv, TurnedInv, PageInv, NewestErrorsShown, At
<1>13. QED
  BY <1>4, <1>5, <1>10, <1>11, <1>12 DEF ApiInv, ServeInv

\* What is on the wire stays a beginning of the answer.
LEMMA SendFailsKeeps ==
  ASSUME ApiInv, SendFails
  PROVE  ApiInv'
<1>1. /\ pc[Httpd] = "send" /\ UNCHANGED <<ring, list, wire>>
      /\ req \in Request(req.args, req.done) /\ req.since <= stored
      /\ wire \in Seq(Chunk)
      /\ File \/ (Begun /\ ToCome) \/ Turned
  BY Served DEF SendFails, At, ApiInv, ServeInv, SendInv, Request
<1>2. CASE req.kind = "file" /\ req' = [req EXCEPT !.left = <<"end">>] /\ UNCHANGED pc
  <2>1. <<"end">> \in Seq(Chunk) /\ <<"end">> # <<>>
    BY DEF Chunk
  <2>2. /\ req' \in Request(req.args, req.done) /\ req'.left = <<"end">>
        /\ req'.kind = req.kind /\ req'.args = req.args /\ req'.done = req.done
        /\ req'.shown = req.shown /\ req'.since = req.since
    BY <1>1, <1>2, <2>1 DEF Request
  <2>3. RingInv'
    BY <1>1, <1>2, RingStays DEF ApiInv
  <2>4. RequestType'
    BY <1>1, <2>2 DEF ApiInv, ServeInv, RequestType, ring
  <2>5. File'
    <3>1. req.done = {}
      BY <1>1, <1>2 DEF File, Begun, Turned
    <3>2. QED
      BY <1>2, <2>2, <3>1 DEF File
  <2>6. SendInv'
    BY <2>1, <2>2, <2>5 DEF SendInv
  <2>7. /\ BeforeInv' /\ ParseInv' /\ CallInv' /\ TurnedInv' /\ PageInv'
        /\ NewestErrorsShown' /\ IdleInv'
    BY <1>1, <1>2 DEF BeforeInv, ParseInv, CallInv, TurnedInv, PageInv, NewestErrorsShown,
       IdleInv, At
  <2>8. QED
    BY <2>3, <2>4, <2>6, <2>7 DEF ApiInv, ServeInv
<1>3. CASE req' = [req EXCEPT !.left = <<>>] /\ Goto(Httpd, "idle")
  <2>1. /\ req' \in Request(req.args, req.done) /\ req'.left = <<>>
        /\ req'.kind = req.kind /\ req'.args = req.args /\ req'.done = req.done
        /\ req'.rows = req.rows /\ req'.shown = req.shown /\ req'.since = req.since
    <3>1. <<>> \in Seq(Chunk)
      OBVIOUS
    <3>2. QED
      BY <1>1, <1>3, <3>1 DEF Request
  <2>2. RingInv' /\ pc'[Httpd] = "idle"
    <3>1. "idle" \in Place \ RingPlace /\ pc[Httpd] \notin RingPlace
      BY <1>1 DEF Place, RingPlace
    <3>2. QED
      BY <1>1, <1>3, <3>1, HttpdGoesOn DEF ApiInv
  <2>3. RequestType'
    BY <1>1, <2>1 DEF ApiInv, ServeInv, RequestType, ring
  <2>4. Answer(req') = Answer(req) /\ Told' = Told
    BY <2>1, SameAnswer, Zenon DEF Told, Asked, Read
  <2>5. (File => File') /\ (Begun => Begun') /\ (Turned => wire' = <<>>)
    BY <1>1, <2>1, <2>4 DEF File, Begun, Turned
  <2>6. IdleInv'
    BY <1>1, <2>5 DEF IdleInv
  <2>7. /\ BeforeInv' /\ ParseInv' /\ CallInv' /\ TurnedInv' /\ PageInv'
        /\ NewestErrorsShown' /\ SendInv'
    BY <2>2 DEF BeforeInv, ParseInv, CallInv, TurnedInv, PageInv, NewestErrorsShown,
       SendInv, At
  <2>8. QED
    BY <2>2, <2>3, <2>6, <2>7 DEF ApiInv, ServeInv
<1>4. QED
  BY <1>2, <1>3 DEF SendFails

(***************************************************************************)
(* The ring, the device list and the restart.                              *)
(***************************************************************************)
\* A step of another task, or of the device list.
LEMMA OthersServe ==
  ASSUME ApiInv, UNCHANGED <<req, wire>>, list' \in DeviceLists, pc'[Httpd] = pc[Httpd],
         stored' \in Nat, stored <= stored'
  PROVE  ServeInv'
<1>1. req \in Request(req.args, req.done) /\ req.since <= stored /\ stored \in Nat
  BY Served
<1>2. RequestType'
  <2>1. req.since <= stored'
    BY <1>1 DEF Request
  <2>2. QED
    BY <2>1 DEF ApiInv, ServeInv, RequestType
<1>3. NewestErrorsShown'
  <2>1. req.since .. stored \subseteq req.since .. stored'
    BY <1>1 DEF Request
  <2>2. QED
    BY <2>1 DEF ApiInv, ServeInv, NewestErrorsShown, At
<1>4. Answer(req') = Answer(req) /\ Told' = Told
  BY SameAnswer, Zenon DEF Told, Asked, Read
<1>5. /\ File' = File /\ Begun' = Begun /\ ToCome' = ToCome /\ Turned' = Turned
      /\ \A s : Refusal(s)' = Refusal(s)
  BY <1>4 DEF File, Begun, ToCome, Turned, Refusal
<1>6. SendInv' /\ IdleInv' /\ TurnedInv'
  BY <1>5 DEF ApiInv, ServeInv, SendInv, IdleInv, TurnedInv, At
<1>7. BeforeInv' /\ ParseInv' /\ CallInv' /\ PageInv'
  BY DEF ApiInv, ServeInv, BeforeInv, ParseInv, CallInv, PageInv, Valid, At
<1>8. QED
  BY <1>2, <1>3, <1>6, <1>7 DEF ServeInv

\* The HTTP task itself records the error it is going to tell.
LEMMA HttpdServes ==
  ASSUME ApiInv, UNCHANGED <<req, list, wire>>,
         pc[Httpd] \in {"add", "store", "advance"},
         pc'[Httpd] \in {"store", "advance", "send"},
         stored' \in Nat, stored <= stored'
  PROVE  ServeInv'
<1>1. req \in Request(req.args, req.done) /\ req.since <= stored /\ stored \in Nat
      /\ wire = <<>>
  BY Served
<1>2. RequestType'
  <2>1. req.since <= stored'
    BY <1>1 DEF Request
  <2>2. QED
    BY <2>1 DEF ApiInv, ServeInv, RequestType
<1>3. Turned'
  BY DEF ApiInv, ServeInv, TurnedInv, Turned, Refusal
<1>4. SendInv' /\ TurnedInv'
  <2>1. Turned' => req'.left # <<>>
    BY DEF Turned
  <2>2. QED
    BY <1>3, <2>1 DEF SendInv, TurnedInv
<1>5. /\ BeforeInv' /\ ParseInv' /\ CallInv' /\ PageInv' /\ NewestErrorsShown'
      /\ IdleInv'
  BY <1>1 DEF BeforeInv, ParseInv, CallInv, PageInv, NewestErrorsShown, IdleInv, At
<1>6. QED
  BY <1>2, <1>4, <1>5 DEF ServeInv

\* A task records an error; the HTTP task then tells it.
LEMMA RingKeeps ==
  ASSUME ApiInv, NEW t \in Task, Ring(t)
  PROVE  ApiInv'
<1>0. RingInv /\ stored \in Nat /\ list \in DeviceLists /\ pc \in [Task -> Place]
  BY Served DEF ApiInv, ServeInv, RequestType
<1>1. UNCHANGED <<req, list, wire>>
  BY DEF Ring, CastFails, AddError, StoreError, AdvanceRing
<1>2. CASE CastFails(t)
  <2>1. /\ t \in Caster /\ t # Httpd /\ pc[t] = "idle" /\ Goto(t, "add") /\ BelowBound
        /\ UNCHANGED <<slots, head, count, stored>> /\ UNCHANGED holder
        /\ "add" \in Place /\ "add" \notin RingPlace /\ pc[t] \notin RingPlace
        /\ ~At(t, "advance")
    BY <1>2, Tasks DEF CastFails, At, ring, Place, RingPlace
  <2>2. RingInv'
    BY <1>0, <2>1, GoesOn
  <2>3. pc'[Httpd] = pc[Httpd]
    BY <1>0, <2>1, Tasks DEF Goto
  <2>4. QED
    BY <1>0, <1>1, <2>1, <2>2, <2>3, OthersServe DEF ApiInv
<1>3. CASE AddError(t)
  <2>1. /\ pc[t] = "add" /\ Goto(t, "store") /\ holder = Free /\ holder' = t
        /\ UNCHANGED <<slots, head, count, stored>>
        /\ "store" \in Place /\ "store" \in RingPlace /\ ~At(t, "advance")
        /\ pc[t] \notin {"idle", "send"}
    BY <1>3 DEF AddError, LockRing, At, Place, RingPlace
  <2>2. RingInv'
    BY <1>0, <2>1, GoesOn
  <2>3. CASE t = Httpd
    <3>1. pc'[Httpd] = "store"
      BY <1>0, <2>1, <2>3 DEF Goto
    <3>2. QED
      BY <1>0, <1>1, <2>1, <2>2, <2>3, <3>1, HttpdServes DEF ApiInv
  <2>4. CASE t # Httpd
    <3>1. pc'[Httpd] = pc[Httpd]
      BY <1>0, <2>1, <2>4, Tasks DEF Goto
    <3>2. QED
      BY <1>0, <1>1, <2>1, <2>2, <3>1, OthersServe DEF ApiInv
  <2>5. QED
    BY <2>3, <2>4
<1>4. CASE StoreError(t)
  <2>1. pc[t] = "store" /\ Goto(t, "advance") /\ UNCHANGED stored
    BY <1>4 DEF StoreError, At
  <2>2. RingInv'
    BY <1>0, <1>4, StoreKeepsRing
  <2>3. CASE t = Httpd
    <3>1. pc'[Httpd] = "advance"
      BY <1>0, <2>1, <2>3 DEF Goto
    <3>2. QED
      BY <1>0, <1>1, <2>1, <2>2, <2>3, <3>1, HttpdServes DEF ApiInv
  <2>4. CASE t # Httpd
    <3>1. pc'[Httpd] = pc[Httpd]
      BY <1>0, <2>1, <2>4, Tasks DEF Goto
    <3>2. QED
      BY <1>0, <1>1, <2>1, <2>2, <3>1, OthersServe DEF ApiInv
  <2>5. QED
    BY <2>3, <2>4
<1>5. CASE AdvanceRing(t)
  <2>1. pc[t] = "advance" /\ Goto(t, IF t = Httpd THEN "send" ELSE "idle")
    BY <1>5 DEF AdvanceRing, At
  <2>2. RingInv' /\ stored' = stored + 1 /\ stored' \in Nat /\ stored <= stored'
    BY <1>0, <1>5, AdvanceKeepsRing
  <2>3. CASE t = Httpd
    <3>1. pc'[Httpd] = "send"
      BY <1>0, <2>1, <2>3 DEF Goto
    <3>2. QED
      BY <1>0, <1>1, <2>1, <2>2, <2>3, <3>1, HttpdServes DEF ApiInv
  <2>4. CASE t # Httpd
    <3>1. pc'[Httpd] = pc[Httpd]
      BY <1>0, <2>1, <2>4, Tasks DEF Goto
    <3>2. QED
      BY <1>0, <1>1, <2>1, <2>2, <3>1, OthersServe DEF ApiInv
  <2>5. QED
    BY <2>3, <2>4
<1>6. QED
  BY <1>2, <1>3, <1>4, <1>5 DEF Ring

LEMMA ListChangesKeeps ==
  ASSUME ApiInv, ListChanges
  PROVE  ApiInv'
<1>1. RingInv'
  BY RingStays DEF ListChanges, ApiInv
<1>2. list' \in DeviceLists /\ UNCHANGED <<req, wire>> /\ UNCHANGED pc /\ UNCHANGED stored
  BY DEF ListChanges, ring
<1>3. QED
  BY <1>1, <1>2, Served, OthersServe DEF ApiInv

\* At power-on nothing is asked and nothing is recorded.
PowerOn ==
    /\ slots = [i \in 0 .. RingCap - 1 |-> 0] /\ head = 0 /\ count = 0
    /\ holder = Free
    /\ stored = 0
    /\ pc = [t \in Task |-> "idle"]
    /\ req = NoRequest
    /\ list \in DeviceLists
    /\ wire = <<>>

LEMMA PowerOnHolds == PowerOn => ApiInv
<1> SUFFICES ASSUME PowerOn PROVE ApiInv
  OBVIOUS
<1>1. RingInv
  BY EmptyRing DEF PowerOn
<1>2. req \in Request(NoArgs, {}) /\ req.since = 0 /\ req.shown = <<>> /\ req.done = {}
      /\ req.args = NoArgs /\ req.kind = "file"
  BY DEF PowerOn, NoRequest, Request, Kind, Body, Err, HeapRetries
<1>3. Fielded(NoArgs) /\ NoArgs = [f \in DOMAIN NoArgs |-> NoArgs[f]]
  BY Fields DEF NoArgs, Fielded, JsonNumber, DefaultDelay, Unit
<1>4. RequestType
  <2>1. Len(req.shown) <= Emit
    BY <1>2, Caps
  <2>2. wire \in Seq(Chunk)
    BY DEF PowerOn
  <2>3. QED
    BY <1>2, <1>3, <2>1, <2>2 DEF RequestType, PowerOn
<1>5. pc[Httpd] = "idle" /\ File
  BY <1>2, Tasks DEF PowerOn, File
<1>6. QED
  BY <1>1, <1>4, <1>5 DEF ApiInv, ServeInv, BeforeInv, ParseInv, CallInv, PageInv,
     NewestErrorsShown, TurnedInv, SendInv, IdleInv, At

LEMMA RestartKeeps ==
  ASSUME ApiInv, Restart
  PROVE  ApiInv'
<1>1. list \in DeviceLists
  BY DEF ApiInv, ServeInv, RequestType
<1>2. PowerOn'
  BY <1>1 DEF Restart, PowerOn
<1>3. QED
  BY <1>2, PowerOnHolds, PTL

(***************************************************************************)
(* The invariant, and what it says of the answers and the ring.            *)
(***************************************************************************)
LEMMA StepKeeps ==
  ASSUME ApiInv, [Next]_vars
  PROVE  ApiInv'
<1>1. CASE Requests
  <2>1. PICK kind \in Kind : \E args \in Args(kind) :
          \E body \in IF kind \in WithBody THEN Body ELSE {"whole"} :
            Receive(kind, args, body)
    BY <1>1 DEF Requests
  <2>2. QED
    BY <2>1, ReceiveKeeps DEF Body
<1>2. CASE Serve
  <2>1. CASE ParseFails \/ Parse \/ CallSucceeds
    BY <2>1, ParseFailsKeeps, ParseKeeps, CallSucceedsKeeps
  <2>2. CASE \E n \in ResultSize, type \in JobType : ReadSucceeds(n, type)
    BY <2>2, ReadSucceedsKeeps
  <2>3. CASE \E err \in Err : CallFails(err)
    BY <2>3, CallFailsKeeps
  <2>4. CASE \E status \in {"304", "404", "500"} : FileRefused(status)
    BY <2>4, FileRefusedKeeps
  <2>5. CASE LockSnapshot \/ CopyErrors
    BY <2>5, LockSnapshotKeeps, CopyErrorsKeeps
  <2>6. CASE Build \/ TryLarger \/ NoHeap \/ TooLarge
    BY <2>6, BuildKeeps, TryLargerKeeps, PageRefusedKeeps
  <2>7. CASE Send \/ SendFails
    BY <2>7, SendKeeps, SendFailsKeeps
  <2>8. QED
    BY <1>2, <2>1, <2>2, <2>3, <2>4, <2>5, <2>6, <2>7 DEF Serve
<1>3. CASE \E t \in Task : Ring(t)
  BY <1>3, RingKeeps
<1>4. CASE ListChanges \/ Restart
  BY <1>4, ListChangesKeeps, RestartKeeps
<1>5. CASE UNCHANGED vars
  <2>1. RingInv'
    BY <1>5, RingStays DEF vars, ApiInv
  <2>2. /\ UNCHANGED <<req, wire>> /\ UNCHANGED pc /\ UNCHANGED stored
        /\ list' \in DeviceLists
    BY <1>5 DEF vars, ring, ApiInv, ServeInv, RequestType
  <2>3. QED
    BY <2>1, <2>2, Served, OthersServe DEF ApiInv
<1>6. QED
  BY <1>1, <1>2, <1>3, <1>4, <1>5 DEF Next

\* The invariant holds of every behaviour.
LEMMA ApiInvariant == Spec => []ApiInv
<1>1. Init => ApiInv
  <2>1. Init => PowerOn
    BY DEF Init, PowerOn
  <2>2. QED
    BY <2>1, PowerOnHolds
<1>2. QED
  BY <1>1, StepKeeps, PTL DEF Spec

LEMMA TypeFromInv == ApiInv => TypeOK
<1>1. ApiInv => count \in 0 .. RingCap
  <2>1. ApiInv => stored \in Nat /\ RingCap \in Nat /\ count = Cut(stored, RingCap)
    BY Caps DEF ApiInv, RingInv, RingType, EntriesInv
  <2>2. QED
    BY <2>1, CutType
<1>2. QED
  BY <1>1 DEF ApiInv, RingInv, RingType, ServeInv, RequestType, Request, TypeOK, Place

\* Every variable has its type, whatever requests come and however many errors
\* are recorded.
THEOREM TypeCorrect == Spec => []TypeOK
BY ApiInvariant, TypeFromInv, PTL

\* The health page shows the newest errors of one moment, without a gap or a
\* double, for a ring of any size and any number of tasks that record errors
\* (error_ring.c:51, 76).
THEOREM NewestErrorsAlwaysShown == Spec => []NewestErrorsShown
<1>1. ApiInv => NewestErrorsShown
  BY DEF ApiInv, ServeInv
<1>2. QED
  BY <1>1, ApiInvariant, PTL

\* A beginning of an answer that ends like the answer is the whole of it.
LEMMA EndedIsWhole ==
  ASSUME wire \in Seq(Chunk), Begun, Ended, req.rows \in Nat
  PROVE  wire = Answer(req)
<1> DEFINE a == Answer(req)
<1>1. a \in Seq(Chunk) /\ \A i \in 1 .. Len(a) : a[i] = "end" => i = Len(a)
  BY AnswerShape DEF Begun
<1>2. Len(wire) <= Len(a) /\ (\A i \in 1 .. Len(wire) : wire[i] = a[i])
      /\ wire # <<>> /\ wire[Len(wire)] = "end"
  BY DEF Begun, Ended
<1> HIDE DEF a
<1>3. Len(wire) \in 1 .. Len(a) /\ Len(wire) \in 1 .. Len(wire)
  BY <1>1, <1>2
<1>4. Len(wire) = Len(a)
  BY <1>1, <1>2, <1>3
<1>5. wire = a
  BY <1>1, <1>2, <1>4, SeqEqual
<1>6. QED
  BY <1>5 DEF a

\* Only the fraction of a number is lost on the way to its int.
LEMMA FractionLost ==
  ASSUME NEW v \in Int
  PROVE  Unit * valueint(v) - v \in 1 - Unit .. Unit - 1
<1>1. CASE v >= 0
  BY <1>1 DEF valueint, Unit
<1>2. CASE ~(v >= 0)
  BY <1>2 DEF valueint, Unit
<1>3. QED
  BY <1>1, <1>2

LEMMA ReadIsNear ==
  ASSUME NEW args, Fielded(args)
  PROVE  /\ DOMAIN Read(args) = DOMAIN args
         /\ \A f \in DOMAIN args : Near(f, Read(args)[f], args[f])
<1>1. DOMAIN Read(args) = DOMAIN args /\ \A f \in DOMAIN args : Read(args)[f] = Parsed(f, args[f])
  BY DEF Read
<1>2. ASSUME NEW f \in DOMAIN args
      PROVE  Near(f, Parsed(f, args[f]), args[f])
  <2>1. CASE f \in JsonNumber
    BY <2>1, FractionLost DEF Fielded, Near, Parsed
  <2>2. CASE f \notin JsonNumber
    BY <2>2 DEF Near, Parsed
  <2>3. QED
    BY <2>1, <2>2
<1>3. QED
  BY <1>1, <1>2

\* What a success tells of is what was asked for.
LEMMA ToldIsAsked ==
  ASSUME Fielded(req.args), req.done = Told
  PROVE  DoneAsAsked
<1>1. \A call \in Told : call[2] = Read(req.args)
  BY DEF Told
<1>2. {call[1] : call \in Told} = Asked
  <2>1. ASSUME NEW call \in Told
        PROVE  call[1] \in Asked
    BY DEF Told
  <2>2. ASSUME NEW c \in Asked
        PROVE  \E call \in Told : call[1] = c
    <3>1. <<c, Read(req.args)>> \in Told /\ <<c, Read(req.args)>>[1] = c
      BY DEF Told
    <3>2. QED
      BY <3>1
  <2>3. QED
    BY <2>1, <2>2
<1>3. QED
  BY <1>1, <1>2, ReadIsNear DEF DoneAsAsked

\* Whatever is on the wire is true of what was done.
LEMMA AnswerFromInv == ApiInv => AnswerIsTrue
<1> SUFFICES ASSUME ApiInv PROVE AnswerIsTrue
  OBVIOUS
<1>0. Fielded(req.args)
  BY DEF ApiInv, ServeInv, RequestType
<1>1. /\ wire \in Seq(Chunk) /\ req \in Request(req.args, req.done) /\ req.rows \in Nat
      /\ pc[Httpd] \notin {"send", "idle"} => wire = <<>>
  BY Served DEF Request
<1>2. CASE wire = <<>>
  BY <1>2 DEF AnswerIsTrue, Refused, Ended
<1>3. CASE File
  <2>1. req.done = {} /\ Asked = {}
    BY <1>3, ToldOf DEF File
  <2>2. QED
    BY <1>3, <2>1 DEF AnswerIsTrue, DoneAsAsked, File
<1>4. CASE Begun /\ wire # <<>>
  <2>1. ~Refused
    <3>1. Answer(req)[1] \notin Statuses
      BY <1>1, AnswerShape
    <3>2. 1 \in 1 .. Len(wire)
      BY <1>1, <1>4
    <3>3. wire[1] = Answer(req)[1]
      BY <1>4, <3>2 DEF Begun
    <3>4. QED
      BY <3>1, <3>3 DEF Refused, Statuses
  <2>2. Ended => wire = Answer(req)
    BY <1>1, <1>4, EndedIsWhole
  <2>3. DoneAsAsked
    BY <1>0, <1>4, ToldIsAsked DEF Begun
  <2>4. QED
    BY <1>4, <2>1, <2>2, <2>3 DEF AnswerIsTrue
<1>5. ASSUME NEW s \in Statuses, Refusal(s), wire = <<s>>
      PROVE  AnswerIsTrue
  <2>1. wire[1] = s /\ wire[Len(wire)] = s /\ wire # <<>>
    BY <1>5
  <2>2. Refused /\ ~Ended
    BY <2>1 DEF Refused, Ended, Statuses
  <2>3. QED
    BY <1>5, <2>1, <2>2 DEF AnswerIsTrue, Refusal
<1>6. QED
  <2>1. CASE pc[Httpd] = "send"
    <3>1. File \/ Begun \/ wire = <<>>
      BY <2>1 DEF ApiInv, ServeInv, SendInv, At, Turned
    <3>2. QED
      BY <1>2, <1>3, <1>4, <3>1
  <2>2. CASE pc[Httpd] = "idle"
    <3>1. File \/ Begun \/ wire = <<>> \/ \E s \in Statuses : Refusal(s) /\ wire = <<s>>
      BY <2>2 DEF ApiInv, ServeInv, IdleInv, At
    <3>2. QED
      BY <1>2, <1>3, <1>4, <1>5, <3>1
  <2>3. QED
    BY <1>1, <1>2, <2>1, <2>2

\* No answer claims more than happened: everything a request asked for is done
\* when a success is told, with the texts that were sent and with the numbers but
\* for a fraction, which is cut; a request refused as invalid has changed nothing
\* and an answer that ends is whole, for every request and whatever fails on the
\* way (api_contracts.c:19, api_handlers.c:86, api_usecases_system.c:15,
\* api_jobs_handlers.c:83, http_error.c:115).
THEOREM AnswersAreTrue == Spec => []AnswerIsTrue
BY ApiInvariant, AnswerFromInv, PTL

(***************************************************************************)
(* The sizes of the pages against the last of the buffers.                 *)
(***************************************************************************)
\* A page with n rows of at most d, each of at most m bytes.
LEMMA RowsFit ==
  ASSUME NEW n \in Nat, NEW d \in Nat, n <= d, NEW w \in Nat, NEW m \in Nat, w <= m
  PROVE  n * w <= d * m
<1>1. n * w <= n * m
  OBVIOUS
<1>2. n * m <= d * m
  OBVIOUS
<1>3. n * w \in Nat /\ n * m \in Nat /\ d * m \in Nat
  OBVIOUS
<1>4. QED
  BY <1>1, <1>2, <1>3

\* The longest page against the last buffer: 8192 bytes, or 6144 for the health page.
LEMMA ListFromInv ==
  ASSUME DefaultDevices <= 23, Emit <= 27, ApiInv
  PROVE  ListAlwaysServed
<1> SUFFICES ASSUME At(Httpd, "build"), req.try = HeapRetries,
                    req.kind = "health" \/ ~(list.rows > DefaultDevices)
             PROVE  Fits
  BY DEF ListAlwaysServed
<1>1. req.kind \in {"status", "lqi", "health"} /\ Len(req.shown) <= Emit
      /\ Len(req.shown) \in Nat
  BY AtBuild DEF Page, Request
<1>2. DefaultDevices \in Nat /\ Emit \in Nat
  BY ApiAssumption
<1>3. list.rows \in Nat /\ list.name \in 0 .. 186
  BY ApiAssumption DEF ApiInv, ServeInv, RequestType
<1>4. CASE req.kind = "health"
  <2>1. Size(req) = HealthSize(req)
    <3>1. req.kind # "status" /\ req.kind # "lqi"
      BY <1>4
    <3>2. QED
      BY <1>4, <3>1, Zenon DEF Size
  <2>2. Buffer(req.kind, req.try) = 6144
    BY <1>4 DEF Buffer, HeapRetries
  <2>3. 177 * Len(req.shown) <= 177 * 27
    BY <1>1, <1>2
  <2>4. QED
    BY <1>1, <2>1, <2>2, <2>3 DEF Fits, HealthSize
<1>5. ASSUME req.kind \in {"status", "lqi"}
      PROVE  list.rows <= 23 /\ Buffer(req.kind, req.try) = 8192
  BY <1>2, <1>3, <1>5 DEF Buffer, HeapRetries
<1>6. CASE req.kind = "status"
  <2>1. Size(req) = StatusSize
    BY <1>6, Zenon DEF Size
  <2>2. list.rows * (31 + list.name) <= 23 * 217
    <3>1. 31 + list.name \in Nat /\ 31 + list.name <= 217 /\ list.rows <= 23
      BY <1>3, <1>5, <1>6
    <3>2. QED
      BY <1>3, <3>1, RowsFit
  <2>3. list.rows * (31 + list.name) \in Nat
    BY <1>3
  <2>4. QED
    BY <1>5, <1>6, <2>1, <2>2, <2>3 DEF Fits, StatusSize
<1>7. CASE req.kind = "lqi"
  <2>1. Size(req) = LqiSize
    <3>1. req.kind # "status"
      BY <1>7
    <3>2. QED
      BY <1>7, <3>1, Zenon DEF Size
  <2>2. list.rows * (163 + list.name) <= 23 * 349
    <3>1. 163 + list.name \in Nat /\ 163 + list.name <= 349 /\ list.rows <= 23
      BY <1>3, <1>5, <1>7
    <3>2. QED
      BY <1>3, <3>1, RowsFit
  <2>3. list.rows * (163 + list.name) \in Nat
    BY <1>3
  <2>4. QED
    BY <1>5, <1>7, <2>1, <2>2, <2>3 DEF Fits, LqiSize
<1>8. QED
  BY <1>1, <1>4, <1>6, <1>7

\* With at most 23 devices in the default build and 27 errors on the health page
\* the last buffer holds every page that is due, whatever names and errors there
\* are; the project's defaults are 10 and 5 (api_status_handlers.c:36, 78).
THEOREM DefaultListAlwaysServed ==
  ASSUME DefaultDevices <= 23, Emit <= 27
  PROVE  Spec => []ListAlwaysServed
<1>1. ApiInv => ListAlwaysServed
  BY ListFromInv
<1>2. QED
  BY <1>1, ApiInvariant, PTL
=============================================================================
