------------------------ MODULE DeviceServiceProofs ------------------------
(* Theorems about DeviceService for every set of tasks, devices and faults. *)
EXTENDS DeviceService, NaturalsInduction, WellFoundedInduction,
        SequenceTheorems, TLAPS

(***************************************************************************)
(* Facts about the rules on the list.                                      *)
(***************************************************************************)

\* A set of natural numbers that is not empty has a least element.
LEMMA LeastElement ==
  ASSUME NEW S \in SUBSET Nat, S # {}
  PROVE  \E m \in S : \A k \in S : ~(k < m)
<1>1. \E m \in S : \A k \in S : ~(<<k, m>> \in OpToRel(<, Nat))
  BY WFMin, NatLessThanWellFounded, Zenon
<1>2. QED
  BY <1>1, Zenon DEF OpToRel

\* Find returns an index of the list whose record has the address.
LEMMA FindFinds ==
  ASSUME NEW l \in List, NEW a, Knows(l, a)
  PROVE  Find(l, a) \in 1 .. l.count /\ l.arr[Find(l, a)].addr = a
<1> DEFINE S == {k \in 1 .. l.count : l.arr[k].addr = a}
<1>0. l.count \in Nat
  BY DeviceAssumption DEF List
<1>1. S \in SUBSET Nat /\ S # {}
  BY <1>0 DEF Knows
<1>2. PICK m \in S : \A k \in S : ~(k < m)
  BY <1>1, LeastElement
<1>3. \A j \in 1 .. m - 1 : l.arr[j].addr # a
  BY <1>0, <1>2
<1>4. \E k \in 1 .. l.count : /\ l.arr[k].addr = a
                              /\ \A j \in 1 .. k - 1 : l.arr[j].addr # a
  BY <1>2, <1>3
<1>5. QED
  BY <1>4 DEF Find

\* A record with the address of a device is not the zeroed one.
LEMMA KnownRecord ==
  ASSUME NEW l \in List, NEW a \in Addr, Knows(l, a)
  PROVE  /\ Find(l, a) \in Index
         /\ l.arr[Find(l, a)] \in [addr : Addr, ieee : Ieee, name : Name]
         /\ l.arr[Find(l, a)].addr = a
<1>1. Find(l, a) \in 1 .. l.count /\ l.arr[Find(l, a)].addr = a
  BY FindFinds
<1>2. Find(l, a) \in Index
  BY <1>1, DeviceAssumption DEF List, Index
<1>3. l.arr[Find(l, a)] \in Record
  BY <1>2 DEF List
<1>4. l.arr[Find(l, a)] # Zero
  BY <1>1, DeviceAssumption DEF Zero
<1>5. QED
  BY <1>1, <1>2, <1>3, <1>4 DEF Record

\* A record of the list may be replaced by another.
LEMMA Replaced ==
  ASSUME NEW l \in List, NEW k \in Index, NEW r \in Record
  PROVE  [l EXCEPT !.arr[k] = r] \in List
BY DEF List

LEMMA EmptyList == Empty \in List
BY DeviceAssumption DEF Empty, List, Record

\* The three changes of the list give a list: count stays within the array.
LEMMA UpsertType ==
  ASSUME NEW l \in List, NEW a \in Addr, NEW i \in Ieee
  PROVE  Upsert(l, a, i) \in List
<1> DEFINE new == [addr |-> a, ieee |-> i, name |-> DefaultName]
<1>0. new \in Record
  BY DeviceAssumption DEF Record
<1>1. CASE Knows(l, a)
  <2> DEFINE k == Find(l, a)
  <2>1. k \in Index /\ l.arr[k] \in [addr : Addr, ieee : Ieee, name : Name]
    BY <1>1, KnownRecord
  <2> DEFINE r == [l.arr[k] EXCEPT !.ieee = i]
  <2>2. r \in Record
    BY <2>1 DEF Record
  <2>3. Upsert(l, a, i) = [l EXCEPT !.arr[k] = r]
    BY <1>1 DEF Upsert
  <2>4. QED
    BY <2>1, <2>2, <2>3, Replaced
<1>2. CASE ~Knows(l, a) /\ l.count < MaxDevices
  <2>1. Upsert(l, a, i) = [arr |-> [l.arr EXCEPT ![l.count + 1] = new],
                           count |-> l.count + 1]
    BY <1>2 DEF Upsert
  <2>2. [l.arr EXCEPT ![l.count + 1] = new] \in [Index -> Record]
    BY <1>0 DEF List
  <2>3. l.count + 1 \in 0 .. MaxDevices
    BY <1>2, DeviceAssumption DEF List
  <2>4. QED
    BY <2>1, <2>2, <2>3 DEF List
<1>3. CASE ~Knows(l, a) /\ ~(l.count < MaxDevices)
  BY <1>3 DEF Upsert
<1>4. QED
  BY <1>1, <1>2, <1>3

LEMMA RenameType ==
  ASSUME NEW l \in List, NEW a \in Addr, NEW n \in Name, Knows(l, a)
  PROVE  Rename(l, a, n) \in List
<1> DEFINE k == Find(l, a)
<1>1. k \in Index /\ l.arr[k] \in [addr : Addr, ieee : Ieee, name : Name]
  BY KnownRecord
<1> DEFINE r == [l.arr[k] EXCEPT !.name = n]
<1>2. r \in Record
  BY <1>1 DEF Record
<1>3. Rename(l, a, n) = [l EXCEPT !.arr[k] = r]
  BY DEF Rename
<1>4. QED
  BY <1>1, <1>2, <1>3, Replaced

LEMMA DeleteType ==
  ASSUME NEW l \in List, NEW a \in Addr, Knows(l, a)
  PROVE  Delete(l, a) \in List
<1>0. l.count \in 0 .. MaxDevices /\ l.arr \in [Index -> Record]
  BY DEF List
<1>1. Find(l, a) \in 1 .. l.count
  BY FindFinds
<1>2. l.count - 1 \in 0 .. MaxDevices
  BY <1>0, <1>1, DeviceAssumption
<1>3. ASSUME NEW k \in Index, k < l.count
      PROVE  k + 1 \in Index
  BY <1>0, <1>3, DeviceAssumption DEF Index
<1>4. Delete(l, a).arr \in [Index -> Record]
  BY <1>0, <1>3 DEF Delete
<1>5. QED
  BY <1>2, <1>4 DEF Delete, List

-----------------------------------------------------------------------------
(***************************************************************************)
(* Type correctness.                                                       *)
(***************************************************************************)

LEMMA InitTypeOK == Init => TypeOK
<1> SUFFICES ASSUME Init PROVE TypeOK
  OBVIOUS
<1>1. AtRest \in Place
  BY EmptyList DEF AtRest, Place, Pc, Record
<1>2. nvs \in Store
  BY DEF Init, Store
<1>3. events \in Seq(Event) /\ Len(events) <= QueueCap
  BY ServiceAssumption DEF Init
<1>4. QED
  BY <1>1, <1>2, <1>3, EmptyList DEF Init, TypeOK, Lock

\* What flash holds, complete or not, loads as a list.
LEMMA LoadedType ==
  ASSUME NEW store \in Store
  PROVE  Loaded(store) \in List
BY EmptyList DEF Store, Loaded, List

LEMMA RestType == AtRest \in Place
BY EmptyList DEF AtRest, Place, Pc, Record

\* The queue keeps its type and its bound.
QueueOK == events \in Seq(Event) /\ Len(events) <= QueueCap

LEMMA PostType ==
  ASSUME NEW e \in Event, QueueOK, Post(e)
  PROVE  QueueOK'
BY AppendProperties, ServiceAssumption DEF QueueOK, Post, Room

LEMMA TailType ==
  ASSUME QueueOK, events # <<>>, events' = Tail(events)
  PROVE  QueueOK'
<1>1. Tail(events) \in Seq(Event) /\ Len(Tail(events)) = Len(events) - 1
  BY HeadTailProperties DEF QueueOK
<1>2. Len(events) \in Nat
  BY LenProperties DEF QueueOK
<1>3. QED
  BY <1>1, <1>2, ServiceAssumption DEF QueueOK

\* The variables apart from the queue.
StateOK ==
    /\ list \in List
    /\ nvs \in Store
    /\ svc \in Lock
    /\ repo \in Lock
    /\ task \in [Task -> Place]
    /\ shown \in List
    /\ missed \in BOOLEAN
    /\ committed \in List
    /\ durable \in List
    /\ torn \in BOOLEAN

LEMMA TypeParts == TypeOK <=> StateOK /\ QueueOK
BY DEF TypeOK, StateOK, QueueOK

\* A task's record with another pc is again one.
LEMMA PlacePc ==
  ASSUME NEW p \in Place, NEW c \in Pc
  PROVE  [p EXCEPT !.pc = c] \in Place
BY DEF Place

LEMMA BeginType ==
  ASSUME StateOK, NEW t \in Task, NEW new \in List, NEW r \in Record,
         Begin(t, new, r)
  PROVE  StateOK'
<1>1. [pc |-> "save_count", removed |-> r, before |-> list] \in Place
  BY DEF StateOK, Place, Pc
<1>2. task' \in [Task -> Place]
  BY <1>1 DEF Begin, StateOK
<1>3. QED
  BY <1>2 DEF Begin, StateOK, Lock

LEMMA RollBackType ==
  ASSUME StateOK, NEW t \in Task, RollBack(t)
  PROVE  /\ list' \in List /\ svc' \in Lock /\ task' \in [Task -> Place]
         /\ UNCHANGED <<events, shown, missed, committed, durable>>
<1>1. task[t].before \in List
  BY DEF StateOK, Place
<1>2. QED
  BY <1>1, RestType DEF RollBack, Restored, StateOK, Lock

LEMMA SaveType ==
  ASSUME StateOK, NEW t \in Task, Save(t)
  PROVE  StateOK' /\ UNCHANGED events
<1>0. list.count \in 0 .. MaxDevices /\ list.arr \in [Index -> Record]
  BY DEF StateOK, List
<1>1. [nvs EXCEPT !.count = list.count] \in Store
  BY <1>0 DEF StateOK, Store
<1>2. [nvs EXCEPT !.blob = list.arr] \in Store
  BY <1>0 DEF StateOK, Store
<1>3. CASE SaveCount(t)
  <2>1. [task[t] EXCEPT !.pc = "save_list"] \in Place
    BY PlacePc DEF StateOK, Pc
  <2>2. task' \in [Task -> Place]
    BY <1>3, <2>1 DEF SaveCount, StateOK
  <2>3. QED
    BY <1>1, <1>3, <2>2 DEF SaveCount, StateOK, Lock
<1>4. CASE SaveCountFails(t)
  BY <1>4, RollBackType DEF SaveCountFails, StateOK
<1>5. CASE SaveList(t)
  <2> DEFINE c == IF task[t].removed = Zero THEN "post_changed" ELSE "post_delete"
             p == [[task[t] EXCEPT !.before = Empty] EXCEPT !.pc = c]
  <2>1. task[t] \in Place /\ c \in Pc
    BY DEF StateOK, Pc
  <2>2. [task[t] EXCEPT !.before = Empty] \in Place
    BY <2>1, EmptyList DEF Place
  <2>3. p \in Place
    BY <2>1, <2>2, PlacePc
  <2>4. task' = [task EXCEPT ![t] = p]
    BY <1>5, <2>1 DEF SaveList, StateOK, Place
  <2>5. task' \in [Task -> Place]
    BY <2>3, <2>4 DEF StateOK
  <2>6. QED
    BY <1>2, <1>5, <2>5 DEF SaveList, StateOK, Lock
<1>6. CASE SaveListFails(t)
  <2>1. nvs' \in Store
    BY <1>2, <1>6 DEF SaveListFails, StateOK
  <2>2. QED
    BY <1>6, <2>1, RollBackType DEF SaveListFails, StateOK, Lock
<1>7. QED
  BY <1>3, <1>4, <1>5, <1>6 DEF Save

LEMMA TellType ==
  ASSUME StateOK, QueueOK, NEW t \in Task, Tell(t)
  PROVE  StateOK' /\ QueueOK'
<1>0. task[t] \in Place /\ Zero \in Record /\ Zero.addr = Blank
  BY DEF StateOK, Record, Zero
<1>1. CASE PostDelete(t)
  <2> DEFINE e == [type |-> "delete", addr |-> task[t].removed.addr,
                   ieee |-> task[t].removed.ieee]
             p == [[task[t] EXCEPT !.pc = "post_changed"] EXCEPT !.removed = Zero]
  <2>1. task[t].removed \in Record
    BY <1>0 DEF Place
  <2>2. e \in Event
    BY <2>1 DEF Event, Record, Zero
  <2>3. QueueOK'
    BY <1>1, <2>2, PostType DEF PostDelete
  <2>4. p \in Place
    BY <1>0, PlacePc DEF Place, Pc
  <2>5. task' = [task EXCEPT ![t] = p]
    BY <1>0, <1>1 DEF PostDelete, StateOK, Place
  <2>6. task' \in [Task -> Place]
    BY <2>4, <2>5 DEF StateOK
  <2>7. QED
    BY <1>1, <2>3, <2>6 DEF PostDelete, StateOK
<1>2. CASE PostChanged(t)
  <2>1. [type |-> "changed"] \in Event
    BY DEF Event
  <2>2. QueueOK'
    BY <1>2, <2>1, PostType DEF PostChanged
  <2>3. missed' \in BOOLEAN
    BY <1>2 DEF PostChanged, StateOK
  <2>4. task' \in [Task -> Place]
    BY <1>2, RestType DEF PostChanged, StateOK
  <2>5. QED
    BY <1>2, <2>2, <2>3, <2>4 DEF PostChanged, StateOK
<1>3. QED
  BY <1>1, <1>2 DEF Tell

LEMMA HandleType ==
  ASSUME StateOK, QueueOK, Handle
  PROVE  StateOK' /\ QueueOK'
<1>0. QueueOK'
  BY TailType DEF Handle, HandleAnnounce, HandleDelete, HandleChanged
<1>1. CASE HandleAnnounce
  <2> DEFINE e == Head(events)
             new == Upsert(list, e.addr, e.ieee)
  <2>1. e \in Event /\ e.type = "announce"
    BY <1>1, HeadTailProperties DEF HandleAnnounce, QueueOK
  <2>2. e.addr \in Addr /\ e.ieee \in Ieee
    BY <2>1 DEF Event
  <2>3. new \in List
    BY <2>2, UpsertType DEF StateOK
  <2>4. EventLoop \in Task /\ Zero \in Record
    BY DEF Task, Record
  <2>5. CASE Begin(EventLoop, new, Zero)
    BY <2>3, <2>4, <2>5, BeginType, <1>0
  <2>6. CASE UNCHANGED <<list, nvs, svc, repo, task, shown, missed, committed,
                         durable, torn>>
    BY <2>6, <1>0 DEF StateOK
  <2>7. QED
    BY <1>1, <2>5, <2>6 DEF HandleAnnounce
<1>2. CASE HandleDelete
  BY <1>0, <1>2 DEF HandleDelete, StateOK
<1>3. CASE HandleChanged
  BY <1>0, <1>3 DEF HandleChanged, StateOK
<1>4. QED
  BY <1>1, <1>2, <1>3 DEF Handle

LEMMA EraseType ==
  ASSUME StateOK, NEW t \in Task, EraseCount(t) \/ Erase(t)
  PROVE  StateOK' /\ UNCHANGED events
<1>0. [nvs EXCEPT !.count = Absent] \in Store /\ [nvs EXCEPT !.blob = Absent] \in Store
  BY DEF StateOK, Store
<1>1. CASE EraseCount(t)
  <2>1. [task[t] EXCEPT !.pc = "erase_list"] \in Place
    BY PlacePc DEF StateOK, Pc
  <2>2. task' \in [Task -> Place]
    BY <1>1, <2>1 DEF EraseCount, StateOK
  <2>3. QED
    BY <1>0, <1>1, <2>2 DEF EraseCount, StateOK, Lock
<1>2. CASE EraseList(t)
  <2>1. task' \in [Task -> Place]
    BY <1>2, RestType DEF EraseList, StateOK
  <2>2. QED
    BY <1>0, <1>2, <2>1, EmptyList DEF EraseList, StateOK, Lock
<1>3. CASE EraseListFails(t)
  <2>1. task' \in [Task -> Place]
    BY <1>3, RestType DEF EraseListFails, StateOK
  <2>2. nvs' \in Store
    BY <1>0, <1>3 DEF EraseListFails, StateOK
  <2>3. QED
    BY <1>3, <2>1, <2>2 DEF EraseListFails, StateOK, Lock
<1>4. QED
  BY <1>1, <1>2, <1>3 DEF Erase

LEMMA BootType ==
  ASSUME StateOK, QueueOK, Restart \/ RestartUnread
  PROVE  StateOK' /\ QueueOK'
<1>1. PICK l \in List : Boot(l)
  BY LoadedType, EmptyList DEF Restart, RestartUnread, StateOK
<1>2. torn' \in BOOLEAN /\ durable' = durable
  BY DEF Restart, RestartUnread, StateOK
<1>3. QueueOK'
  BY <1>1, ServiceAssumption DEF Boot, QueueOK
<1>4. task' \in [Task -> Place]
  BY <1>1, RestType DEF Boot
<1>5. QED
  BY <1>1, <1>2, <1>3, <1>4 DEF Boot, StateOK, Lock

\* Every step of the tasks, the radio and the restart keeps the types.
LEMMA NextTypeOK == TypeOK /\ [Next]_vars => TypeOK'
<1> SUFFICES ASSUME StateOK, QueueOK, [Next]_vars
             PROVE  StateOK' /\ QueueOK'
  BY TypeParts DEF TypeOK, StateOK, QueueOK
<1>0. Editor \subseteq Task /\ Resetter \subseteq Task /\ Zero \in Record
  BY DEF Task, Record
<1>1. ASSUME NEW r \in Radio, Announce(r)
      PROVE  StateOK' /\ QueueOK'
  <2>1. [type |-> "announce", addr |-> r[1], ieee |-> r[2]] \in Event
    BY ServiceAssumption DEF Event
  <2>2. QueueOK'
    BY <1>1, <2>1, PostType DEF Announce
  <2>3. QED
    BY <1>1, <2>2 DEF Announce, StateOK
<1>2. CASE Handle
  BY <1>2, HandleType
<1>3. ASSUME NEW t \in Editor, NEW a \in Addr, DeleteDevice(t, a)
      PROVE  StateOK' /\ QueueOK'
  <2>1. Knows(list, a) /\ list \in List /\ t \in Task
    BY <1>0, <1>3 DEF DeleteDevice, StateOK
  <2>2. Delete(list, a) \in List /\ list.arr[Find(list, a)] \in Record
    BY <2>1, DeleteType, KnownRecord DEF Record
  <2>3. StateOK'
    BY <1>3, <2>1, <2>2, BeginType DEF DeleteDevice
  <2>4. QED
    BY <1>3, <2>3 DEF DeleteDevice, QueueOK
<1>4. ASSUME NEW t \in Editor, NEW a \in Addr, NEW n \in Name, RenameDevice(t, a, n)
      PROVE  StateOK' /\ QueueOK'
  <2>1. Knows(list, a) /\ list \in List /\ t \in Task
    BY <1>0, <1>4 DEF RenameDevice, StateOK
  <2>2. Rename(list, a, n) \in List
    BY <2>1, RenameType
  <2>3. StateOK'
    BY <1>0, <1>4, <2>1, <2>2, BeginType DEF RenameDevice
  <2>4. QED
    BY <1>4, <2>3 DEF RenameDevice, QueueOK
<1>5. ASSUME NEW t \in Task, Save(t)
      PROVE  StateOK' /\ QueueOK'
  BY <1>5, SaveType DEF QueueOK
<1>6. ASSUME NEW t \in Task, Tell(t)
      PROVE  StateOK' /\ QueueOK'
  BY <1>6, TellType
<1>7. ASSUME NEW t \in Resetter, EraseCount(t) \/ Erase(t)
      PROVE  StateOK' /\ QueueOK'
  BY <1>0, <1>7, EraseType DEF QueueOK
<1>8. CASE Restart \/ RestartUnread
  BY <1>8, BootType
<1>9. CASE UNCHANGED vars
  BY <1>9 DEF vars, StateOK, QueueOK
<1>10. QED
  BY <1>1, <1>2, <1>3, <1>4, <1>5, <1>6, <1>7, <1>8, <1>9 DEF Next

\* Every variable has its type, for any number of tasks, devices and faults.
THEOREM TypeCorrect == Spec => []TypeOK
BY InitTypeOK, NextTypeOK, PTL DEF Spec

-----------------------------------------------------------------------------
(***************************************************************************)
(* The locks, what readers see and what a restart would load.              *)
(***************************************************************************)

SafeInv == LockInv /\ UnsavedNeverVisible /\ DurableLoads

LEMMA InitSafe == Init => SafeInv
BY ServiceAssumption
DEF Init, SafeInv, LockInv, UnsavedNeverVisible, DurableLoads, AtRest, Loaded

\* SafeInv does not mention the queue, the clients or the counters of the tasks.
LEMMA SameSafe ==
  ASSUME SafeInv, UNCHANGED <<list, nvs, svc, repo, task, committed, durable, torn>>
  PROVE  SafeInv'
BY DEF SafeInv, LockInv, UnsavedNeverVisible, DurableLoads, Loaded

\* No task is inside a save when the service lock is free, or inside a write of
\* flash when the repository mutex is.
LEMMA FreeLocks ==
  ASSUME LockInv
  PROVE  /\ svc = Free => \A u \in Task : task[u].pc \notin {"save_count", "save_list"}
         /\ repo = Free => \A u \in Task : task[u].pc \notin {"save_list", "erase_list"}
BY ServiceAssumption DEF LockInv

\* The holder of a lock is the only task in the steps that need it.
LEMMA OneHolder ==
  ASSUME LockInv, NEW t \in Task, NEW u \in Task, u # t
  PROVE  /\ task[t].pc \in {"save_count", "save_list"} =>
               task[u].pc \notin {"save_count", "save_list"}
         /\ task[t].pc \in {"save_list", "erase_list"} =>
               task[u].pc \notin {"save_list", "erase_list"}
BY DEF LockInv

LEMMA BeginSafe ==
  ASSUME StateOK, SafeInv, NEW t \in Task, task[t].pc = "idle",
         NEW new, NEW r, Begin(t, new, r)
  PROVE  SafeInv'
<1>1. LockInv /\ list = committed /\ svc = Free /\ svc' = t /\ t # Free
  BY ServiceAssumption DEF SafeInv, UnsavedNeverVisible, Begin
<1>2. /\ task'[t].pc = "save_count" /\ task'[t].before = committed
      /\ \A u \in Task \ {t} : task'[u] = task[u]
  BY <1>1 DEF Begin, StateOK
<1>3. \A u \in Task : task[u].pc \notin {"save_count", "save_list"}
  BY <1>1, FreeLocks
<1>4. LockInv'
  <2>1. ASSUME NEW u \in Task
        PROVE  /\ svc' = u <=> task'[u].pc \in {"save_count", "save_list"}
               /\ repo' = u <=> task'[u].pc \in {"save_list", "erase_list"}
    BY <1>1, <1>2, <1>3 DEF Begin, LockInv
  <2>2. \A u \in Task : task'[u].pc \in {"save_count", "save_list"} =>
           task'[u].before = committed'
    BY <1>2, <1>3 DEF Begin
  <2>3. \A u \in Task : task'[u].pc # "save_list"
    BY <1>2, <1>3
  <2>4. \A u \in Task : task'[u].pc = "erase_list" => nvs'.count = Absent
    BY <1>1, <1>2 DEF Begin, LockInv
  <2>5. QED
    BY <2>1, <2>2, <2>3, <2>4 DEF LockInv
<1>5. DurableLoads'
  BY DEF SafeInv, DurableLoads, Begin, Loaded
<1>6. UnsavedNeverVisible'
  BY <1>1 DEF UnsavedNeverVisible
<1>7. QED
  BY <1>4, <1>5, <1>6 DEF SafeInv

\* A save that has failed puts back the list of the last completed edit.
LEMMA RollBackSafe ==
  ASSUME StateOK, SafeInv, NEW t \in Task, RollBack(t), repo' = Free,
         (task[t].pc = "save_count" /\ repo = Free) \/ task[t].pc = "save_list"
  PROVE  LockInv' /\ UnsavedNeverVisible'
<1>1. LockInv /\ list' = committed' /\ svc' = Free
  BY DEF SafeInv, LockInv, RollBack, Restored
<1>2. task'[t].pc = "idle" /\ \A u \in Task \ {t} : task'[u] = task[u]
  BY DEF RollBack, StateOK, AtRest
<1>3. \A u \in Task \ {t} : task[u].pc \notin {"save_count", "save_list", "erase_list"}
  BY <1>1, OneHolder, FreeLocks
<1>4. \A u \in Task : task'[u].pc \notin {"save_count", "save_list", "erase_list"}
  BY <1>2, <1>3
<1>5. Free \notin Task
  BY ServiceAssumption
<1>6. QED
  BY <1>1, <1>4, <1>5 DEF LockInv, UnsavedNeverVisible

LEMMA SaveSafe ==
  ASSUME StateOK, SafeInv, NEW t \in Task, Save(t)
  PROVE  SafeInv'
<1>0. LockInv /\ Free \notin Task
  BY ServiceAssumption DEF SafeInv
<1>1. CASE SaveCount(t)
  <2>1. task[t].pc = "save_count" /\ repo = Free /\ repo' = t
    BY <1>1 DEF SaveCount
  <2>2. /\ task'[t].pc = "save_list" /\ task'[t].before = task[t].before
        /\ \A u \in Task \ {t} : task'[u] = task[u]
    BY <1>1 DEF SaveCount, StateOK, Place
  <2>3. nvs'.count = list.count
    BY <1>1 DEF SaveCount, StateOK, Store
  <2>4. \A u \in Task \ {t} : task[u].pc \notin {"save_count", "save_list", "erase_list"}
    BY <1>0, <2>1, OneHolder, FreeLocks
  <2>5. UNCHANGED <<list, svc, committed>>
    BY <1>1 DEF SaveCount
  <2>6. svc = t /\ task[t].before = committed
    BY <1>0, <2>1 DEF LockInv
  <2>7. LockInv'
    BY <2>1, <2>2, <2>3, <2>4, <2>5, <2>6 DEF LockInv
  <2>8. UnsavedNeverVisible' /\ DurableLoads'
    BY <1>0, <2>1, <2>5, <2>6 DEF UnsavedNeverVisible, DurableLoads
  <2>9. QED
    BY <2>7, <2>8 DEF SafeInv
<1>2. CASE SaveCountFails(t)
  <2>1. LockInv' /\ UnsavedNeverVisible'
    BY <1>2, RollBackSafe DEF SaveCountFails
  <2>2. DurableLoads'
    BY <1>2 DEF SaveCountFails, RollBack, SafeInv, DurableLoads, Loaded
  <2>3. QED
    BY <2>1, <2>2 DEF SafeInv
<1>3. CASE SaveList(t)
  <2>1. task[t].pc = "save_list" /\ repo' = Free /\ svc' = Free /\ list' = list
        /\ committed' = list /\ durable' = list
    BY <1>3 DEF SaveList
  <2>2. /\ task'[t].pc \in {"post_changed", "post_delete"}
        /\ \A u \in Task \ {t} : task'[u] = task[u]
    BY <1>3 DEF SaveList, StateOK, Place
  <2>3. \A u \in Task : task'[u].pc \notin {"save_count", "save_list", "erase_list"}
    BY <1>0, <2>1, <2>2, OneHolder
  <2>4. LockInv' /\ UnsavedNeverVisible'
    BY <1>0, <2>1, <2>3 DEF LockInv, UnsavedNeverVisible
  <2>5. nvs'.count = list.count /\ nvs'.blob = list.arr
    BY <1>0, <1>3, <2>1 DEF SaveList, StateOK, Store, LockInv
  <2>6. list \in List /\ list.count # Absent /\ list.arr # Absent
    BY ServiceAssumption DEF StateOK, List
  <2>7. Loaded(nvs') = list
    BY <2>5, <2>6 DEF Loaded, List
  <2>8. QED
    BY <2>1, <2>4, <2>7 DEF SafeInv, DurableLoads
<1>4. CASE SaveListFails(t)
  <2>1. LockInv' /\ UnsavedNeverVisible'
    BY <1>4, RollBackSafe DEF SaveListFails
  <2>2. DurableLoads'
    BY <1>4 DEF SaveListFails, DurableLoads
  <2>3. QED
    BY <2>1, <2>2 DEF SafeInv
<1>5. QED
  BY <1>1, <1>2, <1>3, <1>4 DEF Save

LEMMA TellSafe ==
  ASSUME StateOK, SafeInv, NEW t \in Task, Tell(t)
  PROVE  SafeInv'
<1>1. /\ task[t].pc \in {"post_delete", "post_changed"}
      /\ task'[t].pc \in {"post_changed", "idle"}
      /\ \A u \in Task \ {t} : task'[u] = task[u]
  BY DEF Tell, PostDelete, PostChanged, StateOK, Place, AtRest
<1>2. UNCHANGED <<list, nvs, svc, repo, committed, durable, torn>>
  BY DEF Tell, PostDelete, PostChanged
<1>3. LockInv'
  BY <1>1, <1>2 DEF SafeInv, LockInv
<1>4. QED
  BY <1>2, <1>3 DEF SafeInv, UnsavedNeverVisible, DurableLoads, Loaded

LEMMA EraseSafe ==
  ASSUME StateOK, SafeInv, NEW t \in Task, EraseCount(t) \/ Erase(t)
  PROVE  SafeInv'
<1>0. LockInv /\ Free \notin Task
  BY ServiceAssumption DEF SafeInv
<1>1. UNCHANGED <<list, svc, committed>>
  BY DEF EraseCount, Erase, EraseList, EraseListFails
<1>2. UnsavedNeverVisible'
  BY <1>1 DEF SafeInv, UnsavedNeverVisible
<1>3. CASE EraseCount(t)
  <2>1. task[t].pc = "idle" /\ repo = Free /\ repo' = t /\ UNCHANGED durable
    BY <1>3 DEF EraseCount
  <2>2. /\ task'[t].pc = "erase_list"
        /\ \A u \in Task \ {t} : task'[u] = task[u]
    BY <1>3 DEF EraseCount, StateOK, Place
  <2>3. nvs'.count = Absent
    BY <1>3 DEF EraseCount, StateOK, Store
  <2>4. \A u \in Task : task[u].pc \notin {"save_list", "erase_list"}
    BY <1>0, <2>1, FreeLocks
  <2>5. LockInv'
    BY <1>0, <1>1, <2>1, <2>2, <2>3, <2>4 DEF LockInv
  <2>6. QED
    BY <1>0, <1>2, <2>1, <2>5 DEF SafeInv, DurableLoads
<1>4. CASE Erase(t)
  <2>1. task[t].pc = "erase_list" /\ repo' = Free
    BY <1>4 DEF Erase, EraseList, EraseListFails
  <2>2. task'[t].pc = "idle" /\ \A u \in Task \ {t} : task'[u] = task[u]
    BY <1>4 DEF Erase, EraseList, EraseListFails, StateOK, AtRest
  <2>3. \A u \in Task : task'[u].pc \notin {"save_list", "erase_list"}
    BY <1>0, <2>1, <2>2, OneHolder
  <2>4. LockInv'
    BY <1>0, <1>1, <2>1, <2>2, <2>3 DEF LockInv
  <2>5. DurableLoads'
    <3>1. CASE EraseList(t)
      <4>1. nvs'.blob = Absent /\ durable' = Empty
        BY <3>1 DEF EraseList, StateOK, Store
      <4>2. QED
        BY <4>1 DEF DurableLoads, Loaded
    <3>2. CASE EraseListFails(t)
      BY <3>2 DEF EraseListFails, DurableLoads
    <3>3. QED
      BY <1>4, <3>1, <3>2 DEF Erase
  <2>6. QED
    BY <1>2, <2>4, <2>5 DEF SafeInv
<1>5. QED
  BY <1>3, <1>4

LEMMA BootSafe ==
  ASSUME SafeInv, Restart \/ RestartUnread
  PROVE  SafeInv'
<1>1. PICK l : Boot(l)
  BY DEF Restart, RestartUnread
<1>2. /\ svc' = Free /\ repo' = Free /\ list' = committed' /\ nvs' = nvs
      /\ \A u \in Task : task'[u].pc = "idle"
  BY <1>1 DEF Boot, AtRest
<1>3. torn' = (torn \/ repo # Free) /\ durable' = durable
  BY DEF Restart, RestartUnread
<1>4. LockInv' /\ UnsavedNeverVisible'
  BY <1>2, ServiceAssumption DEF LockInv, UnsavedNeverVisible
<1>5. DurableLoads'
  BY <1>2, <1>3 DEF SafeInv, DurableLoads, Loaded
<1>6. QED
  BY <1>4, <1>5 DEF SafeInv

\* Every step keeps the invariant.
LEMMA NextSafe == TypeOK /\ SafeInv /\ [Next]_vars => SafeInv'
<1> SUFFICES ASSUME StateOK, SafeInv, [Next]_vars
             PROVE  SafeInv'
  BY TypeParts
<1>0. Editor \subseteq Task /\ Resetter \subseteq Task /\ EventLoop \in Task
  BY DEF Task
<1>1. ASSUME NEW r \in Radio, Announce(r)
      PROVE  SafeInv'
  BY <1>1, SameSafe DEF Announce
<1>2. CASE Handle
  <2>1. CASE HandleAnnounce
    BY <1>0, <2>1, BeginSafe, SameSafe DEF HandleAnnounce
  <2>2. CASE HandleDelete \/ HandleChanged
    BY <2>2, SameSafe DEF HandleDelete, HandleChanged
  <2>3. QED
    BY <1>2, <2>1, <2>2 DEF Handle
<1>3. ASSUME NEW t \in Editor, NEW a \in Addr, DeleteDevice(t, a)
      PROVE  SafeInv'
  BY <1>0, <1>3, BeginSafe DEF DeleteDevice
<1>4. ASSUME NEW t \in Editor, NEW a \in Addr, NEW n \in Name, RenameDevice(t, a, n)
      PROVE  SafeInv'
  BY <1>0, <1>4, BeginSafe DEF RenameDevice
<1>5. ASSUME NEW t \in Task, Save(t) \/ Tell(t)
      PROVE  SafeInv'
  BY <1>5, SaveSafe, TellSafe
<1>6. ASSUME NEW t \in Resetter, EraseCount(t) \/ Erase(t)
      PROVE  SafeInv'
  BY <1>0, <1>6, EraseSafe
<1>7. CASE Restart \/ RestartUnread
  BY <1>7, BootSafe
<1>8. CASE UNCHANGED vars
  BY <1>8, SameSafe DEF vars
<1>9. QED
  BY <1>1, <1>2, <1>3, <1>4, <1>5, <1>6, <1>7, <1>8 DEF Next

LEMMA AlwaysSafe == Spec => []SafeInv
BY InitSafe, NextSafe, TypeCorrect, PTL DEF Spec

\* The service lock and the repository mutex are held by exactly the tasks that
\* are inside a save or an erase, and never by two.
THEOREM LocksHeld == Spec => []LockInv
<1>1. SafeInv => LockInv
  BY DEF SafeInv
<1>2. QED
  BY <1>1, AlwaysSafe, PTL

\* No reader ever sees an edit whose save failed, whatever fails.
THEOREM ReadersSeeSavedList == Spec => []UnsavedNeverVisible
<1>1. SafeInv => UnsavedNeverVisible
  BY DEF SafeInv
<1>2. QED
  BY <1>1, AlwaysSafe, PTL

\* Until a write fails half-way, flash holds what was last written, complete.
THEOREM FlashLoadsLastWrite == Spec => []DurableLoads
<1>1. SafeInv => DurableLoads
  BY DEF SafeInv
<1>2. QED
  BY <1>1, AlwaysSafe, PTL

-----------------------------------------------------------------------------
(***************************************************************************)
(* No address twice in the list.                                           *)
(***************************************************************************)

\* The three changes of the list keep its addresses distinct.
LEMMA UpsertDistinct ==
  ASSUME NEW l \in List, NEW a \in Addr, NEW i \in Ieee, Distinct(l)
  PROVE  Distinct(Upsert(l, a, i))
<1>0. l.count \in 0 .. MaxDevices /\ l.arr \in [Index -> Record]
  BY DEF List
<1>1. CASE Knows(l, a)
  <2> DEFINE f == Find(l, a)
             new == Upsert(l, a, i)
  <2>1. f \in Index /\ l.arr[f] \in [addr : Addr, ieee : Ieee, name : Name]
    BY <1>1, KnownRecord
  <2>2. new.count = l.count /\ new.arr = [l.arr EXCEPT ![f].ieee = i]
    BY <1>1 DEF Upsert, List
  <2>3. \A k \in Index : new.arr[k].addr = l.arr[k].addr
    BY <1>0, <2>1, <2>2
  <2>4. \A k \in 1 .. l.count : k \in Index
    BY <1>0, DeviceAssumption DEF Index
  <2>5. QED
    BY <2>2, <2>3, <2>4 DEF Distinct
<1>2. CASE ~Knows(l, a) /\ l.count < MaxDevices
  <2> DEFINE r == [addr |-> a, ieee |-> i, name |-> DefaultName]
             n == l.count + 1
  <2>1. Upsert(l, a, i).count = n /\ Upsert(l, a, i).arr = [l.arr EXCEPT ![n] = r]
    BY <1>2 DEF Upsert
  <2>2. n \in Index /\ \A k \in 1 .. n : k \in Index /\ (k # n => k \in 1 .. l.count)
    BY <1>0, <1>2, DeviceAssumption DEF Index
  <2>3. \A k \in 1 .. l.count : l.arr[k].addr # a /\ k # n
    BY <1>0, <1>2 DEF Knows
  <2>4. \A k \in 1 .. n : Upsert(l, a, i).arr[k].addr = IF k = n THEN a ELSE l.arr[k].addr
    BY <1>0, <2>1, <2>2
  <2>5. QED
    BY <2>1, <2>2, <2>3, <2>4 DEF Distinct
<1>3. CASE ~Knows(l, a) /\ ~(l.count < MaxDevices)
  BY <1>3 DEF Upsert
<1>4. QED
  BY <1>1, <1>2, <1>3

LEMMA RenameDistinct ==
  ASSUME NEW l \in List, NEW a \in Addr, NEW n \in Name, Knows(l, a), Distinct(l)
  PROVE  Distinct(Rename(l, a, n))
<1> DEFINE f == Find(l, a)
           new == Rename(l, a, n)
<1>0. l.count \in 0 .. MaxDevices /\ l.arr \in [Index -> Record]
  BY DEF List
<1>1. f \in Index /\ l.arr[f] \in [addr : Addr, ieee : Ieee, name : Name]
  BY KnownRecord
<1>2. new.count = l.count /\ new.arr = [l.arr EXCEPT ![f].name = n]
  BY DEF Rename, List
<1>3. \A k \in Index : new.arr[k].addr = l.arr[k].addr
  BY <1>0, <1>1, <1>2
<1>4. \A k \in 1 .. l.count : k \in Index
  BY <1>0, DeviceAssumption DEF Index
<1>5. QED
  BY <1>2, <1>3, <1>4 DEF Distinct

\* Each record of the shortened list is one of the old, at its own index.
LEMMA DeleteDistinct ==
  ASSUME NEW l \in List, NEW a \in Addr, Knows(l, a), Distinct(l)
  PROVE  Distinct(Delete(l, a))
<1> DEFINE f == Find(l, a)
           old(k) == IF f <= k THEN k + 1 ELSE k
           new == Delete(l, a)
<1>0. l.count \in 0 .. MaxDevices /\ f \in 1 .. l.count
  BY FindFinds DEF List
<1>1. new.count = l.count - 1
  BY DEF Delete
<1>2. \A k \in 1 .. new.count : k \in Index /\ k < l.count /\ old(k) \in 1 .. l.count
  BY <1>0, <1>1, DeviceAssumption DEF Index
<1>3. \A k \in 1 .. new.count : new.arr[k] = l.arr[old(k)]
  BY <1>0, <1>2 DEF Delete
<1>4. \A j, k \in 1 .. new.count : old(j) = old(k) => j = k
  BY <1>0, <1>1
<1>5. QED
  BY <1>2, <1>3, <1>4 DEF Distinct

\* An edit that is under way adds no second record for an address.
DistinctInv == Distinct(committed) => Distinct(list)

LEMMA BeginDistinct ==
  ASSUME UnsavedNeverVisible, NEW t, NEW new, NEW r, Begin(t, new, r),
         Distinct(list) => Distinct(new)
  PROVE  DistinctInv' /\ UNCHANGED committed
BY DEF Begin, UnsavedNeverVisible, DistinctInv

\* One step, except a restart: DistinctInv stays, and a list without a second
\* record for an address is followed by another.
LEMMA NextDistinct ==
  ASSUME TypeOK, SafeInv, DistinctInv, [Next]_vars
  PROVE  /\ DistinctInv'
         /\ ~Restart /\ Distinct(committed) => Distinct(committed')
<1>0. UnsavedNeverVisible /\ list \in List /\ StateOK /\ QueueOK
  BY TypeParts DEF SafeInv, TypeOK
<1> DEFINE Kept == UNCHANGED <<list, committed>>
<1>1. Kept => DistinctInv' /\ UNCHANGED committed
  BY DEF DistinctInv, Distinct
<1>2. CASE HandleAnnounce
  <2> DEFINE e == Head(events)
  <2>1. e \in Event /\ e.type = "announce"
    BY <1>0, <1>2, HeadTailProperties DEF HandleAnnounce, QueueOK
  <2>2. e.addr \in Addr /\ e.ieee \in Ieee
    BY <2>1 DEF Event
  <2>3. Distinct(list) => Distinct(Upsert(list, e.addr, e.ieee))
    BY <1>0, <2>2, UpsertDistinct
  <2>4. Begin(EventLoop, Upsert(list, e.addr, e.ieee), Zero) \/ Kept
    BY <1>2 DEF HandleAnnounce
  <2>5. QED
    BY <1>0, <1>1, <2>3, <2>4, BeginDistinct
<1>3. ASSUME NEW t \in Editor, NEW a \in Addr, DeleteDevice(t, a)
      PROVE  DistinctInv' /\ UNCHANGED committed
  BY <1>0, <1>3, DeleteDistinct, BeginDistinct DEF DeleteDevice
<1>4. ASSUME NEW t \in Editor, NEW a \in Addr, NEW n \in Name, RenameDevice(t, a, n)
      PROVE  DistinctInv' /\ UNCHANGED committed
  BY <1>0, <1>4, RenameDistinct, BeginDistinct DEF RenameDevice
<1>5. ASSUME NEW t \in Task, SaveList(t)
      PROVE  committed' = list /\ list' = list
  BY <1>5 DEF SaveList
<1>6. ASSUME NEW t \in Task, SaveCountFails(t) \/ SaveListFails(t)
      PROVE  DistinctInv' /\ UNCHANGED committed
  <2>1. task[t].before = committed
    BY <1>6 DEF SafeInv, LockInv, SaveCountFails, SaveListFails
  <2>2. list' = committed /\ committed' = committed
    BY <1>6, <2>1 DEF SaveCountFails, SaveListFails, RollBack, Restored
  <2>3. QED
    BY <2>2 DEF DistinctInv
<1>7. CASE Restart
  BY <1>7 DEF Restart, Boot, DistinctInv
<1>8. CASE RestartUnread
  <2>1. list' = Empty /\ committed' = Empty
    BY <1>8 DEF RestartUnread, Boot
  <2>2. Distinct(Empty)
    BY DEF Distinct, Empty
  <2>3. QED
    BY <2>1, <2>2 DEF DistinctInv
<1>9. CASE \/ \E r \in Radio : Announce(r)
           \/ HandleDelete \/ HandleChanged
           \/ \E t \in Task : SaveCount(t) \/ Tell(t)
           \/ \E t \in Resetter : EraseCount(t) \/ Erase(t)
           \/ UNCHANGED vars
  <2>1. Kept
    BY <1>9 DEF Announce, HandleDelete, HandleChanged, SaveCount, Tell, PostDelete,
                PostChanged, EraseCount, Erase, EraseList, EraseListFails, vars
  <2>2. QED
    BY <1>1, <2>1
<1>10. QED
  BY <1>2, <1>3, <1>4, <1>5, <1>6, <1>7, <1>8, <1>9
  DEF Next, Handle, Save, DistinctInv

\* Apart from a restart, no step of any task brings an address into the list of
\* completed edits twice, for any number of tasks and under every fault.
THEOREM EditsKeepAddressesDistinct == Spec => EditsKeepDistinct
<1>1. Init => DistinctInv
  BY DEF Init, DistinctInv
<1>2. TypeOK /\ SafeInv /\ DistinctInv /\ [Next]_vars => DistinctInv'
  BY NextDistinct
<1>3. TypeOK /\ SafeInv /\ DistinctInv /\ [Next]_vars =>
         [~Restart /\ Distinct(committed) => Distinct(committed')]_vars
  BY NextDistinct
<1>4. QED
  BY <1>1, <1>2, <1>3, TypeCorrect, AlwaysSafe, PTL DEF Spec, EditsKeepDistinct

-----------------------------------------------------------------------------
(***************************************************************************)
(* What the web clients are shown.                                         *)
(***************************************************************************)

\* A list change waits in a queue.
Waiting(q) == \E k \in 1 .. Len(q) : q[k].type = "changed"

\* The clients are behind the last completed edit only while the news of it is
\* still to be posted, waits in the queue or was dropped.
NewsInv ==
    \/ shown = committed
    \/ missed
    \/ Waiting(events)
    \/ \E t \in Task : task[t].pc \in {"post_delete", "post_changed"}

\* What a post adds, and what is left when the head is handled.
LEMMA PostWaiting ==
  ASSUME QueueOK, NEW e, Post(e)
  PROVE  /\ Waiting(events) => Waiting(events')
         /\ Room /\ e.type = "changed" => Waiting(events')
<1>1. Len(events) \in Nat
  BY LenProperties DEF QueueOK
<1>2. CASE Room
  <2>1. /\ Len(events') = Len(events) + 1 /\ events'[Len(events) + 1] = e
        /\ \A k \in 1 .. Len(events) : events'[k] = events[k]
    BY <1>2, AppendProperties DEF Post, QueueOK
  <2>2. QED
    BY <1>1, <2>1 DEF Waiting
<1>3. CASE ~Room
  BY <1>3 DEF Post
<1>4. QED
  BY <1>2, <1>3

LEMMA TailWaiting ==
  ASSUME QueueOK, events # <<>>, Head(events).type # "changed", events' = Tail(events)
  PROVE  Waiting(events) => Waiting(events')
<1>1. Len(events) \in Nat /\ Len(events') = Len(events) - 1
  BY LenProperties, HeadTailProperties DEF QueueOK
<1>2. \A k \in 1 .. Len(events') : events'[k] = events[k + 1]
  BY <1>1, HeadTailProperties DEF QueueOK
<1>3. events[1] = Head(events)
  BY DEF QueueOK
<1>4. SUFFICES ASSUME NEW k \in 1 .. Len(events), events[k].type = "changed"
               PROVE  Waiting(events')
  BY DEF Waiting
<1>5. k # 1
  BY <1>3, <1>4
<1>6. k - 1 \in 1 .. Len(events') /\ events'[k - 1].type = "changed"
  BY <1>1, <1>2, <1>4, <1>5
<1>7. QED
  BY <1>6 DEF Waiting

\* Steps that leave the clients' list and the last edit alone, and take no news
\* back.
LEMMA SameNews ==
  ASSUME NewsInv, UNCHANGED <<shown, missed, committed>>,
         Waiting(events) => Waiting(events'),
         \A t \in Task : task[t].pc \in {"post_delete", "post_changed"} => task'[t] = task[t]
  PROVE  NewsInv'
BY DEF NewsInv, Waiting

LEMMA BeginNews ==
  ASSUME NewsInv, StateOK, NEW t \in Task, task[t].pc = "idle", NEW new, NEW r,
         Begin(t, new, r), Waiting(events) => Waiting(events')
  PROVE  NewsInv'
<1>1. \A u \in Task : task[u].pc \in {"post_delete", "post_changed"} => task'[u] = task[u]
  BY DEF Begin, StateOK
<1>2. QED
  BY <1>1, SameNews DEF Begin

LEMMA NextNews ==
  ASSUME TypeOK, SafeInv, NewsInv, [Next]_vars
  PROVE  NewsInv'
<1>0. StateOK /\ QueueOK /\ LockInv /\ UnsavedNeverVisible
  BY TypeParts DEF SafeInv
<1> DEFINE posting(u) == task[u].pc \in {"post_delete", "post_changed"}
<1>1. Editor \subseteq Task /\ Resetter \subseteq Task /\ EventLoop \in Task
  BY DEF Task
<1>2. ASSUME NEW r \in Radio, Announce(r)
      PROVE  NewsInv'
  <2>1. Waiting(events) => Waiting(events')
    BY <1>0, <1>2, PostWaiting DEF Announce
  <2>2. QED
    BY <1>2, <2>1, SameNews DEF Announce
<1>3. CASE HandleAnnounce
  <2>1. Waiting(events) => Waiting(events')
    BY <1>0, <1>3, TailWaiting DEF HandleAnnounce
  <2>2. QED
    BY <1>0, <1>1, <1>3, <2>1, SameNews, BeginNews DEF HandleAnnounce
<1>4. CASE HandleDelete
  <2>1. Waiting(events) => Waiting(events')
    BY <1>0, <1>4, TailWaiting DEF HandleDelete
  <2>2. QED
    BY <1>4, <2>1, SameNews DEF HandleDelete
<1>5. CASE HandleChanged
  BY <1>0, <1>5 DEF HandleChanged, UnsavedNeverVisible, NewsInv
<1>6. ASSUME NEW t \in Editor, NEW a \in Addr, DeleteDevice(t, a)
      PROVE  NewsInv'
  BY <1>0, <1>1, <1>6, BeginNews DEF DeleteDevice
<1>7. ASSUME NEW t \in Editor, NEW a \in Addr, NEW n \in Name, RenameDevice(t, a, n)
      PROVE  NewsInv'
  BY <1>0, <1>1, <1>7, BeginNews DEF RenameDevice
<1>8. ASSUME NEW t \in Task, SaveCount(t) \/ SaveCountFails(t) \/ SaveListFails(t)
      PROVE  NewsInv'
  <2>1. ~posting(t) /\ \A u \in Task \ {t} : task'[u] = task[u]
    BY <1>0, <1>8 DEF SaveCount, SaveCountFails, SaveListFails, RollBack, StateOK
  <2>2. UNCHANGED <<shown, missed, committed, events>>
    BY <1>8 DEF SaveCount, SaveCountFails, SaveListFails, RollBack
  <2>3. QED
    BY <2>1, <2>2, SameNews
<1>9. ASSUME NEW t \in Task, SaveList(t)
      PROVE  NewsInv'
  <2>1. task'[t].pc \in {"post_delete", "post_changed"}
    BY <1>0, <1>9 DEF SaveList, StateOK, Place
  <2>2. QED
    BY <2>1 DEF NewsInv
<1>10. ASSUME NEW t \in Task, PostDelete(t)
      PROVE  NewsInv'
  <2>1. task'[t].pc = "post_changed"
    BY <1>0, <1>10 DEF PostDelete, StateOK, Place
  <2>2. QED
    BY <2>1 DEF NewsInv
<1>11. ASSUME NEW t \in Task, PostChanged(t)
       PROVE  NewsInv'
  <2> DEFINE e == [type |-> "changed"]
  <2>1. Post(e) /\ missed' = (missed \/ ~Room)
    BY <1>11 DEF PostChanged
  <2>2. Room => Waiting(events')
    BY <1>0, <2>1, PostWaiting
  <2>3. missed' \/ Waiting(events')
    BY <2>1, <2>2
  <2>4. QED
    BY <2>3 DEF NewsInv
<1>12. ASSUME NEW t \in Task, EraseCount(t) \/ Erase(t)
       PROVE  NewsInv'
  <2>1. ~posting(t) /\ \A u \in Task \ {t} : task'[u] = task[u]
    BY <1>0, <1>12 DEF EraseCount, Erase, EraseList, EraseListFails, StateOK
  <2>2. UNCHANGED <<shown, missed, committed, events>>
    BY <1>12 DEF EraseCount, Erase, EraseList, EraseListFails
  <2>3. QED
    BY <2>1, <2>2, SameNews
<1>13. CASE Restart \/ RestartUnread
  BY <1>13 DEF Restart, RestartUnread, Boot, NewsInv
<1>14. CASE UNCHANGED vars
  BY <1>14, SameNews DEF vars
<1>15. QED
  BY <1>1, <1>2, <1>3, <1>4, <1>5, <1>6, <1>7, <1>8, <1>9, <1>10, <1>11, <1>12, <1>13, <1>14
  DEF Next, Handle, Save, Tell

\* Once nothing is under way the web clients have been sent the list in use,
\* unless a change event was dropped, for any number of tasks and any length of
\* the event queue (device_service.c:202, ws_manager.c).
THEOREM ClientsSeeCurrentList == Spec => []ShownIsCurrent
<1>1. Init => NewsInv
  BY DEF Init, NewsInv
<1>2. TypeOK /\ SafeInv /\ NewsInv /\ [Next]_vars => NewsInv'
  BY NextNews
<1>3. TypeOK /\ SafeInv /\ NewsInv => ShownIsCurrent
  <2> SUFFICES ASSUME TypeOK, SafeInv, NewsInv, events = <<>>,
                      \A t \in Task : task[t].pc = "idle", ~missed
               PROVE  shown = list
    BY DEF ShownIsCurrent
  <2>1. svc \in Task \cup {Free} /\ LockInv
    BY DEF TypeOK, Lock, SafeInv
  <2>2. svc = Free
    BY <2>1 DEF LockInv
  <2>3. ~Waiting(events)
    BY DEF Waiting
  <2>4. QED
    BY <2>2, <2>3 DEF NewsInv, SafeInv, UnsavedNeverVisible
<1>4. QED
  BY <1>1, <1>2, <1>3, TypeCorrect, AlwaysSafe, PTL DEF Spec
=============================================================================
