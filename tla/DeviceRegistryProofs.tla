------------------------ MODULE DeviceRegistryProofs ------------------------
(* Theorems about DeviceService with working flash: the list stays well      *)
(* formed, and the service implements the table of DeviceRegistry.           *)
EXTENDS DeviceServiceProofs, FiniteSetTheorems

(***************************************************************************)
(* The list as a table.                                                    *)
(***************************************************************************)

\* What the table holds for a record.
Rest(r) == [ieee |-> r.ieee, name |-> r.name]

\* In a list without a second record for an address each record is found.
LEMMA FindOnly ==
  ASSUME NEW l \in List, Distinct(l), NEW k \in 1 .. l.count
  PROVE  Knows(l, l.arr[k].addr) /\ Find(l, l.arr[k].addr) = k
<1>1. Knows(l, l.arr[k].addr)
  BY DEF Knows
<1>2. QED
  BY <1>1, FindFinds DEF Distinct

LEMMA MapDomain ==
  ASSUME NEW l
  PROVE  \A a : a \in DOMAIN AsMap(l) <=> \E k \in 1 .. l.count : l.arr[k].addr = a
<1>1. DOMAIN AsMap(l) = {l.arr[k].addr : k \in 1 .. l.count}
  BY DEF AsMap
<1>2. QED
  BY <1>1

LEMMA MapAt ==
  ASSUME NEW l \in List, Distinct(l), NEW k \in 1 .. l.count
  PROVE  AsMap(l)[l.arr[k].addr] = Rest(l.arr[k])
<1>1. Find(l, l.arr[k].addr) = k
  BY FindOnly
<1>2. l.arr[k].addr \in {l.arr[j].addr : j \in 1 .. l.count}
  OBVIOUS
<1>3. QED
  BY <1>1, <1>2 DEF AsMap, Rest

LEMMA MapFunction ==
  ASSUME NEW l
  PROVE  AsMap(l) = [b \in DOMAIN AsMap(l) |-> AsMap(l)[b]]
BY DEF AsMap

LEMMA EmptyMap == AsMap(Empty) = [a \in {} |-> a]
<1>1. DOMAIN AsMap(Empty) = {}
  BY DEF AsMap, Empty
<1>2. QED
  BY <1>1, MapFunction

\* A record added behind the others.
LEMMA MapAdd ==
  ASSUME NEW l \in List, NEW new \in List, Distinct(l), Distinct(new),
         new.count = l.count + 1, \A k \in 1 .. l.count : new.arr[k] = l.arr[k]
  PROVE  /\ DOMAIN AsMap(new) = DOMAIN AsMap(l) \cup {new.arr[new.count].addr}
         /\ \A b \in DOMAIN AsMap(new) :
              AsMap(new)[b] = IF b = new.arr[new.count].addr
                              THEN Rest(new.arr[new.count]) ELSE AsMap(l)[b]
<1> DEFINE n == new.count
           a == new.arr[n].addr
<1>0. l.count \in Nat /\ n = l.count + 1
  BY DEF List
<1>1. n \in 1 .. n /\ (\A k \in 1 .. n : k = n \/ k \in 1 .. l.count)
      /\ \A k \in 1 .. l.count : k \in 1 .. n /\ k # n
  BY <1>0
<1>2. DOMAIN AsMap(new) = DOMAIN AsMap(l) \cup {a}
  <2>1. ASSUME NEW b
        PROVE  b \in DOMAIN AsMap(new) <=> b \in DOMAIN AsMap(l) \/ b = a
    BY <1>1, MapDomain
  <2>2. QED
    BY <2>1
<1>3. ASSUME NEW b \in DOMAIN AsMap(new)
      PROVE  AsMap(new)[b] = IF b = a THEN Rest(new.arr[n]) ELSE AsMap(l)[b]
  <2>1. PICK k \in 1 .. n : new.arr[k].addr = b
    BY MapDomain
  <2>2. AsMap(new)[b] = Rest(new.arr[k])
    BY <2>1, MapAt
  <2>3. CASE k = n
    BY <2>1, <2>2, <2>3
  <2>4. CASE k \in 1 .. l.count
    <3>1. AsMap(l)[b] = Rest(l.arr[k])
      BY <2>1, <2>4, MapAt
    <3>2. b # a
      BY <1>1, <2>1, <2>4 DEF Distinct
    <3>3. QED
      BY <2>2, <2>4, <3>1, <3>2
  <2>5. QED
    BY <1>1, <2>3, <2>4
<1>4. QED
  BY <1>2, <1>3

\* A record taken off.
LEMMA MapDelete ==
  ASSUME NEW l \in List, NEW a \in Addr, Knows(l, a), Distinct(l)
  PROVE  AsMap(Delete(l, a)) = [b \in DOMAIN AsMap(l) \ {a} |-> AsMap(l)[b]]
<1> DEFINE f == Find(l, a)
           old(k) == IF f <= k THEN k + 1 ELSE k
           new == Delete(l, a)
<1>0. l.count \in 0 .. MaxDevices /\ f \in 1 .. l.count /\ l.arr[f].addr = a
  BY FindFinds DEF List
<1>1. new \in List /\ Distinct(new)
  BY DeleteType, DeleteDistinct
<1>2. new.count = l.count - 1
  BY DEF Delete
<1>3. \A k \in 1 .. new.count : k \in Index /\ k < l.count /\ old(k) \in 1 .. l.count /\ old(k) # f
  BY <1>0, <1>2, DeviceAssumption DEF Index
<1>4. \A k \in 1 .. new.count : new.arr[k] = l.arr[old(k)]
  BY <1>0, <1>3 DEF Delete
<1>5. \A j \in 1 .. l.count : j # f => \E k \in 1 .. new.count : old(k) = j
  <2> SUFFICES ASSUME NEW j \in 1 .. l.count, j # f
               PROVE  \E k \in 1 .. new.count : old(k) = j
    OBVIOUS
  <2>1. CASE j < f
    BY <1>0, <1>2, <2>1
  <2>2. CASE j > f
    <3>1. j - 1 \in 1 .. new.count /\ old(j - 1) = j
      BY <1>0, <1>2, <2>2
    <3>2. QED
      BY <3>1
  <2>3. QED
    BY <1>0, <2>1, <2>2
<1> HIDE DEF new, old, f
<1>6. \A b : b \in DOMAIN AsMap(new) <=> b \in DOMAIN AsMap(l) /\ b # a
  <2>1. ASSUME NEW b, b \in DOMAIN AsMap(new)
        PROVE  b \in DOMAIN AsMap(l) /\ b # a
    <3>1. PICK k \in 1 .. new.count : new.arr[k].addr = b
      BY <2>1, MapDomain
    <3>2. l.arr[old(k)].addr = b /\ old(k) \in 1 .. l.count /\ old(k) # f
      BY <1>3, <1>4, <3>1
    <3>3. QED
      BY <1>0, <3>2, MapDomain DEF Distinct
  <2>2. ASSUME NEW b, b \in DOMAIN AsMap(l), b # a
        PROVE  b \in DOMAIN AsMap(new)
    <3>1. PICK j \in 1 .. l.count : l.arr[j].addr = b
      BY <2>2, MapDomain
    <3>2. PICK k \in 1 .. new.count : old(k) = j
      BY <1>0, <1>5, <2>2, <3>1
    <3>3. new.arr[k].addr = b
      BY <1>4, <3>1, <3>2
    <3>4. QED
      BY <3>3, MapDomain
  <2>3. QED
    BY <2>1, <2>2
<1>7. ASSUME NEW b \in DOMAIN AsMap(new)
      PROVE  AsMap(new)[b] = AsMap(l)[b]
  <2>1. PICK k \in 1 .. new.count : new.arr[k].addr = b
    BY MapDomain
  <2>2. l.arr[old(k)].addr = b /\ old(k) \in 1 .. l.count
    BY <1>3, <1>4, <2>1
  <2>3. AsMap(l)[b] = Rest(l.arr[old(k)])
    BY <2>2, MapAt
  <2>4. AsMap(new)[b] = Rest(new.arr[k])
    BY <1>1, <2>1, MapAt
  <2>5. QED
    BY <1>4, <2>3, <2>4
<1>8. DOMAIN AsMap(new) = DOMAIN AsMap(l) \ {a}
  BY <1>6
<1>9. AsMap(new) = [b \in DOMAIN AsMap(l) \ {a} |-> AsMap(l)[b]]
  BY <1>7, <1>8, MapFunction
<1>10. QED
  BY <1>9 DEF new

\* The table has no more entries than the list.
LEMMA MapSize ==
  ASSUME NEW l \in List
  PROVE  Cardinality(DOMAIN AsMap(l)) \in 0 .. l.count
<1> DEFINE S == DOMAIN AsMap(l)
           g == [k \in 1 .. l.count |-> l.arr[k].addr]
<1>1. l.count \in Nat
  BY DEF List
<1>2. g \in [1 .. l.count -> S] /\ \A b \in S : \E k \in 1 .. l.count : g[k] = b
  BY MapDomain
<1>3. ExistsSurjection(1 .. l.count, S)
  BY <1>2 DEF ExistsSurjection, Surjection
<1>4. IsFiniteSet(S)
  BY <1>1, <1>3, FS_NatSurjection
<1>5. Cardinality(S) \in Nat /\ Cardinality(S) <= l.count
  BY <1>1, <1>3, <1>4, FS_SurjCardinalityBound, FS_CardinalityType
<1>6. QED
  BY <1>1, <1>5

-----------------------------------------------------------------------------
(***************************************************************************)
(* Working flash.                                                          *)
(***************************************************************************)

\* No address twice and no zeroed record.
WellFormed(l) == Distinct(l) /\ \A k \in 1 .. l.count : l.arr[k] # Zero

\* The list, the one that would be restored and the one on flash.
FlashInv == ~torn /\ WellFormed(list) /\ WellFormed(committed) /\ WellFormed(durable)

LEMMA EmptyWellFormed == WellFormed(Empty)
BY DEF WellFormed, Distinct, Empty

LEMMA IndexOf ==
  ASSUME NEW l \in List
  PROVE  /\ l.count \in 0 .. MaxDevices /\ l.arr \in [Index -> Record]
         /\ \A k \in 1 .. l.count : k \in Index
BY DeviceAssumption DEF List, Index

\* A record with an address is not the zeroed one.
LEMMA AddressedRecord ==
  ASSUME NEW r, r.addr \in Addr
  PROVE  r # Zero
BY DeviceAssumption DEF Zero

LEMMA UpsertWellFormed ==
  ASSUME NEW l \in List, NEW a \in Addr, NEW i \in Ieee, WellFormed(l)
  PROVE  WellFormed(Upsert(l, a, i))
<1> DEFINE new == Upsert(l, a, i)
<1>0. Distinct(new)
  BY UpsertDistinct DEF WellFormed
<1>1. CASE Knows(l, a)
  <2> DEFINE f == Find(l, a)
  <2>1. f \in Index /\ l.arr[f] \in Record /\ l.arr[f].addr = a
    BY <1>1, KnownRecord DEF Record
  <2>2. new.count = l.count /\ new.arr = [l.arr EXCEPT ![f].ieee = i]
    BY <1>1 DEF Upsert, List
  <2>3. \A k \in Index : k # f => new.arr[k] = l.arr[k]
    BY <2>1, <2>2, IndexOf
  <2>4. new.arr[f].addr = a
    BY <2>1, <2>2, IndexOf
  <2>5. new.arr[f] # Zero
    BY <2>4, AddressedRecord
  <2>6. QED
    BY <1>0, <2>2, <2>3, <2>5, IndexOf DEF WellFormed
<1>2. CASE ~Knows(l, a) /\ l.count < MaxDevices
  <2> DEFINE r == [addr |-> a, ieee |-> i, name |-> DefaultName]
             n == l.count + 1
  <2>1. new.count = n /\ new.arr = [l.arr EXCEPT ![n] = r]
    BY <1>2 DEF Upsert
  <2>2. \A k \in 1 .. n : k = n \/ k \in 1 .. l.count
    BY IndexOf
  <2>3. r # Zero
    BY AddressedRecord
  <2>4. n \in Index /\ \A k \in 1 .. l.count : k \in Index /\ k # n
    BY <1>2, IndexOf, DeviceAssumption DEF Index
  <2>5. new.arr[n] = r /\ \A k \in 1 .. l.count : new.arr[k] = l.arr[k]
    BY <2>1, <2>4, IndexOf
  <2>6. QED
    BY <1>0, <2>1, <2>2, <2>3, <2>5 DEF WellFormed
<1>3. CASE ~Knows(l, a) /\ ~(l.count < MaxDevices)
  BY <1>3 DEF Upsert
<1>4. QED
  BY <1>1, <1>2, <1>3

LEMMA RenameWellFormed ==
  ASSUME NEW l \in List, NEW a \in Addr, NEW n \in Name, Knows(l, a), WellFormed(l)
  PROVE  WellFormed(Rename(l, a, n))
<1> DEFINE f == Find(l, a)
           new == Rename(l, a, n)
<1>0. Distinct(new)
  BY RenameDistinct DEF WellFormed
<1>1. f \in Index /\ l.arr[f] \in Record /\ l.arr[f].addr = a
  BY KnownRecord DEF Record
<1>2. new.count = l.count /\ new.arr = [l.arr EXCEPT ![f].name = n]
  BY DEF Rename, List
<1>3. \A k \in Index : k # f => new.arr[k] = l.arr[k]
  BY <1>1, <1>2, IndexOf
<1>4. new.arr[f].addr = a
  BY <1>1, <1>2, IndexOf
<1>5. new.arr[f] # Zero
  BY <1>4, AddressedRecord
<1>6. QED
  BY <1>0, <1>2, <1>3, <1>5, IndexOf DEF WellFormed

LEMMA DeleteWellFormed ==
  ASSUME NEW l \in List, NEW a \in Addr, Knows(l, a), WellFormed(l)
  PROVE  WellFormed(Delete(l, a))
<1> DEFINE f == Find(l, a)
           new == Delete(l, a)
<1>0. Distinct(new)
  BY DeleteDistinct DEF WellFormed
<1>1. l.count \in 0 .. MaxDevices /\ f \in 1 .. l.count
  BY FindFinds, IndexOf
<1>2. new.count = l.count - 1
  BY DEF Delete
<1>3. ASSUME NEW k \in 1 .. new.count
      PROVE  new.arr[k] # Zero
  <2>1. k \in Index /\ k < l.count /\ k \in 1 .. l.count /\ k + 1 \in 1 .. l.count
    BY <1>1, <1>2, DeviceAssumption DEF Index
  <2>2. new.arr[k] = l.arr[k] \/ new.arr[k] = l.arr[k + 1]
    BY <2>1 DEF Delete
  <2>3. QED
    BY <2>1, <2>2 DEF WellFormed
<1>4. QED
  BY <1>0, <1>3 DEF WellFormed

LEMMA BeginWellFormed ==
  ASSUME FlashInv, SafeInv, NEW t, NEW new, NEW r, Begin(t, new, r),
         WellFormed(list) => WellFormed(new)
  PROVE  FlashInv'
BY DEF Begin, FlashInv, WellFormed, Distinct

LEMMA NextWellFormed ==
  ASSUME "write" \notin Fault, "power" \notin Fault,
         TypeOK, SafeInv, FlashInv, [Next]_vars
  PROVE  FlashInv'
<1>0. list \in List /\ StateOK /\ QueueOK /\ LockInv /\ DurableLoads
  BY TypeParts DEF SafeInv, TypeOK
<1>1. UNCHANGED <<list, committed, durable, torn>> => FlashInv'
  BY DEF FlashInv, WellFormed, Distinct
<1>2. CASE HandleAnnounce
  <2> DEFINE e == Head(events)
  <2>1. e \in Event /\ e.type = "announce"
    BY <1>0, <1>2, HeadTailProperties DEF HandleAnnounce, QueueOK
  <2>2. e.addr \in Addr /\ e.ieee \in Ieee
    BY <2>1 DEF Event
  <2>3. WellFormed(list) => WellFormed(Upsert(list, e.addr, e.ieee))
    BY <1>0, <2>2, UpsertWellFormed
  <2>4. QED
    BY <1>1, <1>2, <2>3, BeginWellFormed DEF HandleAnnounce
<1>3. ASSUME NEW t \in Editor, NEW a \in Addr, DeleteDevice(t, a)
      PROVE  FlashInv'
  BY <1>0, <1>3, DeleteWellFormed, BeginWellFormed DEF DeleteDevice
<1>4. ASSUME NEW t \in Editor, NEW a \in Addr, NEW n \in Name, RenameDevice(t, a, n)
      PROVE  FlashInv'
  BY <1>0, <1>4, RenameWellFormed, BeginWellFormed DEF RenameDevice
<1>5. ASSUME NEW t \in Task, SaveList(t)
      PROVE  FlashInv'
  BY <1>5 DEF SaveList, FlashInv, WellFormed, Distinct
<1>6. ASSUME NEW t \in Task, EraseList(t)
      PROVE  FlashInv'
  <2>1. durable' = Empty /\ ~torn' /\ UNCHANGED <<list, committed>>
    BY <1>6 DEF EraseList
  <2>2. QED
    BY <2>1, EmptyWellFormed DEF FlashInv
<1>7. CASE Restart \/ RestartUnread
  <2>1. repo = Free /\ ~torn' /\ durable' = durable
    BY <1>7 DEF Restart, RestartUnread, FlashInv
  <2>2. Loaded(nvs) = durable
    BY <1>0, <2>1 DEF DurableLoads, FlashInv
  <2>3. list' = committed' /\ list' \in {durable, Empty}
    BY <1>7, <2>2 DEF Restart, RestartUnread, Boot
  <2>4. QED
    BY <2>1, <2>3, EmptyWellFormed DEF FlashInv
<1>8. CASE \/ \E r \in Radio : Announce(r)
           \/ HandleDelete \/ HandleChanged
           \/ \E t \in Task : SaveCount(t) \/ SaveCountFails(t) \/ SaveListFails(t) \/ Tell(t)
           \/ \E t \in Resetter : EraseCount(t) \/ EraseListFails(t)
           \/ UNCHANGED vars
  <2>1. UNCHANGED <<list, committed, durable, torn>>
    BY <1>8 DEF Announce, HandleDelete, HandleChanged, SaveCount, SaveCountFails,
                SaveListFails, Tell, PostDelete, PostChanged, EraseCount,
                EraseListFails, vars
  <2>2. QED
    BY <1>1, <2>1
<1>9. Resetter \subseteq Task
  BY DEF Task
<1>10. QED
  BY <1>2, <1>3, <1>4, <1>5, <1>6, <1>7, <1>8, <1>9 DEF Next, Handle, Save, Erase

\* With flash that is written when it is asked to be, and no restart inside a
\* write, no address is listed twice and no zeroed record comes into the list,
\* although restarts reload it and keys may be unreadable
\* (device_service_rules.c, device_repository_nvs.c).
THEOREM WorkingFlashKeepsListWellFormed ==
  ASSUME "write" \notin Fault, "power" \notin Fault
  PROVE  Spec => []ListWellFormed
<1>1. Init => FlashInv
  BY EmptyWellFormed DEF Init, FlashInv
<1>2. TypeOK /\ SafeInv /\ FlashInv /\ [Next]_vars => FlashInv'
  BY NextWellFormed
<1>3. FlashInv => ListWellFormed
  BY DEF FlashInv, WellFormed, ListWellFormed
<1>4. QED
  BY <1>1, <1>2, <1>3, TypeCorrect, AlwaysSafe, PTL DEF Spec

-----------------------------------------------------------------------------
(***************************************************************************)
(* The service implements the registry.                                    *)
(***************************************************************************)

\* What the list is, while task t saves it: the last list changed by one edit.
Added(t) ==
    /\ task[t].removed = Zero /\ list # committed
    /\ \E a \in Addr, i \in Ieee : list = Upsert(committed, a, i)

Renamed(t) ==
    /\ task[t].removed = Zero
    /\ \E a \in Addr, n \in Name :
         /\ Knows(committed, a) /\ committed.arr[Find(committed, a)].name # n
         /\ list = Rename(committed, a, n)

Deleted(t) ==
    \E a \in Addr :
        /\ Knows(committed, a) /\ task[t].removed = committed.arr[Find(committed, a)]
        /\ list = Delete(committed, a)

PendingInv ==
    \A t \in Task :
        /\ task[t].pc \in {"save_count", "save_list"} => Added(t) \/ Renamed(t) \/ Deleted(t)
        /\ task[t].pc = "post_delete" => task[t].removed # Zero

LEMMA SamePending ==
  ASSUME PendingInv, UNCHANGED <<list, committed, task>>
  PROVE  PendingInv'
BY DEF PendingInv, Added, Renamed, Deleted

\* A step of one task that leaves the list alone, or ends its edit.
LEMMA OthersPending ==
  ASSUME LockInv, PendingInv, NEW t \in Task, \A u \in Task \ {t} : task'[u] = task[u],
         \/ UNCHANGED <<list, committed>>
         \/ task[t].pc \in {"save_count", "save_list"},
         task'[t].pc \in {"save_count", "save_list"} =>
            /\ UNCHANGED <<list, committed>>
            /\ task[t].pc \in {"save_count", "save_list"}
            /\ task'[t].removed = task[t].removed,
         task'[t].pc = "post_delete" => task'[t].removed # Zero
  PROVE  PendingInv'
<1>1. ASSUME NEW u \in Task, u # t
      PROVE  /\ task'[u].pc \in {"save_count", "save_list"} => Added(u)' \/ Renamed(u)' \/ Deleted(u)'
             /\ task'[u].pc = "post_delete" => task'[u].removed # Zero
  <2>1. task'[u] = task[u]
    BY <1>1
  <2>2. task[u].pc \in {"save_count", "save_list"} => UNCHANGED <<list, committed>>
    BY <1>1, OneHolder
  <2>3. QED
    BY <2>1, <2>2 DEF PendingInv, Added, Renamed, Deleted
<1>2. task'[t].pc \in {"save_count", "save_list"} => Added(t)' \/ Renamed(t)' \/ Deleted(t)'
  BY DEF PendingInv, Added, Renamed, Deleted
<1>3. QED
  BY <1>1, <1>2 DEF PendingInv

LEMMA BeginPending ==
  ASSUME StateOK, SafeInv, PendingInv, NEW t \in Task, NEW new, NEW r, Begin(t, new, r),
         task[t].pc = "idle",
         \/ /\ r = Zero /\ new # list
            /\ \E a \in Addr, i \in Ieee : new = Upsert(list, a, i)
         \/ /\ r = Zero
            /\ \E a \in Addr, n \in Name :
                 /\ Knows(list, a) /\ list.arr[Find(list, a)].name # n
                 /\ new = Rename(list, a, n)
         \/ \E a \in Addr :
              /\ Knows(list, a) /\ r = list.arr[Find(list, a)]
              /\ new = Delete(list, a)
  PROVE  PendingInv'
<1>1. list = committed /\ list' = new /\ committed' = committed
  BY DEF Begin, SafeInv, UnsavedNeverVisible
<1>2. /\ task'[t].pc = "save_count" /\ task'[t].removed = r
      /\ \A u \in Task \ {t} : task'[u] = task[u]
  BY DEF Begin, StateOK
<1>3. \A u \in Task : task[u].pc \notin {"save_count", "save_list"}
  BY FreeLocks DEF Begin, SafeInv
<1>4. Added(t)' \/ Renamed(t)' \/ Deleted(t)'
  BY <1>1, <1>2 DEF Added, Renamed, Deleted
<1>5. QED
  BY <1>2, <1>3, <1>4 DEF PendingInv

LEMMA NextPending ==
  ASSUME TypeOK, SafeInv, PendingInv, [Next]_vars
  PROVE  PendingInv'
<1>0. list \in List /\ StateOK /\ QueueOK /\ LockInv
  BY TypeParts DEF SafeInv, TypeOK
<1>1. Editor \subseteq Task /\ Resetter \subseteq Task /\ EventLoop \in Task
  BY DEF Task
<1>2. CASE HandleAnnounce
  <2> DEFINE e == Head(events)
             new == Upsert(list, e.addr, e.ieee)
  <2>1. e \in Event /\ e.type = "announce"
    BY <1>0, <1>2, HeadTailProperties DEF HandleAnnounce, QueueOK
  <2>2. e.addr \in Addr /\ e.ieee \in Ieee
    BY <2>1 DEF Event
  <2>3. CASE new # list
    <3>1. Begin(EventLoop, new, Zero) /\ task[EventLoop].pc = "idle"
      BY <1>2, <2>3 DEF HandleAnnounce
    <3>2. \E a \in Addr, i \in Ieee : new = Upsert(list, a, i)
      BY <2>2
    <3>3. QED
      BY <1>0, <1>1, <2>3, <3>1, <3>2, BeginPending
  <2>4. CASE new = list
    BY <1>2, <2>4, SamePending DEF HandleAnnounce
  <2>5. QED
    BY <2>3, <2>4
<1>3. ASSUME NEW t \in Editor, NEW a \in Addr, DeleteDevice(t, a)
      PROVE  PendingInv'
  BY <1>0, <1>1, <1>3, BeginPending DEF DeleteDevice
<1>4. ASSUME NEW t \in Editor, NEW a \in Addr, NEW n \in Name, RenameDevice(t, a, n)
      PROVE  PendingInv'
  BY <1>0, <1>1, <1>4, BeginPending DEF RenameDevice
<1>5. ASSUME NEW t \in Task, Save(t)
      PROVE  PendingInv'
  <2>1. task[t].pc \in {"save_count", "save_list"} /\ \A u \in Task \ {t} : task'[u] = task[u]
    BY <1>0, <1>5 DEF Save, SaveCount, SaveCountFails, SaveList, SaveListFails, RollBack, StateOK
  <2>2. CASE SaveCount(t)
    <3>1. /\ task'[t].pc = "save_list" /\ task'[t].removed = task[t].removed
          /\ UNCHANGED <<list, committed>>
      BY <1>0, <2>2 DEF SaveCount, StateOK, Place
    <3>2. QED
      BY <1>0, <2>1, <3>1, OthersPending
  <2>3. CASE SaveList(t)
    <3>1. /\ task'[t].removed = task[t].removed
          /\ task'[t].pc = IF task[t].removed = Zero THEN "post_changed" ELSE "post_delete"
      BY <1>0, <2>3 DEF SaveList, StateOK, Place
    <3>2. QED
      BY <1>0, <2>1, <3>1, OthersPending
  <2>4. CASE SaveCountFails(t) \/ SaveListFails(t)
    <3>1. task'[t].pc = "idle"
      BY <1>0, <2>4 DEF SaveCountFails, SaveListFails, RollBack, StateOK, AtRest
    <3>2. QED
      BY <1>0, <2>1, <3>1, OthersPending
  <2>5. QED
    BY <1>5, <2>2, <2>3, <2>4 DEF Save
<1>6. ASSUME NEW t \in Task, Tell(t) \/ EraseCount(t) \/ Erase(t)
      PROVE  PendingInv'
  <2>1. /\ UNCHANGED <<list, committed>> /\ \A u \in Task \ {t} : task'[u] = task[u]
        /\ task'[t].pc \in {"idle", "post_changed", "erase_list"}
    BY <1>0, <1>6 DEF Tell, PostDelete, PostChanged, EraseCount, Erase, EraseList,
                      EraseListFails, StateOK, Place, AtRest
  <2>2. QED
    BY <1>0, <2>1, OthersPending
<1>7. CASE Restart \/ RestartUnread
  <2>1. \A u \in Task : task'[u].pc = "idle"
    BY <1>7 DEF Restart, RestartUnread, Boot, AtRest
  <2>2. QED
    BY <2>1 DEF PendingInv
<1>8. CASE UNCHANGED vars \/ HandleDelete \/ HandleChanged \/ \E r \in Radio : Announce(r)
  BY <1>8, SamePending DEF vars, HandleDelete, HandleChanged, Announce
<1>9. QED
  BY <1>1, <1>2, <1>3, <1>4, <1>5, <1>6, <1>7, <1>8 DEF Next, Handle

\* A table is changed at one address when a record is changed in place.
LEMMA FieldUpdate ==
  ASSUME NEW l \in List, NEW new \in List, Distinct(l), NEW a \in Addr, Knows(l, a),
         NEW r \in Record, r.addr = a, new.count = l.count, new.arr[Find(l, a)] = r,
         \A k \in 1 .. l.count : k # Find(l, a) => new.arr[k] = l.arr[k]
  PROVE  /\ a \in DOMAIN AsMap(l) /\ AsMap(l)[a] = Rest(l.arr[Find(l, a)])
         /\ DOMAIN AsMap(new) = DOMAIN AsMap(l)
         /\ \A b \in DOMAIN AsMap(l) : AsMap(new)[b] = IF b = a THEN Rest(r) ELSE AsMap(l)[b]
<1> DEFINE f == Find(l, a)
<1>1. f \in 1 .. l.count /\ f \in Index /\ l.arr[f].addr = a
  BY FindFinds, IndexOf
<1>2. new.arr[f] = r /\ \A k \in 1 .. l.count : k # f => new.arr[k] = l.arr[k]
  OBVIOUS
<1>3. \A k \in 1 .. l.count : new.arr[k].addr = l.arr[k].addr
  BY <1>1, <1>2
<1>4. a \in DOMAIN AsMap(l)
  BY <1>1, MapDomain
<1>5. AsMap(l)[a] = Rest(l.arr[f])
  BY <1>1, MapAt
<1>6. Distinct(new)
  BY <1>3 DEF Distinct
<1>7. DOMAIN AsMap(new) = DOMAIN AsMap(l)
  <2>1. \A b : b \in DOMAIN AsMap(new) <=> b \in DOMAIN AsMap(l)
    BY <1>3, MapDomain
  <2>2. QED
    BY <2>1
<1>8. ASSUME NEW b \in DOMAIN AsMap(l)
      PROVE  AsMap(new)[b] = IF b = a THEN Rest(r) ELSE AsMap(l)[b]
  <2>1. PICK k \in 1 .. l.count : l.arr[k].addr = b
    BY MapDomain
  <2>2. AsMap(l)[b] = Rest(l.arr[k])
    BY <2>1, MapAt
  <2>3. AsMap(new)[b] = Rest(new.arr[k])
    BY <1>3, <1>6, <2>1, MapAt
  <2>4. k = f <=> b = a
    BY <1>1, <2>1 DEF Distinct
  <2>5. QED
    BY <1>2, <2>2, <2>3, <2>4
<1>9. QED
  BY <1>4, <1>5, <1>7, <1>8

LEMMA UpsertTable ==
  ASSUME NEW l \in List, Distinct(l), NEW a \in Addr, NEW i \in Ieee, Upsert(l, a, i) # l
  PROVE  \/ /\ a \in DOMAIN AsMap(l) /\ AsMap(l)[a].ieee # i
            /\ AsMap(Upsert(l, a, i)) = [AsMap(l) EXCEPT ![a].ieee = i]
         \/ /\ a \notin DOMAIN AsMap(l) /\ Cardinality(DOMAIN AsMap(l)) < MaxDevices
            /\ AsMap(Upsert(l, a, i)) =
                  [b \in DOMAIN AsMap(l) \cup {a} |->
                     IF b = a THEN [ieee |-> i, name |-> DefaultName] ELSE AsMap(l)[b]]
<1> DEFINE new == Upsert(l, a, i)
<1>0. new \in List /\ Distinct(new)
  BY UpsertType, UpsertDistinct
<1>1. CASE Knows(l, a)
  <2> DEFINE f == Find(l, a)
             r == [l.arr[f] EXCEPT !.ieee = i]
  <2>1. f \in Index /\ l.arr[f] \in [addr : Addr, ieee : Ieee, name : Name] /\ l.arr[f].addr = a
    BY <1>1, KnownRecord
  <2>2. r \in Record /\ r.addr = a /\ Rest(r) = [Rest(l.arr[f]) EXCEPT !.ieee = i]
    BY <2>1 DEF Record, Rest
  <2>3. new.count = l.count /\ new.arr = [l.arr EXCEPT ![f] = r]
    BY <1>1 DEF Upsert, List
  <2>4. /\ new.count = l.count /\ new.arr[f] = r
        /\ \A k \in 1 .. l.count : k # f => new.arr[k] = l.arr[k]
    BY <2>1, <2>3, IndexOf
  <2> HIDE DEF r, new
  <2>5. /\ a \in DOMAIN AsMap(l) /\ AsMap(l)[a] = Rest(l.arr[f])
        /\ DOMAIN AsMap(new) = DOMAIN AsMap(l)
        /\ \A b \in DOMAIN AsMap(l) : AsMap(new)[b] = IF b = a THEN Rest(r) ELSE AsMap(l)[b]
    BY <1>0, <1>1, <2>2, <2>4, FieldUpdate
  <2>6. l.arr[f].ieee # i
    <3>1. SUFFICES ASSUME l.arr[f].ieee = i PROVE FALSE
      OBVIOUS
    <3>2. r = l.arr[f]
      BY <2>1, <3>1 DEF r
    <3>3. new.arr = l.arr
      BY <2>1, <2>3, <3>2, IndexOf
    <3>4. new = l
      BY <1>0, <2>3, <3>3 DEF List
    <3>5. QED
      BY <3>4 DEF new
  <2>7. AsMap(l)[a].ieee # i
    BY <2>5, <2>6 DEF Rest
  <2>8. AsMap(new) = [AsMap(l) EXCEPT ![a].ieee = i]
    BY <2>2, <2>5, MapFunction
  <2>9. QED
    BY <2>5, <2>7, <2>8 DEF new
<1>2. CASE ~Knows(l, a)
  <2> DEFINE n == l.count + 1
             r == [addr |-> a, ieee |-> i, name |-> DefaultName]
  <2>1. l.count < MaxDevices /\ l.count \in Nat
    BY <1>2, IndexOf DEF Upsert
  <2>2. new.count = n /\ new.arr = [l.arr EXCEPT ![n] = r]
    BY <1>2, <2>1 DEF Upsert
  <2>3. n \in Index /\ \A k \in 1 .. l.count : k \in Index /\ k # n
    BY <2>1, IndexOf, DeviceAssumption DEF Index
  <2>4. new.arr[n] = r /\ \A k \in 1 .. l.count : new.arr[k] = l.arr[k]
    BY <2>2, <2>3, IndexOf
  <2> HIDE DEF new
  <2>5. /\ DOMAIN AsMap(new) = DOMAIN AsMap(l) \cup {new.arr[new.count].addr}
        /\ \A b \in DOMAIN AsMap(new) :
             AsMap(new)[b] = IF b = new.arr[new.count].addr
                             THEN Rest(new.arr[new.count]) ELSE AsMap(l)[b]
    BY <1>0, <2>2, <2>4, MapAdd
  <2>6. AsMap(new) = [b \in DOMAIN AsMap(l) \cup {a} |-> IF b = a THEN Rest(r) ELSE AsMap(l)[b]]
    BY <2>5, <2>2, <2>4, MapFunction
  <2>7. a \notin DOMAIN AsMap(l)
    BY <1>2, MapDomain DEF Knows
  <2>8. Cardinality(DOMAIN AsMap(l)) < MaxDevices
    BY <2>1, MapSize, DeviceAssumption
  <2>9. QED
    BY <2>6, <2>7, <2>8 DEF Rest, new
<1>3. QED
  BY <1>1, <1>2

LEMMA RenameTable ==
  ASSUME NEW l \in List, Distinct(l), NEW a \in Addr, NEW n \in Name,
         Knows(l, a), l.arr[Find(l, a)].name # n
  PROVE  /\ a \in DOMAIN AsMap(l) /\ AsMap(l)[a].name # n
         /\ AsMap(Rename(l, a, n)) = [AsMap(l) EXCEPT ![a].name = n]
<1> DEFINE f == Find(l, a)
           r == [l.arr[f] EXCEPT !.name = n]
           new == Rename(l, a, n)
<1>1. f \in Index /\ l.arr[f] \in [addr : Addr, ieee : Ieee, name : Name] /\ l.arr[f].addr = a
  BY KnownRecord
<1>2. r \in Record /\ r.addr = a /\ Rest(r) = [Rest(l.arr[f]) EXCEPT !.name = n]
  BY <1>1 DEF Record, Rest
<1>3. new \in List /\ new.count = l.count /\ new.arr = [l.arr EXCEPT ![f] = r]
  BY RenameType DEF Rename, List
<1>4. /\ new \in List /\ new.count = l.count /\ new.arr[f] = r
      /\ \A k \in 1 .. l.count : k # f => new.arr[k] = l.arr[k]
  BY <1>1, <1>3, IndexOf
<1> HIDE DEF r, new
<1>5. /\ a \in DOMAIN AsMap(l) /\ AsMap(l)[a] = Rest(l.arr[f])
      /\ DOMAIN AsMap(new) = DOMAIN AsMap(l)
      /\ \A b \in DOMAIN AsMap(l) : AsMap(new)[b] = IF b = a THEN Rest(r) ELSE AsMap(l)[b]
  BY <1>2, <1>4, FieldUpdate
<1>6. AsMap(new) = [AsMap(l) EXCEPT ![a].name = n]
  BY <1>2, <1>5, MapFunction
<1>7. AsMap(l)[a].name # n
  BY <1>5 DEF Rest
<1>8. QED
  BY <1>5, <1>6, <1>7 DEF new

LEMMA DeleteTable ==
  ASSUME NEW l \in List, Distinct(l), NEW a \in Addr, Knows(l, a)
  PROVE  /\ a \in DOMAIN AsMap(l)
         /\ AsMap(l)[a].ieee = l.arr[Find(l, a)].ieee
         /\ AsMap(Delete(l, a)) = [b \in DOMAIN AsMap(l) \ {a} |-> AsMap(l)[b]]
<1> DEFINE f == Find(l, a)
<1>1. f \in 1 .. l.count /\ l.arr[f].addr = a
  BY FindFinds
<1>2. a \in DOMAIN AsMap(l)
  BY <1>1, MapDomain
<1>3. AsMap(l)[a] = Rest(l.arr[f])
  BY <1>1, MapAt
<1>4. QED
  BY <1>2, <1>3, MapDelete DEF Rest

\* The devices that are leaving change only with a delete.
LEMMA SameLeaving ==
  ASSUME \A u \in Task :
            /\ task'[u].pc = "post_delete" <=> task[u].pc = "post_delete"
            /\ task[u].pc = "post_delete" => task'[u].removed = task[u].removed
  PROVE  Leaving' = Leaving
BY DEF Leaving

\* The registry counts with the same operator.
LEMMA SameCardinality == \A S : Registry!Cardinality(S) = Cardinality(S)
BY Zenon DEF Registry!Cardinality, Cardinality

\* The end of a save is the registry's edit.
LEMMA SaveListEdits ==
  ASSUME TypeOK, SafeInv, FlashInv, PendingInv, NEW t \in Task, SaveList(t)
  PROVE  Registry!Next
<1> DEFINE devices == AsMap(committed)
           new == AsMap(list)
<1>0. /\ task[t].pc = "save_list" /\ task \in [Task -> Place]
      /\ committed \in List /\ Distinct(committed)
      /\ committed' = list /\ durable' = list
  BY DEF SaveList, TypeOK, FlashInv, WellFormed
<1>1. /\ task'[t].removed = task[t].removed
      /\ task'[t].pc = IF task[t].removed = Zero THEN "post_changed" ELSE "post_delete"
      /\ \A u \in Task \ {t} : task'[u] = task[u]
  BY <1>0 DEF SaveList, Place
<1>2. task[t].removed = Zero => Leaving' = Leaving
  BY <1>0, <1>1, SameLeaving
<1>3. Registry!Save(new)
  BY <1>0 DEF Registry!Save
<1>4. CASE Added(t)
  <2>1. PICK a \in Addr, i \in Ieee : list = Upsert(committed, a, i) /\ list # committed
    BY <1>4 DEF Added
  <2>2. \/ /\ a \in DOMAIN devices /\ devices[a].ieee # i
            /\ new = [devices EXCEPT ![a].ieee = i]
         \/ /\ a \notin DOMAIN devices /\ Cardinality(DOMAIN devices) < MaxDevices
            /\ new = [b \in DOMAIN devices \cup {a} |->
                        IF b = a THEN [ieee |-> i, name |-> DefaultName] ELSE devices[b]]
    BY <1>0, <2>1, UpsertTable
  <2>3. AsMap(committed)' = new /\ AsMap(durable)' = new
    BY <1>3 DEF Registry!Save
  <2> HIDE DEF devices, new
  <2>4. \/ /\ a \in DOMAIN devices /\ devices[a].ieee # i
            /\ Registry!Save([devices EXCEPT ![a].ieee = i])
         \/ /\ a \notin DOMAIN devices /\ Cardinality(DOMAIN devices) < MaxDevices
            /\ Registry!Save([b \in DOMAIN devices \cup {a} |->
                               IF b = a THEN [ieee |-> i, name |-> DefaultName] ELSE devices[b]])
    BY <2>2, <2>3 DEF Registry!Save
  <2>5. Registry!Join(a, i)
    BY <2>4, SameCardinality, Zenon DEF Registry!Join, devices
  <2>6. Leaving' = Leaving
    BY <1>2, <1>4 DEF Added
  <2>7. QED
    BY <2>6, <2>5 DEF Registry!Next
<1>5. CASE Renamed(t)
  <2>1. PICK a \in Addr, n \in Name : /\ Knows(committed, a)
                                      /\ committed.arr[Find(committed, a)].name # n
                                      /\ list = Rename(committed, a, n)
    BY <1>5 DEF Renamed
  <2>2. Registry!Rename(a, n)
    BY <1>0, <1>3, <2>1, RenameTable DEF Registry!Rename
  <2>3. Leaving' = Leaving
    BY <1>2, <1>5 DEF Renamed
  <2>4. QED
    BY <2>2, <2>3 DEF Registry!Next
<1>6. CASE Deleted(t)
  <2>1. PICK a \in Addr : /\ Knows(committed, a)
                          /\ task[t].removed = committed.arr[Find(committed, a)]
                          /\ list = Delete(committed, a)
    BY <1>6 DEF Deleted
  <2>2. /\ a \in DOMAIN devices /\ devices[a].ieee = task[t].removed.ieee
        /\ new = [b \in DOMAIN devices \ {a} |-> devices[b]]
    BY <1>0, <2>1, DeleteTable
  <2>3. task[t].removed.addr = a /\ task[t].removed # Zero
    BY <1>0, <2>1, KnownRecord, AddressedRecord
  <2>4. task'[t].pc = "post_delete"
    BY <1>1, <2>3
  <2>5. Leaving' = Leaving \cup {<<a, devices[a].ieee>>}
    BY <1>0, <1>1, <2>2, <2>3, <2>4 DEF Leaving
  <2>6. Registry!Remove(a)
    BY <1>3, <2>2, <2>5 DEF Registry!Remove
  <2>7. QED
    BY <2>6 DEF Registry!Next
<1>7. QED
  BY <1>0, <1>4, <1>5, <1>6 DEF PendingInv

\* A posted delete request is the registry's request to leave, unless another
\* task is about to post the same.
LEMMA PostDeleteAsks ==
  ASSUME TypeOK, PendingInv, NEW t \in Task, PostDelete(t)
  PROVE  Registry!Next \/ UNCHANGED Registry!vars
<1> DEFINE a == task[t].removed.addr
           i == task[t].removed.ieee
<1>1. task \in [Task -> Place] /\ task[t].pc = "post_delete"
  BY DEF PostDelete, TypeOK
<1>2. task[t].removed \in Record /\ task[t].removed # Zero
  BY <1>1 DEF PendingInv, Place
<1>3. a \in Addr /\ i \in Ieee
  BY <1>2 DEF Record
<1>4. task'[t].pc = "post_changed" /\ \A u \in Task \ {t} : task'[u] = task[u]
  BY <1>1 DEF PostDelete, Place
<1>5. UNCHANGED <<AsMap(committed), AsMap(durable)>>
  BY DEF PostDelete, AsMap, Find
<1>6. <<a, i>> \in Leaving
  BY <1>1 DEF Leaving
<1>7. Leaving' = Leaving \/ Leaving' = Leaving \ {<<a, i>>}
  <2> DEFINE others == {<<task[u].removed.addr, task[u].removed.ieee>> :
                           u \in {v \in Task \ {t} : task[v].pc = "post_delete"}}
  <2>1. Leaving = others \cup {<<a, i>>}
    BY <1>1 DEF Leaving
  <2>2. Leaving' = others
    BY <1>4 DEF Leaving
  <2>3. QED
    BY <2>1, <2>2
<1>8. CASE Leaving' = Leaving
  BY <1>5, <1>8 DEF Registry!vars
<1>9. CASE Leaving' = Leaving \ {<<a, i>>}
  BY <1>3, <1>5, <1>6, <1>9 DEF Registry!Next, Registry!AskToLeave
<1>10. QED
  BY <1>7, <1>8, <1>9

LEMMA RegistryStep ==
  ASSUME Fault = {}, TypeOK, SafeInv, FlashInv, PendingInv, [Next]_vars
  PROVE  Registry!Next \/ UNCHANGED Registry!vars
<1>0. StateOK /\ DurableLoads
  BY TypeParts DEF SafeInv
<1>1. UNCHANGED <<committed, durable>> => UNCHANGED <<AsMap(committed), AsMap(durable)>>
  BY DEF AsMap, Find
<1>2. ASSUME UNCHANGED <<committed, durable>>,
             \/ UNCHANGED task
             \/ \E t \in Task : /\ task[t].pc # "post_delete" /\ task'[t].pc # "post_delete"
                                /\ \A u \in Task \ {t} : task'[u] = task[u]
      PROVE  UNCHANGED Registry!vars
  BY <1>1, <1>2, SameLeaving DEF Registry!vars
<1>3. Editor \subseteq Task /\ Resetter \subseteq Task /\ EventLoop \in Task
  BY DEF Task
<1>4. ASSUME NEW t \in Task, task[t].pc = "idle", NEW new, NEW r, Begin(t, new, r)
      PROVE  UNCHANGED Registry!vars
  <2>1. task'[t].pc = "save_count" /\ \A u \in Task \ {t} : task'[u] = task[u]
    BY <1>0, <1>4 DEF Begin, StateOK
  <2>2. QED
    BY <1>2, <1>4, <2>1 DEF Begin
<1>5. CASE Handle
  BY <1>2, <1>3, <1>4, <1>5 DEF Handle, HandleAnnounce, HandleDelete, HandleChanged
<1>6. ASSUME NEW t \in Editor, NEW a \in Addr,
             DeleteDevice(t, a) \/ \E n \in Name : RenameDevice(t, a, n)
      PROVE  UNCHANGED Registry!vars
  BY <1>3, <1>4, <1>6 DEF DeleteDevice, RenameDevice
<1>7. ASSUME NEW t \in Task, SaveCount(t) \/ PostChanged(t) \/ EraseCount(t)
      PROVE  UNCHANGED Registry!vars
  <2>1. /\ task[t].pc # "post_delete" /\ task'[t].pc # "post_delete"
        /\ \A u \in Task \ {t} : task'[u] = task[u]
    BY <1>0, <1>7 DEF SaveCount, PostChanged, EraseCount, StateOK, Place, AtRest
  <2>2. QED
    BY <1>2, <1>7, <2>1 DEF SaveCount, PostChanged, EraseCount
<1>8. ASSUME NEW t \in Task, EraseList(t)
      PROVE  Registry!Next
  <2>1. /\ task[t].pc # "post_delete" /\ task'[t].pc # "post_delete"
        /\ \A u \in Task \ {t} : task'[u] = task[u]
    BY <1>0, <1>8 DEF EraseList, StateOK, Place, AtRest
  <2>2. Leaving' = Leaving
    BY <2>1, SameLeaving
  <2>3. durable' = Empty /\ committed' = committed
    BY <1>8 DEF EraseList
  <2>4. AsMap(durable)' = AsMap(durable') /\ AsMap(committed)' = AsMap(committed)
    BY <2>3 DEF AsMap, Find
  <2>5. AsMap(durable)' = Registry!None
    BY <2>3, <2>4, EmptyMap DEF Registry!None
  <2>6. QED
    BY <2>2, <2>4, <2>5 DEF Registry!Next, Registry!Erase
<1>9. CASE Restart
  <2>1. committed' = durable /\ durable' = durable
    BY <1>0, <1>9 DEF Restart, Boot, DurableLoads, FlashInv
  <2>2. \A u \in Task : task'[u].pc # "post_delete"
    BY <1>9 DEF Restart, Boot, AtRest
  <2>3. Leaving' = {}
    BY <2>2 DEF Leaving
  <2>4. QED
    BY <2>1, <2>3 DEF Registry!Next, Registry!Restart
<1>10. ASSUME NEW r \in Radio, Announce(r)
       PROVE  UNCHANGED Registry!vars
  BY <1>2, <1>10 DEF Announce
<1>11. CASE UNCHANGED vars
  BY <1>2, <1>11 DEF vars
<1>12. QED
  BY <1>3, <1>5, <1>6, <1>7, <1>8, <1>9, <1>10, <1>11, SaveListEdits, PostDeleteAsks
  DEF Next, Save, Tell, Erase, SaveCountFails, SaveListFails, EraseListFails, RestartUnread

\* With working flash and no restart inside a write, every step of the service,
\* with its locks, keys and event queue, is an atomic edit of a saved table, its
\* erasure, a restart that brings the copy back, or no change of it, for any
\* number of tasks and devices (device_service.c, device_repository_nvs.c).
THEOREM ServiceImplementsRegistry ==
  ASSUME Fault = {}
  PROVE  Spec => ImplementsRegistry
<1>1. Init => FlashInv /\ PendingInv
  BY EmptyWellFormed DEF Init, FlashInv, PendingInv, AtRest
<1>2. TypeOK /\ SafeInv /\ FlashInv /\ PendingInv /\ [Next]_vars => FlashInv' /\ PendingInv'
  BY NextWellFormed, NextPending
<1>3. Init => Registry!Init
  BY EmptyMap DEF Init, Registry!Init, Registry!None, Leaving, AtRest
<1>4. TypeOK /\ SafeInv /\ FlashInv /\ PendingInv /\ [Next]_vars
         => [Registry!Next]_(Registry!vars)
  BY RegistryStep
<1>5. QED
  BY <1>1, <1>2, <1>3, <1>4, TypeCorrect, AlwaysSafe, PTL
  DEF Spec, ImplementsRegistry, Registry!Spec
=============================================================================
