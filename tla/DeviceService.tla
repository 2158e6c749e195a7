--------------------------- MODULE DeviceService ---------------------------
(***************************************************************************)
(* The list of paired devices: device_service.c in RAM, its repository     *)
(* device_repository_nvs.c in flash, the default event loop between them,  *)
(* the Zigbee stack and the web clients, and the restart of the chip.      *)
(*                                                                         *)
(* An edit runs in five steps: the change in RAM under the service lock,   *)
(* the write of dev_count and the write of dev_list under the repository   *)
(* mutex, and, with every lock released, the posts of the delete request   *)
(* and of the list change.  A factory reset takes only the repository      *)
(* mutex and erases the two keys in two steps.  A key is on flash when the *)
(* call that writes it has returned.                                       *)
(***************************************************************************)
EXTENDS DeviceRules, Sequences

CONSTANTS
    Editor,       \* tasks that rename and delete: the HTTP server
    Resetter,     \* tasks that run a factory reset: the HTTP server, the job worker
    EventLoop,    \* the task of the default event loop
    Radio,        \* the (address, ieee) pairs that devices announce
    QueueCap,     \* length of the event loop's queue
    Absent,       \* a key that flash does not hold
    Fault         \* what may go wrong: "write", "read" and "power"

Task == Editor \cup Resetter \cup {EventLoop}
Free == "free"
Lock == Task \cup {Free}

ASSUME ServiceAssumption ==
    /\ EventLoop \notin Editor \cup Resetter
    /\ Free \notin Task
    /\ Radio \subseteq Addr \X Ieee
    /\ QueueCap \in Nat \ {0}
    /\ Absent \notin 0 .. MaxDevices
    /\ Absent \notin [Index -> Record]
    /\ Fault \subseteq {"write", "read", "power"}

VARIABLES
    list,         \* devices[] and device_count
    nvs,          \* the keys dev_count and dev_list
    svc,          \* holder of the service lock
    repo,         \* holder of the repository mutex
    task,         \* each task's place in an operation
    events,       \* the event loop's queue
    shown,        \* the list the web clients were last sent
    missed,       \* history: a list change was dropped by the full queue since
    committed,    \* history: the list at boot or after the last completed edit
    durable,      \* history: what the last complete write of flash stored
    torn          \* history: a write of flash failed half-way since

vars == <<list, nvs, svc, repo, task, events, shown, missed, committed,
          durable, torn>>

Store  == [count : (0 .. MaxDevices) \cup {Absent},
           blob  : [Index -> Record] \cup {Absent}]
Pc     == {"idle", "save_count", "save_list", "post_delete", "post_changed",
           "erase_list"}
Place  == [pc : Pc, removed : Record, before : List]
AtRest == [pc |-> "idle", removed |-> Zero, before |-> Empty]
Event  == [type : {"announce"}, addr : Addr, ieee : Ieee]
             \cup [type : {"delete"}, addr : Addr \cup {Blank}, ieee : Ieee \cup {Blank}]
             \cup {[type |-> "changed"]}

\* Mutant: the count alone decides.
LoadedByCount(store) ==
    IF store.count # Absent
    THEN [arr |-> store.blob, count |-> store.count]
    ELSE Empty

\* device_repository_load: both keys must be there.
Loaded(store) ==
    IF store.count # Absent /\ store.blob # Absent
    THEN [arr |-> store.blob, count |-> store.count]
    ELSE Empty

Init ==
    /\ list = Empty
    /\ nvs = [count |-> Absent, blob |-> Absent]
    /\ svc = Free
    /\ repo = Free
    /\ task = [t \in Task |-> AtRest]
    /\ events = <<>>
    /\ shown = Empty
    /\ missed = FALSE
    /\ committed = Empty
    /\ durable = Empty
    /\ torn = FALSE

Room == Len(events) < QueueCap

(***************************************************************************)
(* The edits: device_service_add_with_ieee, _update_name and _delete.      *)
(***************************************************************************)

\* Under the service lock: the snapshot is taken and RAM changed.
Begin(t, new, removed) ==
    /\ svc = Free
    /\ list' = new
    /\ svc' = t
    /\ task' = [task EXCEPT ![t] =
                  [pc |-> "save_count", removed |-> removed, before |-> list]]
    /\ UNCHANGED <<nvs, repo, shown, missed, committed, durable, torn>>

\* An announcement that changes nothing, or finds the list full, ends here.
HandleAnnounce ==
    /\ task[EventLoop].pc = "idle"
    /\ events # <<>>
    /\ Head(events).type = "announce"
    /\ events' = Tail(events)
    /\ LET new == Upsert(list, Head(events).addr, Head(events).ieee)
       IN  IF new # list
           THEN Begin(EventLoop, new, Zero)
           ELSE /\ svc = Free
                /\ UNCHANGED <<list, nvs, svc, repo, task, shown, missed,
                               committed, durable, torn>>

RenameDevice(t, a, n) ==
    /\ task[t].pc = "idle"
    /\ Knows(list, a)
    /\ list.arr[Find(list, a)].name # n
    /\ Begin(t, Rename(list, a, n), Zero)
    /\ UNCHANGED events

DeleteDevice(t, a) ==
    /\ task[t].pc = "idle"
    /\ Knows(list, a)
    /\ Begin(t, Delete(list, a), list.arr[Find(list, a)])
    /\ UNCHANGED events

\* device_service_restore_snapshot, and the service lock released.
\* Mutant: only the count is put back.
RestoredCount(t) == [list EXCEPT !.count = task[t].before.count]
Restored(t) == task[t].before

RollBack(t) ==
    /\ list' = Restored(t)
    /\ svc' = Free
    /\ task' = [task EXCEPT ![t] = AtRest]
    /\ UNCHANGED <<events, shown, missed, committed, durable>>

\* device_repository_save: dev_count first.  The mutex is kept.
SaveCount(t) ==
    /\ task[t].pc = "save_count"
    /\ repo = Free
    /\ repo' = t
    /\ nvs' = [nvs EXCEPT !.count = list.count]
    /\ task' = [task EXCEPT ![t].pc = "save_list"]
    /\ UNCHANGED <<list, svc, events, shown, missed, committed, durable, torn>>

\* The store cannot be opened or dev_count not be written.
SaveCountFails(t) ==
    /\ task[t].pc = "save_count"
    /\ repo = Free
    /\ "write" \in Fault
    /\ RollBack(t)
    /\ UNCHANGED <<nvs, repo, torn>>

\* Mutant: the edit ends without its notifications.
SaveListQuiet(t) ==
    /\ task[t].pc = "save_list"
    /\ nvs' = [nvs EXCEPT !.blob = list.arr]
    /\ repo' = Free
    /\ svc' = Free
    /\ task' = [task EXCEPT ![t] = AtRest]
    /\ committed' = list
    /\ durable' = list
    /\ torn' = FALSE
    /\ UNCHANGED <<list, events, shown, missed>>

\* dev_list is written and committed; both locks are released.
SaveList(t) ==
    /\ task[t].pc = "save_list"
    /\ nvs' = [nvs EXCEPT !.blob = list.arr]
    /\ repo' = Free
    /\ svc' = Free
    /\ task' = [task EXCEPT ![t].before = Empty, ![t].pc =
                  IF task[t].removed = Zero THEN "post_changed" ELSE "post_delete"]
    /\ committed' = list
    /\ durable' = list
    /\ torn' = FALSE
    /\ UNCHANGED <<list, events, shown, missed>>

\* dev_list is not written, or is and the commit fails: flash is not undone.
SaveListFails(t) ==
    /\ task[t].pc = "save_list"
    /\ "write" \in Fault
    /\ nvs' \in {nvs, [nvs EXCEPT !.blob = list.arr]}
    /\ repo' = Free
    /\ torn' = TRUE
    /\ RollBack(t)

(***************************************************************************)
(* The notifier: both posts are made with no lock held and do not wait, so *)
(* an event that finds the queue full is lost.                             *)
(***************************************************************************)

\* Mutant: the post waits for room.
PostWaits(e) == Room /\ events' = Append(events, e)
Post(e) == events' = IF Room THEN Append(events, e) ELSE events

PostDelete(t) ==
    /\ task[t].pc = "post_delete"
    /\ Post([type |-> "delete", addr |-> task[t].removed.addr,
             ieee |-> task[t].removed.ieee])
    /\ task' = [task EXCEPT ![t].pc = "post_changed", ![t].removed = Zero]
    /\ UNCHANGED <<list, nvs, svc, repo, shown, missed, committed, durable, torn>>

PostChanged(t) ==
    /\ task[t].pc = "post_changed"
    /\ Post([type |-> "changed"])
    /\ missed' = (missed \/ ~Room)
    /\ task' = [task EXCEPT ![t] = AtRest]
    /\ UNCHANGED <<list, nvs, svc, repo, shown, committed, durable, torn>>

\* ESP_ZB_ZDO_SIGNAL_DEVICE_ANNCE: the Zigbee task posts and does not wait.
Announce(r) ==
    /\ Post([type |-> "announce", addr |-> r[1], ieee |-> r[2]])
    /\ UNCHANGED <<list, nvs, svc, repo, task, shown, missed, committed,
                   durable, torn>>

\* The leave command goes to the stack and no state here changes.
HandleDelete ==
    /\ task[EventLoop].pc = "idle"
    /\ events # <<>>
    /\ Head(events).type = "delete"
    /\ events' = Tail(events)
    /\ UNCHANGED <<list, nvs, svc, repo, task, shown, missed, committed,
                   durable, torn>>

\* The WebSocket manager reads the list with device_service_get_snapshot.
HandleChanged ==
    /\ task[EventLoop].pc = "idle"
    /\ svc = Free
    /\ events # <<>>
    /\ Head(events).type = "changed"
    /\ events' = Tail(events)
    /\ shown' = list
    /\ missed' = FALSE
    /\ UNCHANGED <<list, nvs, svc, repo, task, committed, durable, torn>>

(***************************************************************************)
(* device_repository_clear, the devices part of a factory reset.           *)
(***************************************************************************)

\* Mutant: the erase does not take the repository mutex.
EraseCountUnlocked(t) ==
    /\ task[t].pc = "idle"
    /\ nvs' = [nvs EXCEPT !.count = Absent]
    /\ task' = [task EXCEPT ![t].pc = "erase_list"]
    /\ UNCHANGED <<list, svc, repo, events, shown, missed, committed, durable, torn>>

EraseCount(t) ==
    /\ task[t].pc = "idle"
    /\ repo = Free
    /\ repo' = t
    /\ nvs' = [nvs EXCEPT !.count = Absent]
    /\ task' = [task EXCEPT ![t].pc = "erase_list"]
    /\ UNCHANGED <<list, svc, events, shown, missed, committed, durable, torn>>

EraseList(t) ==
    /\ task[t].pc = "erase_list"
    /\ nvs' = [nvs EXCEPT !.blob = Absent]
    /\ repo' = Free
    /\ task' = [task EXCEPT ![t] = AtRest]
    /\ durable' = Empty
    /\ torn' = FALSE
    /\ UNCHANGED <<list, svc, events, shown, missed, committed>>

\* Mutant: the failing erase returns with the repository mutex held.
EraseListKeepsMutex(t) ==
    /\ task[t].pc = "erase_list"
    /\ "write" \in Fault
    /\ task' = [task EXCEPT ![t] = AtRest]
    /\ torn' = TRUE
    /\ UNCHANGED <<list, nvs, svc, repo, events, shown, missed, committed, durable>>

EraseListFails(t) ==
    /\ task[t].pc = "erase_list"
    /\ "write" \in Fault
    /\ nvs' \in {nvs, [nvs EXCEPT !.blob = Absent]}
    /\ repo' = Free
    /\ task' = [task EXCEPT ![t] = AtRest]
    /\ torn' = TRUE
    /\ UNCHANGED <<list, svc, events, shown, missed, committed, durable>>

(***************************************************************************)
(* A restart, asked for or not, and gateway_app_start up to the service's  *)
(* initialisation.  RAM is lost at any point; a restart in the middle of   *)
(* the writes of flash is the fault "power".  A key that cannot be read    *)
(* counts as absent.                                                       *)
(***************************************************************************)
Boot(l) ==
    /\ list' = l
    /\ shown' = l
    /\ committed' = l
    /\ svc' = Free
    /\ repo' = Free
    /\ task' = [t \in Task |-> AtRest]
    /\ events' = <<>>
    /\ missed' = FALSE
    /\ UNCHANGED nvs

Restart ==
    /\ repo = Free \/ "power" \in Fault
    /\ Boot(Loaded(nvs))
    /\ torn' = (torn \/ repo # Free)
    /\ UNCHANGED durable

RestartUnread ==
    /\ "read" \in Fault
    /\ repo = Free \/ "power" \in Fault
    /\ Boot(Empty)
    /\ torn' = (torn \/ repo # Free)
    /\ UNCHANGED durable

Save(t) == SaveCount(t) \/ SaveCountFails(t) \/ SaveList(t) \/ SaveListFails(t)
Tell(t) == PostDelete(t) \/ PostChanged(t)
Erase(t) == EraseList(t) \/ EraseListFails(t)
Handle == HandleAnnounce \/ HandleDelete \/ HandleChanged

Next ==
    \/ \E r \in Radio : Announce(r)
    \/ Handle
    \/ \E t \in Editor, a \in Addr : DeleteDevice(t, a)
    \/ \E t \in Editor, a \in Addr, n \in Name : RenameDevice(t, a, n)
    \/ \E t \in Task : Save(t) \/ Tell(t)
    \/ \E t \in Resetter : EraseCount(t) \/ Erase(t)
    \/ Restart
    \/ RestartUnread

Spec == Init /\ [][Next]_vars

\* A task in the middle of an operation runs on.  A mutex that is released
\* again and again goes in the end to a task that waits for it: giving it makes
\* the waiting task ready, and the others ask for it only once per request.
Fairness ==
    /\ \A t \in Task : SF_vars(Save(t)) /\ WF_vars(Tell(t))
    /\ \A t \in Resetter : WF_vars(Erase(t))
    /\ SF_vars(Handle)

FairSpec == Spec /\ Fairness

-----------------------------------------------------------------------------
(* Properties.                                                             *)

\* Every variable has its type: count never leaves the array whatever flash
\* holds (device_service.c:153, device_repository_nvs.c:74).
TypeOK ==
    /\ list \in List
    /\ nvs \in Store
    /\ svc \in Lock
    /\ repo \in Lock
    /\ task \in [Task -> Place]
    /\ events \in Seq(Event) /\ Len(events) <= QueueCap
    /\ shown \in List
    /\ missed \in BOOLEAN
    /\ committed \in List
    /\ durable \in List
    /\ torn \in BOOLEAN

\* The locks are held by the tasks that are in the steps that need them, an
\* editor keeps the list it would restore, and the first key written agrees
\* with the list that is being saved.
LockInv ==
    /\ \A t \in Task :
         /\ svc = t <=> task[t].pc \in {"save_count", "save_list"}
         /\ repo = t <=> task[t].pc \in {"save_list", "erase_list"}
    /\ \A t \in Task : task[t].pc \in {"save_count", "save_list"} =>
         task[t].before = committed
    /\ \A t \in Task : task[t].pc = "save_list" => nvs.count = list.count
    /\ \A t \in Task : task[t].pc = "erase_list" => nvs.count = Absent

\* Whenever the service lock is free the list is that of the last edit whose
\* save succeeded: no reader of device_service_get_snapshot, and no later edit,
\* sees a change that was rolled back (device_service.c:186, 244, 291).
UnsavedNeverVisible == svc = Free => list = committed

\* While no write has failed half-way, what a restart would load is exactly
\* what the last save or erase meant to leave, although edits, erases and
\* restarts interleave and each writes two keys (device_repository_nvs.c:31, 96).
DurableLoads == repo = Free /\ ~torn => Loaded(nvs) = durable

\* With working flash and no restart inside a write, no address is listed twice
\* and no zeroed record, or record left behind count, comes into the list.
ListWellFormed ==
    /\ Distinct(list)
    /\ \A k \in 1 .. list.count : list.arr[k] # Zero

\* When every task and the event queue are at rest, the web clients were sent
\* the current list, unless the last change's event was dropped by a full queue:
\* the post comes after the list is final (device_service.c:202, 250, 298).
ShownIsCurrent ==
    (events = <<>> /\ \A t \in Task : task[t].pc = "idle") =>
        (missed \/ shown = list)

\* Only a restart, with flash that faults have damaged, can bring an address
\* into the list twice: no completed edit does (device_service_rules.c:23).
EditsKeepDistinct ==
    [][~Restart /\ Distinct(committed) => Distinct(committed')]_vars

\* A restart brings back the list of the last completed edit, or the one being
\* saved when it struck: README.md:10, "the list of connected devices is saved
\* in NVS".
ListSurvivesRestart == [][Restart => list' \in {committed, list}]_vars

\* Every operation that was begun ends, also when writes fail: no lock is left
\* held and no two tasks wait for each other (device_service.c:173-202).
OperationsEnd ==
    \A t \in Task : (task[t].pc # "idle") ~> (task[t].pc = "idle")

\* A full event queue does not stay full, although the task that empties it
\* takes the service lock and posts to the queue itself
\* (gateway_app_bootstrap.c:65, gateway_app_runtime.c:43).
QueueMoves == (Len(events) = QueueCap) ~> (Len(events) < QueueCap)

-----------------------------------------------------------------------------
(* The service implements DeviceRegistry: the table is the list of the last *)
(* completed edit, the saved copy what the last write of flash stored, and  *)
(* a device is leaving until its delete request is posted.                  *)
Leaving == {<<task[t].removed.addr, task[t].removed.ieee>> :
               t \in {u \in Task : task[u].pc = "post_delete"}}

Registry == INSTANCE DeviceRegistry WITH
                devices <- AsMap(committed), saved <- AsMap(durable),
                leaving <- Leaving

\* With working flash and no restart inside a write, the edits of all tasks, the
\* factory resets and the restarts are atomic operations on a saved table.
ImplementsRegistry == Registry!Spec
=============================================================================
