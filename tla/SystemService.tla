--------------------------- MODULE SystemService ---------------------------
(***************************************************************************)
(* Wi-Fi credentials, factory reset and reboot: system_service.c and       *)
(* config_service.c over config_repository_nvs.c, called by the HTTP       *)
(* server and by the job worker at the same time.                          *)
(*                                                                         *)
(* The steps are what another task, or the restart of the chip, can come   *)
(* between: each key written or erased under the configuration mutex, each *)
(* part of a factory reset, each field of the report (a global that no     *)
(* lock guards), each section of the reboot mutex, and the creation of the *)
(* reboot task between two of them.                                        *)
(***************************************************************************)
EXTENDS Naturals

CONSTANTS
    Web,            \* the HTTP server: saves, resets and reboots
    Job,            \* the job worker: resets and reboots
    Ssid, Password, \* names and passwords that validation accepts
    LongSsid,       \* those of exactly GATEWAY_WIFI_SSID_MAX_LEN characters
    LongPassword,   \* those of exactly GATEWAY_WIFI_PASSWORD_MAX_LEN characters
    Default,        \* the credentials compiled into the program
    Absent,         \* a key that flash does not hold
    Unset,          \* no credentials in an operation
    MissingPart,    \* the Zigbee partitions the partition table does not have
    Fault           \* what may go wrong: "write", "task" and "power"

Task == Web \cup Job
Free == "free"
Pair == [ssid : Ssid, password : Password]
Part == 1 .. 4      \* wifi, devices, zigbee_storage and zigbee_fct

ASSUME SystemAssumption ==
    /\ Free \notin Task
    /\ LongSsid \subseteq Ssid /\ LongPassword \subseteq Password
    /\ Default \notin Pair
    /\ Absent \notin Ssid \cup Password
    /\ Unset \notin Pair
    /\ MissingPart \subseteq {3, 4}
    /\ Fault \subseteq {"write", "task", "power"}

VARIABLES
    nvs,          \* the keys wifi_ssid and wifi_pass
    cfg,          \* holder of the configuration mutex
    report,       \* s_last_factory_reset_report
    scheduled,    \* reboot_scheduled
    count,        \* reboot_schedule_count
    reboot_tasks, \* tasks in reboot_task
    task,         \* each task's place in an operation
    using,        \* the credentials the Wi-Fi station started with
    kept,         \* history: what the last complete save or erase left
    torn,         \* history: a save or an erase ended half-way since
    promised      \* history: a caller was told that the gateway will restart

vars == <<nvs, cfg, report, scheduled, count, reboot_tasks, task, using, kept,
          torn, promised>>

Status  == {"OK", "FAIL", "NOT_FOUND", "INVALID_STATE"}
Report  == [Part -> Status]
NoReset == [p \in Part |-> "INVALID_STATE"]
Store   == [ssid : Ssid \cup {Absent}, password : Password \cup {Absent}]
Pc      == {"idle", "save_pass", "erase_pass", "clear", "store", "schedule",
            "create", "undo", "count", "read", "answer"}
Op      == {"none", "save", "reset", "reboot"}
Place   == [pc : Pc, op : Op, pair : Pair \cup {Unset}, part : Part,
            status : Report, told : Report]
AtRest  == [pc |-> "idle", op |-> "none", pair |-> Unset, part |-> 1,
            status |-> NoReset, told |-> NoReset]

\* Mutant: a name without a password is enough.
LoadedByName(store) == IF store.ssid \in Ssid \ LongSsid THEN store ELSE Default

\* config_service_load_wifi_credentials as load_wifi_credentials calls it: the
\* buffers are the fields of wifi_config_t, which hold no terminator after a
\* string of the full length, so that nvs_get_str refuses it.
Loaded(store) ==
    IF /\ store.ssid \in Ssid \ LongSsid
       /\ store.password \in Password \ LongPassword
    THEN store
    ELSE Default

Init ==
    /\ nvs = [ssid |-> Absent, password |-> Absent]
    /\ cfg = Free
    /\ report = NoReset
    /\ scheduled = FALSE
    /\ count = 0
    /\ reboot_tasks = 0
    /\ task = [t \in Task |-> AtRest]
    /\ using = Default
    /\ kept = Default
    /\ torn = FALSE
    /\ promised = FALSE

RebootState == <<scheduled, count, reboot_tasks, promised>>

At(t, pc) == task[t].pc = pc
Goto(t, pc) == task' = [task EXCEPT ![t].pc = pc]

(***************************************************************************)
(* api_usecase_wifi_save: config_repository_save_wifi_credentials, then a  *)
(* reboot.  A first write that fails changes nothing.                      *)
(***************************************************************************)
SaveSsid(t, c) ==
    /\ At(t, "idle")
    /\ cfg = Free
    /\ cfg' = t
    /\ nvs' = [nvs EXCEPT !.ssid = c.ssid]
    /\ task' = [task EXCEPT ![t] =
                  [AtRest EXCEPT !.pc = "save_pass", !.op = "save", !.pair = c]]
    /\ UNCHANGED <<report, using, kept, torn, RebootState>>

SavePassword(t) ==
    /\ At(t, "save_pass")
    /\ nvs' = [nvs EXCEPT !.password = task[t].pair.password]
    /\ cfg' = Free
    /\ kept' = task[t].pair
    /\ torn' = FALSE
    /\ task' = [task EXCEPT ![t].pc = "schedule", ![t].pair = Unset]
    /\ UNCHANGED <<report, using, RebootState>>

\* wifi_pass is not written, or is and the commit fails: nothing is undone.
SavePasswordFails(t) ==
    /\ At(t, "save_pass")
    /\ "write" \in Fault
    /\ nvs' \in {nvs, [nvs EXCEPT !.password = task[t].pair.password]}
    /\ cfg' = Free
    /\ torn' = TRUE
    /\ task' = [task EXCEPT ![t] = AtRest]
    /\ UNCHANGED <<report, using, kept, RebootState>>

(***************************************************************************)
(* config_service_factory_reset: the four parts one after the other,       *)
(* whatever became of the part before, and then the report.                *)
(***************************************************************************)

\* Mutant: the erase does not take the configuration mutex.
EraseSsidUnlocked(t) ==
    /\ At(t, "idle")
    /\ nvs' = [nvs EXCEPT !.ssid = Absent]
    /\ task' = [task EXCEPT ![t] =
                  [AtRest EXCEPT !.pc = "erase_pass", !.op = "reset"]]
    /\ UNCHANGED <<cfg, report, using, kept, torn, RebootState>>

EraseSsid(t) ==
    /\ At(t, "idle")
    /\ cfg = Free
    /\ cfg' = t
    /\ nvs' = [nvs EXCEPT !.ssid = Absent]
    /\ task' = [task EXCEPT ![t] =
                  [AtRest EXCEPT !.pc = "erase_pass", !.op = "reset"]]
    /\ UNCHANGED <<report, using, kept, torn, RebootState>>

WifiDone(t, s) == [task[t] EXCEPT !.pc = "clear", !.part = 2, !.op = "reset",
                                  !.status[1] = s]

EraseSsidFails(t) ==
    /\ At(t, "idle")
    /\ cfg = Free
    /\ "write" \in Fault
    /\ task' = [task EXCEPT ![t] = WifiDone(t, "FAIL")]
    /\ UNCHANGED <<nvs, cfg, report, using, kept, torn, RebootState>>

ErasePassword(t) ==
    /\ At(t, "erase_pass")
    /\ nvs' = [nvs EXCEPT !.password = Absent]
    /\ cfg' = Free
    /\ kept' = Default
    /\ torn' = FALSE
    /\ task' = [task EXCEPT ![t] = WifiDone(t, "OK")]
    /\ UNCHANGED <<report, using, RebootState>>

ErasePasswordFails(t) ==
    /\ At(t, "erase_pass")
    /\ "write" \in Fault
    /\ nvs' \in {nvs, [nvs EXCEPT !.password = Absent]}
    /\ cfg' = Free
    /\ torn' = TRUE
    /\ task' = [task EXCEPT ![t] = WifiDone(t, "FAIL")]
    /\ UNCHANGED <<report, using, kept, RebootState>>

\* What erasing the devices' keys or a Zigbee partition can return.
Outcome(p) ==
    IF p \in MissingPart THEN {"NOT_FOUND"}
    ELSE {"OK"} \cup (IF "write" \in Fault THEN {"FAIL"} ELSE {})

ClearPart(t) ==
    /\ At(t, "clear")
    /\ \E s \in Outcome(task[t].part) :
         task' = [task EXCEPT
                    ![t].status[task[t].part] = s,
                    ![t].part = IF @ = 4 THEN 1 ELSE @ + 1,
                    ![t].pc = IF task[t].part = 4 THEN "store" ELSE @]
    /\ UNCHANGED <<nvs, cfg, report, using, kept, torn, RebootState>>

Succeeded(s) ==
    /\ \A p \in {1, 2} : s[p] = "OK"
    /\ \A p \in {3, 4} : s[p] \in {"OK", "NOT_FOUND"}

\* Where a reset goes from its last field: the HTTP server schedules the reboot
\* (system_service_factory_reset_and_reboot), the job worker does not.
\* Mutant: the HTTP server does not either.
AfterResetNoReboot(t) ==
    IF Succeeded(task[t].status) THEN [task[t] EXCEPT !.pc = "read", !.part = 1]
    ELSE AtRest
AfterReset(t) ==
    IF ~Succeeded(task[t].status) THEN AtRest
    ELSE IF t \in Web THEN [task[t] EXCEPT !.pc = "schedule", !.part = 1]
    ELSE [task[t] EXCEPT !.pc = "read", !.part = 1]

Following(t) == [task[t] EXCEPT !.part = @ + 1]

StoreReport(t) ==
    /\ At(t, "store")
    /\ LET p == task[t].part
       IN  /\ report' = [report EXCEPT ![p] = task[t].status[p]]
           /\ task' = [task EXCEPT ![t] = IF p = 4 THEN AfterReset(t)
                                                   ELSE Following(t)]
    /\ UNCHANGED <<nvs, cfg, using, kept, torn, RebootState>>

\* config_service_get_last_factory_reset_report and the answer or job result.
ReadReport(t) ==
    /\ At(t, "read")
    /\ LET p == task[t].part
       IN  task' = [task EXCEPT
                      ![t].told[p] = report[p],
                      ![t].part = IF p = 4 THEN 1 ELSE p + 1,
                      ![t].pc = IF p = 4 THEN "answer" ELSE @]
    /\ UNCHANGED <<nvs, cfg, report, using, kept, torn, RebootState>>

Answer(t) ==
    /\ At(t, "answer")
    /\ task' = [task EXCEPT ![t] = AtRest]
    /\ UNCHANGED <<nvs, cfg, report, using, kept, torn, RebootState>>

(***************************************************************************)
(* system_service_schedule_reboot, and the reboot task.                    *)
(***************************************************************************)
RequestReboot(t) ==
    /\ At(t, "idle")
    /\ task' = [task EXCEPT ![t].pc = "schedule", ![t].op = "reboot"]
    /\ UNCHANGED <<nvs, cfg, report, using, kept, torn, RebootState>>

\* ESP_OK is returned: a reset goes on to its report, the others are answered.
ToldOk(t) ==
    /\ promised' = TRUE
    /\ task' = [task EXCEPT ![t] = IF task[t].op = "reset"
                                   THEN [task[t] EXCEPT !.pc = "read"] ELSE AtRest]

ScheduleTwice(t) ==
    /\ At(t, "schedule")
    /\ scheduled
    /\ ToldOk(t)
    /\ UNCHANGED <<nvs, cfg, report, scheduled, count, reboot_tasks, using, kept, torn>>

\* Mutant: the flag is not looked at before it is set.
ScheduleUnchecked(t) ==
    /\ At(t, "schedule")
    /\ scheduled' = TRUE
    /\ Goto(t, "create")
    /\ UNCHANGED <<nvs, cfg, report, count, reboot_tasks, using, kept, torn, promised>>

ScheduleFirst(t) ==
    /\ At(t, "schedule")
    /\ ~scheduled
    /\ scheduled' = TRUE
    /\ Goto(t, "create")
    /\ UNCHANGED <<nvs, cfg, report, count, reboot_tasks, using, kept, torn, promised>>

\* Mutant: the task is not started.
CreateNothing(t) ==
    /\ At(t, "create")
    /\ Goto(t, "count")
    /\ UNCHANGED <<nvs, cfg, report, scheduled, count, reboot_tasks, using,
                   kept, torn, promised>>

CreateTask(t) ==
    /\ At(t, "create")
    /\ reboot_tasks' = reboot_tasks + 1
    /\ Goto(t, "count")
    /\ UNCHANGED <<nvs, cfg, report, scheduled, count, using, kept, torn, promised>>

CreateTaskFails(t) ==
    /\ At(t, "create")
    /\ "task" \in Fault
    /\ Goto(t, "undo")
    /\ UNCHANGED <<nvs, cfg, report, using, kept, torn, RebootState>>

UndoSchedule(t) ==
    /\ At(t, "undo")
    /\ scheduled' = FALSE
    /\ task' = [task EXCEPT ![t] = AtRest]
    /\ UNCHANGED <<nvs, cfg, report, count, reboot_tasks, using, kept, torn, promised>>

CountReboot(t) ==
    /\ At(t, "count")
    /\ count' = count + 1
    /\ ToldOk(t)
    /\ UNCHANGED <<nvs, cfg, report, scheduled, reboot_tasks, using, kept, torn>>

\* esp_restart by the reboot task, or the loss of power: RAM is lost and the
\* Wi-Fi station starts with what flash holds.
Restart ==
    /\ reboot_tasks > 0 \/ "power" \in Fault
    /\ using' = Loaded(nvs)
    /\ torn' = (torn \/ cfg # Free)
    /\ cfg' = Free
    /\ report' = NoReset
    /\ scheduled' = FALSE
    /\ count' = 0
    /\ reboot_tasks' = 0
    /\ task' = [t \in Task |-> AtRest]
    /\ promised' = FALSE
    /\ UNCHANGED <<nvs, kept>>

Save(t)     == SavePassword(t) \/ SavePasswordFails(t)
BeginReset(t) == EraseSsid(t) \/ EraseSsidFails(t)
Reset(t)    == ErasePassword(t) \/ ErasePasswordFails(t) \/ ClearPart(t)
                 \/ StoreReport(t) \/ ReadReport(t) \/ Answer(t)
Schedule(t) == ScheduleTwice(t) \/ ScheduleFirst(t) \/ CreateTask(t)
                 \/ CreateTaskFails(t) \/ UndoSchedule(t) \/ CountReboot(t)

Next ==
    \/ \E t \in Web, c \in Pair : SaveSsid(t, c)
    \/ \E t \in Task : RequestReboot(t) \/ BeginReset(t)
    \/ \E t \in Task : Save(t) \/ Reset(t) \/ Schedule(t)
    \/ Restart

Spec == Init /\ [][Next]_vars

\* No step of an operation that has begun waits for another task, so the
\* scheduler lets it go on; vTaskDelay ends and the reboot task restarts.
Fairness ==
    /\ \A t \in Task : WF_vars(Save(t) \/ Reset(t) \/ Schedule(t))
    /\ WF_vars(reboot_tasks > 0 /\ Restart)

FairSpec == Spec /\ Fairness

-----------------------------------------------------------------------------
(* Properties.                                                             *)

\* Every variable has its type: the station starts with two accepted strings or
\* with the default, whatever keys a torn save or erase left
\* (config_repository_nvs.c:73).
TypeOK ==
    /\ nvs \in Store
    /\ cfg \in Task \cup {Free}
    /\ report \in Report
    /\ scheduled \in BOOLEAN
    /\ count \in Nat
    /\ reboot_tasks \in Nat
    /\ task \in [Task -> Place]
    /\ using \in Pair \cup {Default}
    /\ kept \in Pair \cup {Default}
    /\ torn \in BOOLEAN
    /\ promised \in BOOLEAN

\* A task that set the flag and whose call to xTaskCreate is not accounted for.
Creating(t) == task[t].pc \in {"create", "undo"}

\* The flag is set exactly while one reboot is on its way: one caller is about
\* to create the task, or the task exists.  So two requests never start two
\* reboots, and a failed creation leaves room for the next request
\* (system_service.c:93-112).
OneReboot ==
    /\ reboot_tasks <= 1
    /\ scheduled <=> (reboot_tasks = 1 \/ \E t \in Task : Creating(t))
    /\ \A t, u \in Task : Creating(t) /\ Creating(u) => t = u
    /\ \A t \in Task : Creating(t) => reboot_tasks = 0

\* What a restart makes of credentials that were saved: names and passwords of
\* the longest length that validation accepts (config_service.c:92-95) are lost,
\* and the default stands in for the pair (wifi_sta.c:89).
TooLong(c)  == c \in Pair /\ (c.ssid \in LongSsid \/ c.password \in LongPassword)
Outlives(c) == IF TooLong(c) THEN Default ELSE c

\* A restart starts the station with the credentials of the last save or erase
\* that completed, with two exceptions.  A pair with a name of 32 or a password
\* of 64 characters, which was accepted and answered as saved, does not come
\* back: the default is used, against SMOKE_TEST.md:61 (Wi-Fi settings are
\* written to NVS and read back).  And nothing is said while a save or an erase
\* is between its two keys, or ended there and none has completed since: its
\* name may then be paired with another's password.
SavedCredentialsUsed ==
    [][Restart /\ cfg = Free /\ ~torn => using' = Outlives(kept)]_vars

\* While reboot tasks can be created, a factory reset that the HTTP server
\* answers as done leaves a reboot on its way, also when the job worker resets or
\* reboots at the same time (api_handlers.c:206, job_queue_json.c:69).
ResetSchedulesReboot == \A t \in Web : At(t, "answer") => scheduled

\* A caller was told ESP_OK only when a reboot is under way: the log says
\* "Reboot already scheduled" (system_service.c:96).
PromiseKept ==
    promised => reboot_tasks > 0 \/ \E t \in Task : Creating(t)

\* A restart that a caller was promised comes, whoever asked first and however
\* the requests overlap (api_handlers.c:187, 206, 232).
RebootComes == promised ~> ~promised
=============================================================================
