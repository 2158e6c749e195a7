# Verification of the Zigbee gateway

TLA+ models, TLC runs and TLAPS proofs for the ESP32-C6 Zigbee/Wi-Fi gateway.
Paths without a directory prefix are under `src/components/`.

- [The system](#the-system)
- [Modules](#modules)
- [Runs](#runs)
- [Proofs](#proofs)
- [Disagreements found](#disagreements-found)
- [Assumptions](#assumptions)
- [What is not modelled](#what-is-not-modelled)
- [Plan](#plan)
- [Running](#running)

## The system

One chip with one high-performance core runs FreeRTOS.  Four kinds of task
enter the program's logic at the same time: the HTTP server task (REST handlers
and WebSocket), the job worker `zgw_jobs`, the default event loop and the task
of the Zigbee stack.  The main task at start-up, short-lived reboot tasks and
the `esp_timer` task join them.  The tasks share state under FreeRTOS mutexes
and one spin lock, and talk through a queue of job ids and the event loop's
queue.  NVS flash is the only state that survives a restart.

| Component | State it keeps | Operations | Talks to | Module |
|---|---|---|---|---|
| Job queue (`gateway_core_jobs`) | slot table, `next_id`, id queue, counters | submit, get, get_metrics, the worker's execute_job | HTTP server calls it; the worker calls Wi-Fi, Zigbee and system services; posts LQI_STATE_CHANGED | `JobQueue` |
| Device service and repository (`gateway_core/src/device_service*.c`, `device_repository_nvs.c`) | device list in RAM; keys `dev_count` and `dev_list`; service lock; repository mutex | init, add_with_ieee, update_name, delete, get_snapshot; save, load, clear | event loop adds announced devices; HTTP renames and deletes; posts DEVICE_LIST_CHANGED and DEVICE_DELETE_REQUEST | `DeviceService` |
| System service, configuration service and repository (`gateway_core_system`, `config_service.c`, `config_repository_nvs.c`) | keys `wifi_ssid` and `wifi_pass`; last reset report (a global); reboot flag and counter | save and load credentials, factory reset in four parts, get report, schedule reboot | HTTP and the job worker call it; clears the device repository and the Zigbee partitions; starts the reboot task | `SystemService` |
| WebSocket broadcast (`gateway_web_ws`) | client sockets, frame buffer, last payloads and send times, two mutexes, two timers | connect, close, broadcast, debounce and periodic timer | reads devices, health and LQI; called by event loop, HTTP and timers | `WsManager` |
| Zigbee service and LQI cache (`gateway_core_zigbee`, `gateway_core_state`) | the request's context on the worker's stack; the cache of link qualities | refresh over MGMT_LQI pages with a callback, scans of the neighbour table | the job worker and payload builders call it; the stack answers it | `ZigbeeLqi` |
| Wi-Fi (`gateway_net`, `gateway_core_wifi`) | retry count, two flags, event group, handlers | connect and wait, fall back to an access point, scan | event loop calls the handlers; loads the saved credentials | `WifiStation` |
| Bootstrap and Zigbee runtime (`gateway_app`) | services and the handles they were given; stack state of the vendor's library; schema version | start and roll-back of a failed start; form, steer, retry; announce, leave | everything above | `GatewayStart` |
| Web API, facades, JSON builders (`gateway_web_api`, `gateway_web_static`) | error ring | parse a request, call services, build and send the answer | every component above | `WebApi` |

What is hard here, and which property is about it:

- **Interleavings between two critical sections of one operation.**  A job id is
  sent to the worker after the mutex was released; the worker runs a job between
  two sections; a list change is saved, unlocked and only then announced; the
  reboot flag is set, the task created and the counter raised in three sections;
  three writers fill one cache entry by entry; two tasks publish copies of one
  context.  (`AcceptedNotLost`, `ShownIsCurrent`, `OneReboot`,
  `OneEntryPerDevice`, `PublishedIsCurrent`.)
- **Tables at their limit.**  A full slot table evicts a completed job and never
  a live one; a full cache or list refuses; a full event queue drops; a ring
  wraps; a page outgrows its buffer.  (`ResultKept`, `RefreshIsVisible`,
  `ShownIsCurrent`, `QueueMoves`, `NewestErrorsShown`, `ListAlwaysServed`.)
- **Half an operation.**  Devices and credentials are two NVS keys each, an
  API request is several calls, the start is many; a failure or a restart may
  come between.  (`UnsavedNeverVisible`, `DurableLoads`, `SavedCredentialsUsed`,
  `AnswerIsTrue`, `NoDanglingLink`, `ListSurvivesRestart`.)
- **Answers that come late.**  A time-out races with the answer of the stack, and
  with the driver's events.  (`RefreshIsVisible`, `FallbackIsExclusive`.)
- **A factory reset beside everything else**, with the repository mutex but not
  the service lock, from two tasks.  (`DurableLoads`, `ResetSchedulesReboot`,
  `NetworkIsKept`.)
- **Waiting in a circle.**  The event loop is the only reader of a queue it
  posts to, and takes the lock that other posters hold.  (`QueueMoves`,
  `OperationsEnd`.)
- **What must happen in the end.**  An accepted job completes; a promised reboot
  comes; a refresh ends; clients hear the newest list; the start ends in a
  gateway that serves.  (`AcceptedCompletes`, `RebootComes`, `RefreshEnds`,
  `NewestReachesClient`, `GatewayServes`.)

`PROJECT.json` lists every hazard at its line.

## Modules

| Module | Role |
|---|---|
| `JobQueue` | the job queue in detail: one action per critical section |
| `JobService` | what a client is promised: a single-flight service of jobs, no slots, queue or mutex |
| `DeviceRules` | the pure functions on the device list (`device_service_rules.c`): find, upsert, rename, delete |
| `DeviceService` | the list in RAM, the two keys, locks, event queue, factory reset and restarts |
| `DeviceRegistry` | what it promises while flash works: an atomic table, its saved copy, and leave requests only for what was removed |
| `SystemService` | credentials, factory reset, report, reboot scheduling and restart |
| `WsManager` | connections, the tried broadcast lock, rate limits and the two timers |
| `ZigbeeLqi` | the LQI cache and its three writers, with late answers |
| `WifiStation` | the station, the fallback access point and the scan |
| `GatewayStart` | the start of the whole gateway, with `WifiStation` inside, and the commissioning of the Zigbee network |
| `WebApi` | requests and answers of the HTTP API, sizes of pages, the error ring |
| `MC*` | instances for TLC |
| `*Proofs` | the theorems of the module they are named after |

`DeviceService` EXTENDS `DeviceRules`; `GatewayStart` EXTENDS `WifiStation` and
is the composition of the two; `JobQueue` and `DeviceService` INSTANCE their
abstract specification with a refinement mapping.  A definition whose comment
says "Mutant" is a plausible bug: it stands before the definition it would
replace and no specification uses it.

### JobQueue

`jobs`, `next_id`, `job_q` and `metrics` are the fields of the handle; `client`
and `worker` say where a task is inside `job_queue_submit` and `execute_job`;
`now` is the millisecond clock.  `accepted` and `finished` are history: which
ids a client was told ESP_OK for and which the worker completed.

| Action | Code |
|---|---|
| `Submit(c, r)` | the first critical section: prune by TTL, join a job in flight, or allocate (a free slot, else the oldest completed), fill, raise counters |
| `SubmitSend(c)` | `xQueueSend` after the mutex was given, and the roll-back when it fails |
| `GetMetrics` | prune and read the counters |
| `Worker` | receive an id; begin (queued to running); finish with either outcome; post the LQI event |
| `LqiEventDelivered`, `Tick` | the event loop takes the event; time passes |

`job_queue_get` changes no state; it is the operator `JobGet`, which
`AcceptedNotLost` asks.  What a job does is its outcome: success or failure.

### DeviceService

`list` is `devices[]` with `device_count`, its unused records included, because
the whole array goes to flash.  `svc` and `repo` are the holders of the service
lock and of the repository mutex.  An edit is `Begin` (RAM changed under the
lock), the write of `dev_count`, the write of `dev_list` (or the roll-back), and
the posts with no lock held.  A factory reset erases two keys in two steps.
`Restart` may strike anywhere when `Fault` has "power", and otherwise only
outside the two-key writes; `RestartUnread` boots with flash that cannot be
read.  `shown` is the list that the event handler last read for the web
clients.  `committed`, `durable`, `missed` and `torn` are history.

### SystemService

`nvs` holds the two credential keys, `cfg` the holder of the configuration
mutex, `report` the global of the last factory reset, `scheduled`, `count` and
`reboot_tasks` the reboot state.  A save is two key writes; a factory reset is
two key erases, three further parts, one store per field of the report, and
then its caller's use of the report: the HTTP server schedules a reboot
(`system_service_factory_reset_and_reboot`), the job worker does not.
Scheduling is test-and-set, creation of the task outside the mutex, and the
counter, or the taking back of the flag.  `using` is what the Wi-Fi station
started with; `kept`, `torn` and `promised` are history.

### WsManager

`clients` is `ws_fds` without its empty slots, `open` the server's live
connections, `lock` the holder of `ws_broadcast_mutex`, `place` where each of the
three tasks is.  `frame` is `ws_frame_buf`, which all broadcasts share, and
`place[t].own` what task t believes is in it.  `age` is the time since each
stream's last frame; it saturates at the longest interval it is compared with.
`seen` is history: the newest payload each client was sent.

| Action | Code |
|---|---|
| `Connect`, `Reject`, `StartPeriodic` | `ws_handler_with_handle` |
| `Remove`, `RemoveOnCloseFrame`, `CountClients`, `StopPeriodic`, `CloseSocket` | the end of a session and the CLOSE frame |
| `Change`, `HandleEvent` | an event of a changed list or link quality, which a full queue drops |
| `Skip` ... `Unlock` | `ws_broadcast_status_with_handle` from the try of the lock to its release |
| `DebounceFires`, `PeriodicFires`, `Tick` | the timers and time |

The connection's and the session's end both run on the one HTTP task, so the
count that stops the timer cannot be overtaken by a connection, although it is
used after its lock: `TimerRunsForClients` and the theorem `TimerRuns` say so.  A CLOSE frame leaves its socket
to be ended later, as a failed send does.

### ZigbeeLqi

`cache` is `lqi_cache`, `worker` the refresh with its context (`lqi_req_ctx_t`),
`scan` what each of the other two writers still has to write, `pending` the
request the stack has not answered and `late` those whose context is gone.  A
late answer writes to memory in no use, into the context of the next refresh in
the same stack frame, or makes the gateway restart: those are the outcomes of a
write to a dead stack frame.  Of a measurement its source is kept and, of its
time, whether the refresh under way had begun.

### WifiStation and GatewayStart

`step` is where the main task is in `wifi_init_sta_and_wait`; `ctx` and `wifi` are
`wifi_runtime_ctx_t` and its published copy, `copy` a copy on its way: copying and
storing are two steps of each task.  `handling` is the event whose handler runs on
the event loop; unregistering waits for it.  The driver is external: it posts one
event for the end of each attempt or link.

`boot` is where the main task is in `gateway_app_start`.  `live` and `links` are
the services that exist and the handles they were given, created and destroyed
in the order of the code; `flash` holds the schema version and the Zigbee
network; `stack` and `network` are the stack and what is published of it.  A
failed ESP_ERROR_CHECK is `Reset`, as is a restart at any time.  `FaultBound`
bounds failing calls, restarts and factory resets together.

### WebApi

A request has a kind, arguments and a body that may not fit or be cut; the HTTP
task parses and checks it, makes its calls in order (`Calls`), builds a page in
at most four buffers, and sends the answer chunk by chunk (`wire`), any of which
may fail.  JSON has fractions, so a number of a request is counted in tenths:
`valueint` is the int that cJSON makes of it, which cuts the fraction, `Parsed`
what the checks see and `Kept` what remains in the C type.  A text is its length.
The size of a page counts every number at its longest and
every name of a list at one length.  `done` records what the services were told
to do.  The error ring is `slots`, `head`, `count` and the spin lock `holder`,
with three writers; an entry is its number in the order of storing.

## Runs

All passing runs check for deadlock too, except `gateway_start`, where a gateway
that serves with nothing left to happen has stopped legally.

| Run | Question and bounds |
|---|---|
| `job_queue` | Two clients and the fair worker, two slots, a TTL of two ticks, three submissions, one reuse, three kinds of job: a full table, eviction of the older of two results, expiry during a run, refusal with both slots live, reuse of a job in all three of its places, the single-flight rule between two reboots. Every accepted job completes, and the queue implements `JobService`, its fairness included. |
| `device_service` | No faults, restarts outside the two-key writes, two addresses, two names, a list of two, a queue of one: the list has no doubles, the clients see the newest, and the steps implement `DeviceRegistry`. A queue of one makes the drop of an event common. |
| `device_faults` | Writes fail, keys are unreadable, restarts strike inside a write: types, roll-back, what flash loads. |
| `device_live` | Operations end and the full event queue moves, with failing writes, three announcements over two addresses and a list of one, so that it is also full. |
| `device_power` (violation) | Does the list survive a restart inside a save? |
| `system_service` | Every fault, HTTP server and worker together: types, one reboot, credentials. Two names and two passwords, which a torn pair needs, and one of each of the longest length, which is accepted and then lost; symmetric in the names and the passwords that come back. |
| `system_reboot` | Two tasks ask for reboots and resets, parts of which fail; creating the task works: a reset by the HTTP server has its reboot on the way, and the restart comes. |
| `websocket` | Two sockets and one slot, two lists, every interval of one tick, an event queue of one. One slot gives refusals and a client that takes another's place; intervals of one tick give the three cases of too soon, duplicate and due. Larger tables are covered by the proofs. |
| `lqi` | Three devices for a cache of two, pages of one, two pages: the cache is full with a device left over, the second page repeats or goes on, and three writers interleave. Symmetric in the addresses. |
| `lqi_live` | Two devices; the stack need not answer and pages may bring no progress. |
| `gateway_start` | Every stored schema version, two networks, two retries, three faults: a failing start is rolled back and tried again, and one more fault may come in the second start. |
| `web` | Every route, the values at the limits of every field, fractions next to them, no device, the default number with plain names and with names of control characters, and the most devices that a build may allow; a ring of three that five errors wrap, two of which are shown. |

**Bounds.**  `SubmitBound`, `ReuseBound` and `MaxClock` cap the counters of
`JobQueue`; the wrap of `next_id` past `IdMax` is reached by the last
submission, but ids are not issued twice: that takes 2^32 submissions.
In `lqi` the index of a page, which is kept modulo 256 as in the code, does not
wrap: pages that bring 256 entries have filled the result buffer of at most 64
before, which ends the loop.  `EventBound` is the length of the event queue as
the broadcaster sees it.
`MaxTable` and `MaxScan` bound what the stack may answer; `ErrorBound` and
`RowBound` what a run of the web server may store and list.  The other modules
need no bound: their states are finite.  Two clients of the job queue are more
than the product has (one HTTP server task submits), so the run also covers the
interleavings that a second one would bring.

**Fairness.**  The HTTP server, worker, Zigbee and reboot tasks run at the same
priority 5 on one core with time slicing, and no task loops without blocking, so
a task in the middle of an operation is scheduled again: weak fairness of its
next step.  (The one exception, the spin lock of the error ring, is in a module
without liveness.)  A step that takes a mutex has strong fairness in
`DeviceService`, and unregistering a handler, which waits for the loop's mutex,
in `GatewayStart`: giving a FreeRTOS mutex makes the longest waiter of the
highest priority ready, while each other task asks for it once per request.  A
job's execution is assumed to return: every call it makes has a time-out, and
`RefreshEnds` shows it of the longest one, for which only the worker is fair and
the stack need not answer.  In `WsManager` the clock is fair as well: timers are
what the property is about.  In `GatewayStart` the main task, the event loop and
the Zigbee task are; the access point and the driver are not, and failures are
finitely many by `FaultBound`: a call that fails for ever restarts the gateway
for ever.  Nothing is assumed of clients, announcements or changes.

**Mutants.**  Each property of a passing run is paired in `PROJECT.json` with a
change of a modelled definition under which TLC finds it violated.

## Proofs

TLAPS checks the following for every value of the constants that the modules'
assumptions allow: any number of tasks, slots, devices, names, sockets and
addresses.

**Job queue.**  `IInv` is the inductive invariant: types; ids in use were issued
and are below `next_id`; one slot per id; each id on its way is in exactly one
hand (a client about to send, the queue, the worker) and belongs to a queued
slot; a live slot is in some hand; history agrees with the table.  The
properties alone are not inductive: that a queued job is not stranded depends on
nobody reusing its id, and that depends on ids being below `next_id`.
From it follow `SendAlwaysFits` (ids in hands are distinct queued slots, so
there are never more than `JobMax`: the roll-back of a failed send is dead
code), `NothingStranded`, `SingleFlightHolds` and `AcceptedStaysPollable`.
The lemma `TableStep` names the five things a step can do to the table: nothing,
a prune, a new job, a start, a completion; the roll-back is not among them.
`JobsRunOnce`, `MetricsAlwaysBalance` (the number of live slots and the counters
move together) and `ResultsStay` follow case by case.
`ImplementsJobService` maps the table to the jobs of `JobService`, initial state
to initial state and each step to a step of it or a stutter.  The hard ones are
the submission, which may prune, reuse an id or evict and still is one step of
the promise, and the two sections of the worker, for which no other job runs.

**Device service.**  `TypeOK` is inductive by itself, for any content of flash.
`SafeInv` joins `LockInv`, `UnsavedNeverVisible` and `DurableLoads`; the last two
need to know which step the holder of each lock is in and that the list an
editor would restore is the committed one.  `EditsKeepAddressesDistinct` adds
that the committed list is distinct unless damaged flash was loaded.
`ClientsSeeCurrentList` rests on `NewsInv`: whenever the clients are behind the
last completed edit, somebody has yet to post, the event is in the queue, or one
was dropped.
`WorkingFlashKeepsListWellFormed` rests on `FlashInv`: no write tore, and the
list in RAM, the one an editor would restore and the one in flash have neither
doubles nor zeroed records.  It assumes that writes work and that no restart
strikes inside one; keys that cannot be read are allowed.
`ServiceImplementsRegistry` takes the committed list for the registry's table and
adds `PendingInv`: the list of an edit under way differs from the committed one
by one addition, renaming or removal, so that the end of its save is that step of
the registry, and a leave request is posted only for a record that was removed.
It is about a gateway without faults (`Fault = {}`), for which `DeviceRegistry`
promises something; restarts outside a write are included.

**System service.**  `Typed` is the type invariant with the parts of a place
that each step reads.  `OneReboot` is inductive over it: the flag is set exactly
while one caller is creating or one task exists.  `PromisedRebootComing` and
`WebResetReboots` hold when the reboot task can be created, the latter for
resets through the HTTP server.  `RestartUsesSaved` has no hypothesis: what a
restart does to a pair with a string of full length is part of the property
(`Outlives`), and `Stored` ties the history `kept` to the two keys whenever no
write is under way or was torn.

**WebSocket broadcast.**  `Inv` adds to the four properties that a task past the
try of the lock holds it (so that nobody else wraps a frame), that the socket
the HTTP task will close is in no slot and that it stops the timer for an empty
table only.  The table grows in one place, on the task that reads the count:
this is what makes the last one inductive.  The proof needs only that intervals
are ordered as the assumption says.

**LQI cache.**  The lemmas on `Written` say what one write does to a cache of any
length: it stays distinct, hides nothing that was visible and shows what was
written.  `Inv` adds that a scanner writes entries of the neighbour table, that
the answers in the job's context are no older than the job, that what it has
left to write is the end of them, and that a request is pending only while it
waits.  Late answers that hit the context of the next refresh are included.

**Start.**  `StartInv` has four parts.  `WifiInv` is about Wi-Fi alone: once the
main task has unregistered the handlers none runs or comes back (`StationInv`);
the driver has posted nothing that an attempt would overtake, which leaves four
queues (`LinkInv`); no copy of the flags without the fallback is left to be
stored over it (`FlagsInv`).  `StackInv` ties the phase of the stack to the end
of Wi-Fi and forms a network only with none in flash.  `LinksInv` says that
the living services of a creation are the first k in its order and that the
handles are among those that creation gives; the lemmas `GivenBefore` and
`UsersFirst` compare the three orders (created, given, destroyed), from which
`NoHandleDangles` follows for a failure of any call.

**Web API.**  `ApiInv` is `RingInv`, how index, count and contents of the ring
agree with the number of errors stored, and what a reader has copied so far, and
`ServeInv`, at each place of the HTTP task: which calls are done, what the
checked arguments are, which chunks have gone.  `AnswersAreTrue` needs that a
value which passes its check is not changed by its C type or buffer
(`ValidIsKept`), and that cJSON's int is less than one off (`FractionLost`);
`EndedIsWhole` that a prefix of an answer that ends is all of it.
`DefaultListAlwaysServed` adds up the rows at their longest.  Its hypotheses are
the sizes for which it is true, at most 23 devices by default and 27 errors
shown; the code has 10 and 5.

**Only model-checked**

- Liveness and fairness, which are outside the prover's reach:
  `AcceptedCompletes`, `OperationsEnd`, `QueueMoves`, `RebootComes`,
  `NewestReachesClient`, `RefreshEnds`, `GatewayServes`, and of
  `ImplementsFairService` its fairness; the steps are `ImplementsJobService`.
- `ListSurvivesRestart`, which does not hold.

Each invariant and each other action property of the runs is a theorem.  The
hypotheses are those named above: on `Fault` in four theorems, on two sizes in
one.

## Disagreements found

With a run, and the quoted line in `PROJECT.json`:

- a restart between the writes of `dev_count` and `dev_list` loads a list that
  never existed (`device_power`).

The following were met while modelling; the models contain them as the code has
them, and no run states their absence.

- *Erased devices come back.*  A factory reset leaves the list in RAM, and the
  next change saves it again (`config_service.c:144`); only the reboot that
  follows the HTTP reset ends this.
- *A reset run as a job does not restart.*  The job's factory reset, which is
  how the web page asks for one, schedules no reboot (`job_queue_json.c:69`).
- *Credentials of the longest accepted length* (32 and 64 characters) are saved
  but do not fit the buffers they are loaded into (`wifi_sta.c:89`): the gateway
  starts with its defaults, although `SMOKE_TEST.md:61` has Wi-Fi settings
  written to NVS and read back.  `SavedCredentialsUsed` states this outcome.
- *A fraction is cut and answered as a success.*  `{"cmd": 1.9}` or an `ep` of 1.5
  passes the checks, which see cJSON's int, and is executed as 1
  (`api_contracts.c:19`).  `AnswerIsTrue` states it: a number may lose its
  fraction and nothing else.
- *Two resets at once* can answer with each other's report
  (`config_service.c:148`).
- *When the reboot task cannot be created*, a second caller may have been told
  that the reboot is scheduled (`system_service.c:103`), and no reboot comes.
- *The answer to a factory reset is no JSON:* its format closes three braces for
  two that it opens (`api_handlers.c:207`), while `README.md:110` of the
  repository describes a document with `details`.
- *A cut file looks whole.*  A static file that fails to be read half-way, or
  whose send fails, is ended like a complete one, with 200, its ETag and a day of
  caching (`http_static.c:107`, `112`).
- *The LQI page of a large build is never served.*  Up to 64 devices may be
  configured (`main/Kconfig.projbuild:32`); the page's last buffer of 8192 bytes
  holds fewer.  `ListAlwaysServed` is therefore about the default of ten.
- *The buffer of a WebSocket frame* is smaller than the pages of HTTP: a list of
  escaped names may be served by one and not by the other.
- *The error ring may hang the chip.*  Its lock is spun on; the timer task has
  priority 22 and the HTTP task 5 on one core, so that the former may find the
  lock taken and never let the latter give it back (`error_ring.c:20`).
- *After the start nobody handles Wi-Fi events.*  A station that loses its link
  later neither tries again nor is shown as disconnected (`wifi_sta.c:186`).
- *A newer schema version* makes the gateway restart for ever
  (`SchemaTooNew`), and a web server that does not start, or a network that
  cannot be opened, is only logged.
- *A device that comes back under another address* is listed twice
  (`device_service_rules.c:23`); a delete request may reach one that has just
  joined again (`device_service.c:301`); an announcement that finds the event
  queue full is lost until the next (`gateway_zigbee_runtime_signals.c:150`).
- *Opening the network* is called from the HTTP task without the lock of the
  Zigbee stack (`zigbee_service.c:142`); what the stack makes of it is outside
  the repository.

## Assumptions

- A key is on flash when the call that sets or erases it has returned;
  `nvs_commit` adds no further step.
- Mutexes, queue and worker exist: the start-up code makes the first calls
  before other tasks run.  The reboot mutex is the exception: two first requests
  at once could create two (`system_service.c:27`).
- `esp_restart` and loss of power both reset RAM and keep flash.
- The WebSocket broadcast is abstract in `DeviceService`: handling the event of a
  list change reads the list at once.  `WsManager` is the broadcast itself, over
  a list that changes at any time.
- A Zigbee partition is erased by one call that succeeds, fails, or does not
  find it.
- The server has seven sockets by default for eight WebSocket slots, so that a
  client is refused only in a build with more; `Reject` is modelled all the same.
- A JSON number beyond int reads as int's limit, which every check refuses.
- After the start, reads of the state store do not fail.
- The identifier of the Zigbee network does not change by itself once formed.

## What is not modelled

- The wording of answers and logs, request routing, mDNS and the radio
  co-processor tool: I/O without state.
- The facades convert types and pass calls on.
- The vendor's Zigbee, Wi-Fi, HTTP and NVS libraries are outside the repository
  and appear only through the calls the code makes; their definitions are marked
  external in the map.
- The latency percentile of the job metrics and the broadcaster's own counters:
  numbers shown to the user and read by nothing else.
- `updated_ms` of an LQI entry, which may go backwards when a scan is written
  after a refresh: the times are shown and never compared.
- Memory that is allocated and freed; no module has a notion of a leak.
- Priorities: all interleavings are allowed, which is why the spin lock's hang is
  in no run.

## Plan

1. A composition of device service, system service and broadcaster, so that one
   restart and one factory reset act on all and the list the clients hear is the
   one in flash.
2. Theorems about that composition, and the pure lemmas on `DeviceRules` (what
   an upsert, a rename and a removal keep of a list) in a form that it can use.
3. The latency window against the definition of the 95th percentile.

## Running

    tlc -workers 2 -config MCJobQueue.cfg MCJobQueue
    tlapm JobQueueProofs.tla
