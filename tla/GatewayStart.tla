---------------------------- MODULE GatewayStart ----------------------------
(***************************************************************************)
(* The start of the gateway: gateway_app_start, which prepares the flash,  *)
(* creates and links the services, brings Wi-Fi up (WifiStation), starts   *)
(* the web server and, unless the fallback access point is active, the     *)
(* Zigbee stack, whose commissioning the signal handler drives.            *)
(*                                                                         *)
(* A failed ESP_ERROR_CHECK aborts, and the gateway restarts: RAM is lost, *)
(* flash is kept.  So does a request to reboot, at any time.               *)
(***************************************************************************)
EXTENDS WifiStation, FiniteSets, SequencesExt

CONSTANTS
    Pan,            \* identifiers of Zigbee networks
    None,           \* no network; also an absent key
    FaultBound      \* bound: calls that fail, restarts and factory resets

Current == 1        \* CONFIG_SERVICE_SCHEMA_VERSION_CURRENT

ASSUME StartAssumption == None \notin Pan \cup Nat /\ FaultBound \in Nat

VARIABLES
    boot,       \* where the main task is in gateway_app_start
    version,    \* the schema version config_service_init_or_migrate works on
    flash,      \* schema_ver, and the network in the partition zb_storage
    live,       \* services that exist
    links,      \* <<user, used>>: handles a service was given
    web,        \* the web server runs
    stack,      \* the Zigbee stack: its phase, network, and open for joining
    network,    \* the published network state
    faults

startVars == <<boot, version, flash, live, links, web, stack, network, faults>>
vars == <<wifiVars, startVars>>

services == <<live, links>>
zigbee   == <<stack, network>>

StackOff == [phase |-> "off", pan |-> None, open |-> FALSE]
Unknown  == [started |-> FALSE, new |-> FALSE, pan |-> None]

Init ==
    /\ WifiOff
    /\ boot = "platform" /\ version = 0
    /\ flash \in [schema : {None, Current, Current + 1}, pan : Pan \cup {None}]
    /\ live = {} /\ links = {} /\ web = FALSE
    /\ stack = StackOff /\ network = Unknown
    /\ faults = 0

\* ESP_ERROR_CHECK, esp_restart and the loss of power: RAM is as after reset.
Reset ==
    /\ WifiLost
    /\ boot' = "platform" /\ version' = 0
    /\ live' = {} /\ links' = {} /\ web' = FALSE
    /\ stack' = StackOff /\ network' = Unknown

Fault == faults < FaultBound /\ faults' = faults + 1

Go(from, to) == boot = from /\ boot' = to

(***************************************************************************)
(* gateway_app_start.                                                      *)
(***************************************************************************)
\* nvs_flash_init, esp_netif_init, esp_event_loop_create_default; then the version
\* is read: an absent key or namespace counts as 0.
ReadSchema ==
    /\ Go("platform", "schema")
    /\ version' = IF flash.schema = None THEN 0 ELSE flash.schema
    /\ UNCHANGED <<wifiVars, flash, services, web, zigbee, faults>>

\* Version 1 has the keys of version 0.
Migrate ==
    /\ boot = "schema"
    /\ version < Current
    /\ version' = version + 1
    /\ flash' = [flash EXCEPT !.schema = version + 1]
    /\ UNCHANGED <<wifiVars, boot, services, web, zigbee, faults>>

\* set_i32 fails, or the commit after it.
MigrateFails ==
    /\ boot = "schema"
    /\ version < Current
    /\ Fault
    /\ flash' \in {flash, [flash EXCEPT !.schema = version + 1]}
    /\ Reset

SchemaReady ==
    /\ Go("schema", "create")
    /\ version = Current
    /\ UNCHANGED <<wifiVars, version, flash, services, web, zigbee, faults>>

\* GATEWAY_STATUS_NOT_SUPPORTED: the gateway restarts for ever.
SchemaTooNew ==
    /\ boot = "schema"
    /\ version > Current
    /\ Reset
    /\ UNCHANGED <<flash, faults>>

\* gateway_app_runtime_create: the services in the order they are created, and
\* the handles each is given when it is.
Created == <<"device", "state", "wifi", "system", "wifi_system", "jobs", "api",
             "ws", "zigbee">>
Given == [s \in ToSet(Created) |->
            CASE s = "wifi_system" -> {"state", "wifi", "system"}
              [] s = "jobs"        -> {"wifi", "system"}
              [] s = "api"         -> {"wifi_system", "jobs"}
              [] s = "zigbee"      -> {"device", "state"}
              [] OTHER             -> {}]

\* gateway_app_runtime_destroy.
Destroyed == <<"ws", "api", "zigbee", "jobs", "wifi_system", "system", "wifi",
               "state", "device">>

FirstIn(order, set) ==
    order[CHOOSE i \in DOMAIN order :
            /\ order[i] \in set
            /\ \A j \in 1 .. i - 1 : order[j] \notin set]

Create ==
    /\ boot = "create"
    /\ live # ToSet(Created)
    /\ LET s == FirstIn(Created, ToSet(Created) \ live) IN
       /\ live' = live \cup {s}
       /\ links' = links \cup ({s} \X Given[s])
       /\ network' = IF s = "zigbee" THEN Unknown ELSE network
    /\ UNCHANGED <<wifiVars, boot, version, flash, web, stack, faults>>

\* Mutant: the jobs get the Zigbee service before the last call that can fail.
LinkZigbeeEarly ==
    /\ boot = "create"
    /\ live = ToSet(Created)
    /\ <<"jobs", "zigbee">> \notin links
    /\ links' = links \cup {<<"api", "zigbee">>, <<"jobs", "zigbee">>}
    /\ UNCHANGED <<wifiVars, boot, version, flash, live, web, zigbee, faults>>

LinkApi ==
    /\ boot = "create"
    /\ live = ToSet(Created)
    /\ <<"api", "zigbee">> \notin links
    /\ links' = links \cup {<<"api", "zigbee">>}
    /\ UNCHANGED <<wifiVars, boot, version, flash, live, web, zigbee, faults>>

LinkJobs ==
    /\ Go("create", "attach")
    /\ <<"api", "zigbee">> \in links
    /\ links' = links \cup {<<"jobs", "zigbee">>}
    /\ UNCHANGED <<wifiVars, version, flash, live, web, zigbee, faults>>

\* A call fails: out of memory, a mutex, the load of the devices, a registration.
CreateFails ==
    /\ Go("create", "destroy")
    /\ Fault
    /\ UNCHANGED <<wifiVars, version, flash, services, web, zigbee>>

Destroy ==
    /\ boot = "destroy"
    /\ live # {}
    /\ LET s == FirstIn(Destroyed, live) IN
       /\ live' = live \ {s}
       /\ links' = {l \in links : l[1] # s}
    /\ UNCHANGED <<wifiVars, boot, version, flash, web, zigbee, faults>>

\* ... and what create returns aborts.
DestroyedAll ==
    /\ boot = "destroy"
    /\ live = {}
    /\ Reset
    /\ UNCHANGED <<flash, faults>>

Attach ==
    /\ Go("attach", "wifi")
    /\ UNCHANGED <<wifiVars, version, flash, services, web, zigbee, faults>>

\* What wifi_init_sta_and_wait returns is only logged.
WifiReturns ==
    /\ Go("wifi", "files")
    /\ step = "done"
    /\ UNCHANGED <<wifiVars, version, flash, services, web, zigbee, faults>>

MountFiles ==
    /\ Go("files", "web")
    /\ UNCHANGED <<wifiVars, version, flash, services, web, zigbee, faults>>

\* A server that does not start is only logged.
StartWeb ==
    /\ Go("web", "decide")
    /\ \/ web' = TRUE /\ UNCHANGED faults
       \/ Fault /\ UNCHANGED web
    /\ UNCHANGED <<wifiVars, version, flash, services, zigbee>>

FallbackActive == wifi.fallback

Postpone ==
    /\ Go("decide", "done")
    /\ FallbackActive
    /\ UNCHANGED <<wifiVars, version, flash, services, web, zigbee, faults>>

StartZigbee ==
    /\ Go("decide", "done")
    /\ ~FallbackActive
    /\ stack' = [StackOff EXCEPT !.phase = "initialized"]
    /\ UNCHANGED <<wifiVars, version, flash, services, web, network, faults>>

\* A call under ESP_ERROR_CHECK fails: of the platform, the read of the schema,
\* the registration, the mount, the Zigbee task.
Abort ==
    /\ \/ boot \in {"platform", "attach", "files"}
       \/ boot = "decide" /\ ~FallbackActive
    /\ Fault
    /\ Reset
    /\ UNCHANGED flash

\* esp_restart after a request (see SystemService), a crash, or loss of power.
Restart ==
    /\ Fault
    /\ Reset
    /\ UNCHANGED flash

Main == ReadSchema \/ Migrate \/ SchemaReady \/ SchemaTooNew \/ Create
        \/ LinkApi \/ LinkJobs \/ Destroy \/ DestroyedAll \/ Attach
        \/ WifiReturns \/ MountFiles \/ StartWeb \/ Postpone \/ StartZigbee

(***************************************************************************)
(* esp_zb_app_signal_handler, on the Zigbee task.  The stack and what it   *)
(* keeps in its partition are external.                                    *)
(***************************************************************************)
Phase(from, to) == stack.phase = from /\ stack' = [stack EXCEPT !.phase = to]

KeepAllButZigbee ==
    UNCHANGED <<wifiVars, boot, version, services, web>>

FactoryNew == flash.pan = None

\* gateway_state_publish with zigbee_started.
PublishNetwork(s, new) ==
    network' = [started |-> TRUE, new |-> new, pan |-> s.pan]

SkipStartup ==
    /\ Phase("initialized", "initialization")
    /\ PublishNetwork(stack', FactoryNew)
    /\ KeepAllButZigbee /\ UNCHANGED <<flash, faults>>

\* Mutant: a known network is formed again.
FirstStartForms ==
    /\ stack.phase = "initialization"
    /\ stack' = [stack EXCEPT !.phase = "formation"]
    /\ PublishNetwork(stack', TRUE)
    /\ KeepAllButZigbee /\ UNCHANGED <<flash, faults>>

\* FIRST_START or REBOOT: the network of the partition is opened, or formed.
Started ==
    /\ stack.phase = "initialization"
    /\ stack' = IF FactoryNew THEN [stack EXCEPT !.phase = "formation"]
                ELSE [phase |-> "up", pan |-> flash.pan, open |-> TRUE]
    /\ PublishNetwork(stack', FactoryNew)
    /\ KeepAllButZigbee /\ UNCHANGED <<flash, faults>>

StartFailsLater ==
    /\ Phase("initialization", "retry_initialization")
    /\ Fault
    /\ KeepAllButZigbee /\ UNCHANGED <<flash, network>>

Formed ==
    /\ stack.phase = "formation"
    /\ \E p \in Pan :
          /\ stack' = [stack EXCEPT !.phase = "steering", !.pan = p]
          /\ flash' = [flash EXCEPT !.pan = p]
    /\ PublishNetwork(stack', FALSE)
    /\ KeepAllButZigbee /\ UNCHANGED faults

FormationFails ==
    /\ Phase("formation", "retry_formation")
    /\ Fault
    /\ KeepAllButZigbee /\ UNCHANGED <<flash, network>>

\* esp_zb_scheduler_alarm after a second.
RetryLater ==
    /\ \/ Phase("retry_initialization", "initialization")
       \/ Phase("retry_formation", "formation")
    /\ KeepAllButZigbee /\ UNCHANGED <<flash, network, faults>>

\* The end of steering is only logged, a failed one as well.
Steered ==
    /\ stack.phase = "steering"
    /\ \/ stack' = [stack EXCEPT !.phase = "up", !.open = TRUE] /\ UNCHANGED faults
       \/ Phase("steering", "up") /\ Fault
    /\ KeepAllButZigbee /\ UNCHANGED <<flash, network>>

\* A device that announces itself, a delete request and the end of the time close
\* the network; a request of a client opens it.
Close ==
    /\ stack.open
    /\ stack' = [stack EXCEPT !.open = FALSE]
    /\ KeepAllButZigbee /\ UNCHANGED <<flash, network, faults>>

PermitJoin ==
    /\ web /\ stack.phase = "up"
    /\ ~stack.open
    /\ stack' = [stack EXCEPT !.open = TRUE]
    /\ KeepAllButZigbee /\ UNCHANGED <<flash, network, faults>>

\* The part of a factory reset that erases zb_storage; a restart may follow.
EraseNetwork ==
    /\ web /\ Fault
    /\ flash.pan # None
    /\ flash' = [flash EXCEPT !.pan = None]
    /\ KeepAllButZigbee /\ UNCHANGED zigbee

Commission == SkipStartup \/ Started \/ Formed \/ RetryLater \/ Steered
CommissionFails == StartFailsLater \/ FormationFails

(***************************************************************************)
(* The gateway.                                                            *)
(***************************************************************************)
WifiStep == /\ \/ boot = "wifi" /\ Connect
               \/ HandleWifiEvent \/ Driver
            /\ UNCHANGED startVars

WifiFails == /\ boot = "wifi" /\ WifiFailure
             /\ Fault
             /\ UNCHANGED <<boot, version, flash, services, web, zigbee>>

WebScan == /\ web
           /\ \E s \in Scanner : Scan(s)
           /\ UNCHANGED startVars

Next ==
    \/ Main \/ MigrateFails \/ CreateFails \/ Abort \/ Restart
    \/ WifiStep \/ WifiFails \/ WebScan
    \/ Commission \/ CommissionFails \/ Close \/ PermitJoin \/ EraseNetwork

WifiMain == boot = "wifi" /\ Connect /\ UNCHANGED startVars
Unregister == WifiMain /\ step \in {"unregister_ip", "unregister_wifi"}

\* The main task, the event loop and the Zigbee task run; calls fail finitely
\* often.  Unregistering waits for the loop's mutex, which is free between any two
\* events.  Nothing is assumed of the access point or of the clients.
Fairness ==
    /\ WF_vars(Main) /\ WF_vars(WifiMain) /\ SF_vars(Unregister)
    /\ WF_vars(HandleWifiEvent /\ UNCHANGED startVars)
    /\ WF_vars(Commission)

Spec == Init /\ [][Next]_vars
FairSpec == Spec /\ Fairness

(***************************************************************************)
(* Properties.                                                             *)
(***************************************************************************)
\* Every variable keeps its type.
TypeOK ==
    /\ WifiTypeOK
    /\ boot \in {"platform", "schema", "create", "destroy", "attach", "wifi",
                 "files", "web", "decide", "done"}
    /\ version \in Nat
    /\ flash.schema \in {None, Current, Current + 1} /\ flash.pan \in Pan \cup {None}
    /\ live \subseteq ToSet(Created)
    /\ links \subseteq ToSet(Created) \X ToSet(Created)
    /\ web \in BOOLEAN
    /\ stack \in [phase : {"off", "initialized", "initialization",
                           "retry_initialization", "formation",
                           "retry_formation", "steering", "up"},
                  pan : Pan \cup {None}, open : BOOLEAN]
    /\ network \in [started : BOOLEAN, new : BOOLEAN, pan : Pan \cup {None}]
    /\ faults \in 0 .. FaultBound

\* Whichever call of the start fails, no service that is left holds the handle of
\* one that was destroyed.
NoDanglingLink == links \subseteq live \X live

\* While the fallback access point is shown, the station is neither shown as
\* connected nor trying to, and the Zigbee stack, which shares the radio, is not
\* running: whenever a late connection or disconnection came.
FallbackIsExclusive ==
    wifi.fallback =>
        /\ ~wifi.connected
        /\ link # "trying"
        /\ stack.phase = "off"

\* When the start is over, what is published is the context's and the stack's
\* state: no task stored an older copy over a newer one, and the clients are
\* shown the network that was formed.
PublishedIsCurrent ==
    /\ boot = "done" => wifi = FlagsOf(ctx)
    /\ stack.phase # "off" => network.pan = stack.pan

\* A network, once formed, is the network until a factory reset: no restart and no
\* retry forms another one over it, which every joined device would be lost to.
NetworkIsKept == [][flash.pan # None => flash.pan' \in {flash.pan, None}]_vars

\* Whatever the access point and the failing calls do, the start comes to an end,
\* and then either the fallback access point is up or a Zigbee network is known:
\* unless a newer program wrote the flash.
GatewayServes ==
    flash.schema # Current + 1 ~>
        [](boot = "done" /\ (wifi.fallback \/ network.pan # None))
=============================================================================
