---------------------------- MODULE WifiStation ----------------------------
(***************************************************************************)
(* Wi-Fi: the station, its fallback access point and the scan, that is     *)
(* gateway_net and gateway_core_wifi over the vendor's driver.             *)
(*                                                                         *)
(* The main task sets the station up and waits for it, the event loop      *)
(* handles the driver's events meanwhile, and both write the same context  *)
(* (wifi_runtime_ctx_t) and publish it: wifi_state_store_update copies the *)
(* context in one step and stores the copy in another.  The main task's    *)
(* copies that nothing can come between are one step with the store.  The  *)
(* loop's mutex makes unregistering a handler wait until it has returned.  *)
(*                                                                         *)
(* The link, its mode and the events' order are the driver's, which is     *)
(* external.  It posts one event for the end of each attempt or link.      *)
(***************************************************************************)
EXTENDS Naturals, Sequences

CONSTANT MaxRetry   \* WIFI_STA_MAX_RETRY

ASSUME WifiAssumption == MaxRetry \in Nat

Publisher == {"main", "events"}
Scanner   == {"httpd", "worker"}    \* the handler of /wifi/scan, the scan job
Attempts  == 3                      \* of net_wifi_scan_impl

VARIABLES
    step,       \* where the main task is in wifi_init_sta_and_wait
    ok,         \* what that returns
    ctx,        \* sta_connected, fallback_ap_active, retry_num
    wifi,       \* the published state
    copy,       \* a copy on its way to be published
    bits,       \* the event group
    handlers,   \* handlers that are registered
    handling,   \* the event whose handler has yet to publish
    queue,      \* the driver's events in the event loop
    mode,       \* the driver's mode
    link,       \* the station's link
    scan        \* each scanner's place

wifiVars == <<step, ok, ctx, wifi, copy, bits, handlers, handling, queue, mode,
              link, scan>>
driver   == <<queue, mode, link>>
loop     == <<handlers, handling, bits>>

Flags   == [connected : BOOLEAN, fallback : BOOLEAN]
Event   == {"start", "disconnected", "got_ip"}
NotUp   == [connected |-> FALSE, fallback |-> FALSE]
NoScan  == [pc |-> "idle", attempt |-> 0]
FlagsOf(c) == [connected |-> c.connected, fallback |-> c.fallback]

Unset   == [connected |-> FALSE, fallback |-> FALSE, retry |-> 0]
NoCopy  == [p \in Publisher |-> NotUp]
NoScans == [s \in Scanner |-> NoScan]

WifiOff ==
    /\ step = "off" /\ ok = FALSE /\ ctx = Unset /\ wifi = NotUp /\ copy = NoCopy
    /\ bits = {} /\ handlers = {} /\ handling = "none" /\ queue = <<>>
    /\ mode = "null" /\ link = "off" /\ scan = NoScans

\* The gateway restarts.
WifiLost ==
    /\ step' = "off" /\ ok' = FALSE /\ ctx' = Unset /\ wifi' = NotUp
    /\ copy' = NoCopy /\ bits' = {} /\ handlers' = {} /\ handling' = "none"
    /\ queue' = <<>> /\ mode' = "null" /\ link' = "off" /\ scan' = NoScans

Move(from, to) == step = from /\ step' = to

(***************************************************************************)
(* wifi_init_sta_and_wait and wifi_sta_connect_and_wait, on the main task. *)
(***************************************************************************)
\* net_platform_services_init, a publication of what calloc left, and the reset
\* of the context.
BeginWifi ==
    /\ Move("off", "register_wifi")
    /\ ctx' = Unset
    /\ wifi' = NotUp
    /\ UNCHANGED <<ok, copy, loop, driver, scan>>

\* The event group, the interface, esp_wifi_init or the registration fails.
SetUpFails ==
    /\ Move("register_wifi", "fallback")
    /\ UNCHANGED <<ok, ctx, wifi, copy, loop, driver, scan>>

RegisterWifi ==
    /\ Move("register_wifi", "register_ip")
    /\ handlers' = {"wifi"}
    /\ UNCHANGED <<ok, ctx, wifi, copy, bits, handling, driver, scan>>

RegisterIpFails ==
    /\ Move("register_ip", "fallback")
    /\ handlers' = {}
    /\ UNCHANGED <<ok, ctx, wifi, copy, bits, handling, driver, scan>>

RegisterIp ==
    /\ Move("register_ip", "start")
    /\ handlers' = {"wifi", "ip"}
    /\ UNCHANGED <<ok, ctx, wifi, copy, bits, handling, driver, scan>>

\* load_wifi_credentials (see SystemService) publishes as well.
StartFails ==
    /\ Move("start", "unregister_ip")
    /\ wifi' = FlagsOf(ctx)
    /\ mode' \in {mode, "sta"}
    /\ UNCHANGED <<ok, ctx, copy, loop, queue, link, scan>>

StartStation ==
    /\ Move("start", "wait")
    /\ wifi' = FlagsOf(ctx)
    /\ mode' = "sta" /\ link' = "idle"
    /\ queue' = Append(queue, "start")
    /\ UNCHANGED <<ok, ctx, copy, loop, scan>>

\* Mutant: only the event that the station is connected ends the wait.
WaitForConnected ==
    /\ Move("wait", "unregister_ip")
    /\ "connected" \in bits
    /\ ok' = TRUE
    /\ UNCHANGED <<ctx, wifi, copy, loop, driver, scan>>

\* An event ends the wait, or WIFI_STA_CONNECT_TIMEOUT_MS.
Wait ==
    /\ Move("wait", "unregister_ip")
    /\ ok' = ("connected" \in bits)
    /\ UNCHANGED <<ctx, wifi, copy, loop, driver, scan>>

UnregisterIp ==
    /\ Move("unregister_ip", "unregister_wifi")
    /\ handling = "none"
    /\ handlers' = handlers \ {"ip"}
    /\ UNCHANGED <<ok, ctx, wifi, copy, handling, bits, driver, scan>>

\* Mutant: the handler stays.
UnregisterNothing ==
    /\ step = "unregister_wifi"
    /\ step' = IF ok THEN "publish" ELSE "fallback"
    /\ bits' = {}
    /\ UNCHANGED <<ok, ctx, wifi, copy, handlers, handling, driver, scan>>

\* The other handler and the event group, whether connected or not.
UnregisterWifi ==
    /\ step = "unregister_wifi"
    /\ handling = "none"
    /\ step' = IF ok THEN "publish" ELSE "fallback"
    /\ handlers' = {} /\ bits' = {}
    /\ UNCHANGED <<ok, ctx, wifi, copy, handling, driver, scan>>

\* The driver posts the end of a link or attempt when it is stopped.
Stopped == /\ link' = "off"
           /\ queue' = IF link \in {"trying", "up"}
                       THEN Append(queue, "disconnected") ELSE queue

\* wifi_start_fallback_ap, which returns early before or after it stopped the
\* station.
FallbackFails ==
    /\ Move("fallback", "publish")
    /\ \/ UNCHANGED driver
       \/ Stopped /\ mode' \in {mode, "ap"}
    /\ UNCHANGED <<ok, ctx, wifi, copy, loop, scan>>

\* Mutant: sta_connected is left as it is.
FallbackUnset ==
    /\ Move("fallback", "store_fallback")
    /\ Stopped /\ mode' = "ap"
    /\ ok' = TRUE
    /\ ctx' = [ctx EXCEPT !.fallback = TRUE]
    /\ copy' = [copy EXCEPT !["main"] = FlagsOf(ctx')]
    /\ UNCHANGED <<wifi, loop, scan>>

Fallback ==
    /\ Move("fallback", "store_fallback")
    /\ Stopped /\ mode' = "ap"
    /\ ok' = TRUE
    /\ ctx' = [ctx EXCEPT !.fallback = TRUE, !.connected = FALSE]
    /\ copy' = [copy EXCEPT !["main"] = FlagsOf(ctx')]
    /\ UNCHANGED <<wifi, loop, scan>>

StoreFallback ==
    /\ Move("store_fallback", "publish")
    /\ wifi' = copy["main"]
    /\ UNCHANGED <<ok, ctx, copy, loop, driver, scan>>

Publish ==
    /\ Move("publish", "store")
    /\ copy' = [copy EXCEPT !["main"] = FlagsOf(ctx)]
    /\ UNCHANGED <<ok, ctx, wifi, loop, driver, scan>>

Store ==
    /\ Move("store", "done")
    /\ wifi' = copy["main"]
    /\ UNCHANGED <<ok, ctx, copy, loop, driver, scan>>

Connect == BeginWifi \/ RegisterWifi \/ RegisterIp \/ StartStation \/ Wait
           \/ UnregisterIp \/ UnregisterWifi \/ Fallback \/ StoreFallback
           \/ Publish \/ Store
WifiFailure == SetUpFails \/ RegisterIpFails \/ StartFails \/ FallbackFails

(***************************************************************************)
(* event_handler, on the event loop.                                       *)
(***************************************************************************)
HandlerOf(e) == IF e = "got_ip" THEN "ip" ELSE "wifi"

Take(e) == queue # <<>> /\ e = Head(queue) /\ queue' = Tail(queue)

NobodyHandles ==
    /\ handling = "none"
    /\ \E e \in Event : Take(e) /\ HandlerOf(e) \notin handlers
    /\ UNCHANGED <<step, ok, ctx, wifi, copy, loop, mode, link, scan>>

Handle ==
    /\ handling = "none"
    /\ \E e \in Event :
          /\ Take(e) /\ HandlerOf(e) \in handlers
          /\ handling' = e
          /\ ctx' = [ctx EXCEPT !.connected = (e = "got_ip"),
                                !.retry = IF e = "got_ip" THEN 0 ELSE @]
    /\ copy' = [copy EXCEPT !["events"] = FlagsOf(ctx')]
    /\ UNCHANGED <<step, ok, wifi, bits, handlers, mode, link, scan>>

HandlerStores(e) ==
    /\ handling = e
    /\ handling' = "none"
    /\ wifi' = copy["events"]
    /\ UNCHANGED <<step, ok, copy, handlers, queue, mode, scan>>

esp_wifi_connect == link' = IF link = "idle" THEN "trying" ELSE link

StationStarted ==
    /\ HandlerStores("start")
    /\ esp_wifi_connect
    /\ UNCHANGED <<ctx, bits>>

\* Mutant: one attempt too many.
MayRetryOnceMore == ctx.retry <= MaxRetry

MayRetry == ctx.retry < MaxRetry

Disconnected ==
    /\ HandlerStores("disconnected")
    /\ \/ ctx.fallback /\ UNCHANGED <<ctx, bits, link>>
       \/ /\ ~ctx.fallback /\ MayRetry
          /\ esp_wifi_connect
          /\ ctx' = [ctx EXCEPT !.retry = @ + 1]
          /\ UNCHANGED bits
       \/ /\ ~ctx.fallback /\ ~MayRetry
          /\ bits' = bits \cup {"fail"}
          /\ UNCHANGED <<ctx, link>>

GotIp ==
    /\ HandlerStores("got_ip")
    /\ bits' = bits \cup {"connected"}
    /\ UNCHANGED <<ctx, link>>

HandleWifiEvent == NobodyHandles \/ Handle \/ StationStarted \/ Disconnected
                   \/ GotIp

(***************************************************************************)
(* The driver.                                                             *)
(***************************************************************************)
LinkTo(from, to, event) ==
    /\ link = from /\ link' = to
    /\ queue' = Append(queue, event)
    /\ UNCHANGED <<step, ok, ctx, wifi, copy, loop, mode, scan>>

Driver == \/ LinkTo("trying", "up", "got_ip")
          \/ LinkTo("trying", "idle", "disconnected")
          \/ LinkTo("up", "idle", "disconnected")

(***************************************************************************)
(* wifi_service_scan, that is net_wifi_scan_impl, on the HTTP task and on  *)
(* the job worker once the web server runs.                                *)
(***************************************************************************)
Scanning(s, pc) == scan' = [scan EXCEPT ![s].pc = pc]
KeepAllButScan ==
    UNCHANGED <<step, ok, ctx, wifi, copy, loop, queue, link>>

BeginScan(s) ==
    /\ scan[s].pc = "idle"
    /\ mode # "null"
    /\ Scanning(s, "start")
    /\ mode' = IF mode = "ap" THEN "apsta" ELSE mode
    /\ KeepAllButScan

\* The driver takes one scan at a time and refuses while it connects.
StartScan(s) ==
    /\ scan[s].pc = "start"
    /\ \A t \in Scanner : scan[t].pc # "scan"
    /\ link # "trying"
    /\ Scanning(s, "scan")
    /\ UNCHANGED mode /\ KeepAllButScan

ScanRefused(s) ==
    /\ scan[s].pc = "start"
    /\ link = "trying" \/ \E t \in Scanner : scan[t].pc = "scan"
    /\ scan' = IF scan[s].attempt + 1 < Attempts
               THEN [scan EXCEPT ![s].attempt = @ + 1]
               ELSE [scan EXCEPT ![s] = NoScan]
    /\ UNCHANGED mode /\ KeepAllButScan

\* With a list, an empty one, or an error.
EndScan(s) ==
    /\ scan[s].pc = "scan"
    /\ scan' = [scan EXCEPT ![s] = NoScan]
    /\ UNCHANGED mode /\ KeepAllButScan

Scan(s) == BeginScan(s) \/ StartScan(s) \/ ScanRefused(s) \/ EndScan(s)

WifiTypeOK ==
    /\ step \in {"off", "register_wifi", "register_ip", "start", "wait",
                 "unregister_ip", "unregister_wifi", "fallback",
                 "store_fallback", "publish", "store", "done"}
    /\ ok \in BOOLEAN
    /\ FlagsOf(ctx) \in Flags /\ ctx.retry \in 0 .. MaxRetry
    /\ wifi \in Flags
    /\ copy \in [Publisher -> Flags]
    /\ bits \subseteq {"connected", "fail"}
    /\ handlers \subseteq {"wifi", "ip"}
    /\ handling \in Event \cup {"none"}
    /\ queue \in Seq(Event) /\ Len(queue) <= 2
    /\ mode \in {"null", "sta", "ap", "apsta"}
    /\ link \in {"off", "idle", "trying", "up"}
    /\ scan \in [Scanner -> [pc : {"idle", "start", "scan"},
                             attempt : 0 .. Attempts - 1]]
=============================================================================
