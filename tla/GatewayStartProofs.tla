------------------------- MODULE GatewayStartProofs -------------------------
(***************************************************************************)
(* Theorems about GatewayStart, for any number of retries and faults and   *)
(* any set of networks.                                                    *)
(*                                                                         *)
(* Each property depends on where the main task is: the published flags on *)
(* the handlers being gone when it ends, the handles on the order in which *)
(* services are created and destroyed, the network on the phase of the     *)
(* stack.  StartInv says so; its first half is about Wi-Fi alone.          *)
(***************************************************************************)
EXTENDS GatewayStart, SequenceTheorems, WellFoundedInduction, TLAPS

-----------------------------------------------------------------------------
(***************************************************************************)
(* The inductive invariant.                                                *)
(***************************************************************************)
Place   == {"off", "register_wifi", "register_ip", "start", "wait",
            "unregister_ip", "unregister_wifi", "fallback", "store_fallback",
            "publish", "store", "done"}
Before  == {"off", "register_wifi", "register_ip", "start"}
Ended   == {"store_fallback", "publish", "store", "done"}
Context == [connected : BOOLEAN, fallback : BOOLEAN, retry : 0 .. MaxRetry]
ScanPlace  == [pc : {"idle", "start", "scan"}, attempt : 0 .. Attempts - 1]

\* What the driver may have posted when it is not connecting or connected.
Left == {<<>>, <<"start">>, <<"disconnected">>, <<"got_ip", "disconnected">>}

WifiTypes ==
    /\ step \in Place
    /\ ok \in BOOLEAN
    /\ ctx \in Context
    /\ wifi \in Flags
    /\ copy \in [Publisher -> Flags]
    /\ bits \subseteq {"connected", "fail"}
    /\ handlers \subseteq {"wifi", "ip"}
    /\ handling \in Event \cup {"none"}
    /\ mode \in {"null", "sta", "ap", "apsta"}
    /\ link \in {"off", "idle", "trying", "up"}
    /\ scan \in [Scanner -> ScanPlace]

\* Before the station is started nothing happens, and once the main task has
\* unregistered the handlers none runs.
StationInv ==
    /\ step \in Before => link = "off" /\ queue = <<>> /\ handling = "none"
    /\ step \in {"off", "register_wifi"} => handlers = {}
    /\ step \in Ended \cup {"fallback"} => handlers = {} /\ handling = "none"

\* The driver posts one event for the end of each attempt or link: an attempt has
\* none before it, and the handler that asks for one sees the last.
LinkInv ==
    /\ link \in {"off", "idle"} => queue \in Left
    /\ link = "trying" => queue = <<>> /\ handling = "none"
    /\ link = "up" => /\ queue \in {<<>>, <<"got_ip">>}
                      /\ handling \in {"none", "got_ip"}
    /\ link = "idle" /\ handling \in {"start", "disconnected"} => queue = <<>>

\* The flag of the fallback is set when the station is gone, and no copy without
\* it is left to be stored over it.
FlagsInv ==
    /\ wifi.fallback => ctx.fallback /\ ~wifi.connected
    /\ ctx.fallback => step \in Ended /\ link = "off" /\ ~ctx.connected
    /\ step \in {"store_fallback", "store"} => copy["main"] = FlagsOf(ctx)
    /\ step = "done" => wifi = FlagsOf(ctx)
    /\ handling # "none" => ~copy["events"].fallback

WifiInv == WifiTypes /\ StationInv /\ LinkInv /\ FlagsInv

WifiNext == Connect \/ WifiFailure \/ HandleWifiEvent \/ Driver
            \/ \E s \in Scanner : Scan(s)

-----------------------------------------------------------------------------
(***************************************************************************)
(* Wi-Fi.                                                                  *)
(***************************************************************************)
\* The station is off.
LEMMA WifiStarts == WifiOff => WifiInv
<1>1. Unset \in Context
  BY WifiAssumption DEF Unset, Context
<1>2. NotUp \in Flags /\ NoScan \in ScanPlace
  BY DEF NotUp, Flags, NoScan, ScanPlace, Attempts
<1>3. NoCopy \in [Publisher -> Flags] /\ NoScans \in [Scanner -> ScanPlace]
  BY <1>2 DEF NoCopy, NoScans
<1>4. ASSUME WifiOff PROVE WifiTypes
  BY <1>4, <1>1, <1>2, <1>3 DEF WifiOff, WifiTypes, Place, Event
<1>5. ASSUME WifiOff PROVE StationInv /\ LinkInv /\ FlagsInv
  BY <1>5 DEF WifiOff, StationInv, LinkInv, FlagsInv, Before, Ended, Left, Unset,
     NotUp, NoCopy, Publisher, FlagsOf
<1>6. QED
  BY <1>4, <1>5 DEF WifiInv

\* A restart switches it off.
LEMMA WifiStartsAgain == WifiLost => WifiInv'
<1>1. WifiLost => WifiOff'
  BY DEF WifiLost, WifiOff
<1>2. QED
  BY <1>1, WifiStarts, PTL

\* FlagsOf keeps two fields of the context.
LEMMA FlagsFact ==
  ASSUME NEW c, c \in Context
  PROVE  /\ FlagsOf(c) \in Flags
         /\ FlagsOf(c).connected = c.connected
         /\ FlagsOf(c).fallback = c.fallback
BY DEF FlagsOf, Flags, Context

\* A sequence of two.
LEMMA AppendOne ==
  \A a, b : Append(<<a>>, b) = <<a, b>>
<1> SUFFICES ASSUME NEW a, NEW b PROVE Append(<<a>>, b) = <<a, b>>
  OBVIOUS
<1> DEFINE S == {a, b}
           s == <<a>>
           t == <<a, b>>
<1>1. s \in Seq(S) /\ Len(s) = 1 /\ s[1] = a /\ b \in S
  OBVIOUS
<1>2. t \in Seq(S) /\ Len(t) = 2 /\ t[1] = a /\ t[2] = b
  OBVIOUS
<1> HIDE DEF S, s, t
<1>3. /\ Append(s, b) \in Seq(S)
      /\ Len(Append(s, b)) = Len(s) + 1
      /\ \A i \in 1 .. Len(s) : Append(s, b)[i] = s[i]
      /\ Append(s, b)[Len(s) + 1] = b
  <2>1. s \in Seq(S) /\ b \in S
    BY <1>1
  <2>2. /\ Append(s, b) \in Seq(S)
        /\ Len(Append(s, b)) = Len(s) + 1
        /\ \A i \in 1 .. Len(s) : Append(s, b)[i] = s[i]
    BY <2>1, AppendProperties
  <2>3. Append(s, b)[Len(s) + 1] = b
    BY <2>1, AppendProperties
  <2>4. QED
    BY <2>2, <2>3
<1>4. Append(s, b) = t
  BY <1>1, <1>2, <1>3
<1>5. QED
  BY <1>4 DEF s, t

\* What the driver adds and the event loop takes.
LEMMA QueueFacts ==
  /\ \A e : Append(<<>>, e) = <<e>>
  /\ Append(<<"got_ip">>, "disconnected") = <<"got_ip", "disconnected">>
  /\ \A e : Head(<<e>>) = e /\ Tail(<<e>>) = <<>>
  /\ Head(<<"got_ip", "disconnected">>) = "got_ip"
  /\ Tail(<<"got_ip", "disconnected">>) = <<"disconnected">>
<1>1. \A e : Append(<<>>, e) = <<e>>
  OBVIOUS
<1>2. Append(<<"got_ip">>, "disconnected") = <<"got_ip", "disconnected">>
  BY AppendOne
<1>3. \A e : Head(<<e>>) = e
  OBVIOUS
<1>4. \A e : Tail(<<e>>) = <<>>
  OBVIOUS
<1>5. Head(<<"got_ip", "disconnected">>) = "got_ip"
  OBVIOUS
<1>6. Tail(<<"got_ip", "disconnected">>) = <<"disconnected">>
  OBVIOUS
<1>7. QED
  BY <1>1, <1>2, <1>3, <1>4, <1>5, <1>6

\* Types, for every step of the main task, the event loop, the driver and a scan.
LEMMA TypesStep ==
  ASSUME WifiInv, WifiNext
  PROVE  WifiTypes'
<1> USE DEF WifiInv, WifiTypes
<1>1. FlagsOf(ctx) \in Flags
  BY FlagsFact
<1>2. \A c, f : c \in [Publisher -> Flags] /\ f \in Flags =>
         /\ [c EXCEPT !["main"] = f] \in [Publisher -> Flags]
         /\ [c EXCEPT !["events"] = f] \in [Publisher -> Flags]
  BY DEF Publisher
<1>3. CASE BeginWifi
  BY <1>3, WifiAssumption
  DEF BeginWifi, Move, loop, driver, Unset, NotUp, Context, Flags, Place
<1>4. CASE RegisterWifi
  BY <1>4 DEF RegisterWifi, Move, driver, Place
<1>5. CASE RegisterIp
  BY <1>5 DEF RegisterIp, Move, driver, Place
<1>6. CASE StartStation
  BY <1>6, <1>1 DEF StartStation, Move, loop, Place
<1>7. CASE Wait
  BY <1>7 DEF Wait, Move, loop, driver, Place
<1>8. CASE UnregisterIp
  BY <1>8 DEF UnregisterIp, Move, driver, Place
<1>9. CASE UnregisterWifi
  BY <1>9 DEF UnregisterWifi, Move, driver, Place
<1>10. CASE Fallback
  <2>1. ctx' \in Context
    BY <1>10 DEF Fallback, Context
  <2>2. FlagsOf(ctx') \in Flags
    BY <2>1, FlagsFact
  <2>3. copy' \in [Publisher -> Flags]
    BY <1>10, <2>2, <1>2 DEF Fallback
  <2>4. QED
    BY <1>10, <2>1, <2>3 DEF Fallback, Move, loop, Stopped, Place
<1>11. CASE StoreFallback
  BY <1>11 DEF StoreFallback, Move, loop, driver, Place, Publisher
<1>12. CASE Publish
  <2>1. copy' \in [Publisher -> Flags]
    BY <1>12, <1>1, <1>2 DEF Publish
  <2>2. QED
    BY <1>12, <2>1 DEF Publish, Move, loop, driver, Place
<1>13. CASE Store
  BY <1>13 DEF Store, Move, loop, driver, Place, Publisher
<1>14. CASE WifiFailure
  BY <1>14, <1>1 DEF WifiFailure, SetUpFails, RegisterIpFails, StartFails,
     FallbackFails, Move, loop, driver, Stopped, Place
<1>15. CASE NobodyHandles
  BY <1>15 DEF NobodyHandles, loop
<1>16. CASE Handle
  <2>1. ctx' \in Context
    <3>1. PICK e \in Event : ctx' = [ctx EXCEPT !.connected = (e = "got_ip"),
                                 !.retry = IF e = "got_ip" THEN 0 ELSE ctx.retry]
      BY <1>16 DEF Handle
    <3>2. ctx' = [connected |-> (e = "got_ip"), fallback |-> ctx.fallback,
                  retry |-> IF e = "got_ip" THEN 0 ELSE ctx.retry]
      BY <3>1 DEF Context
    <3>3. QED
      BY <3>2, WifiAssumption DEF Context
  <2>2. FlagsOf(ctx') \in Flags
    BY <2>1, FlagsFact
  <2>3. copy' \in [Publisher -> Flags]
    BY <1>16, <2>2, <1>2 DEF Handle
  <2>4. QED
    BY <1>16, <2>1, <2>3 DEF Handle
<1>17. ASSUME NEW e \in Event, HandlerStores(e)
       PROVE  wifi' \in Flags /\ handling' \in Event \cup {"none"}
  BY <1>17 DEF HandlerStores, Publisher
<1>18. CASE StationStarted
  <2>1. wifi' \in Flags /\ handling' \in Event \cup {"none"}
    BY <1>17, <1>18 DEF StationStarted, Event
  <2>2. QED
    BY <1>18, <2>1 DEF StationStarted, HandlerStores, esp_wifi_connect
<1>19. CASE Disconnected
  <2>1. wifi' \in Flags /\ handling' \in Event \cup {"none"}
    BY <1>17, <1>19 DEF Disconnected, Event
  <2>2. ctx' \in Context
    BY <1>19, WifiAssumption DEF Disconnected, MayRetry, Context
  <2>3. QED
    BY <1>19, <2>1, <2>2 DEF Disconnected, HandlerStores, esp_wifi_connect
<1>20. CASE GotIp
  <2>1. wifi' \in Flags /\ handling' \in Event \cup {"none"}
    BY <1>17, <1>20 DEF GotIp, Event
  <2>2. QED
    BY <1>20, <2>1 DEF GotIp, HandlerStores
<1>21. CASE Driver
  BY <1>21 DEF Driver, LinkTo, loop
<1>22. ASSUME NEW s \in Scanner, Scan(s)
       PROVE  WifiTypes'
  <2>1. scan' \in [Scanner -> ScanPlace]
    BY <1>22 DEF Scan, BeginScan, StartScan, ScanRefused, EndScan, Scanning, ScanPlace,
       Attempts, NoScan
  <2>2. mode' \in {"null", "sta", "ap", "apsta"}
    BY <1>22 DEF Scan, BeginScan, StartScan, ScanRefused, EndScan
  <2>3. QED
    BY <1>22, <2>1, <2>2 DEF Scan, BeginScan, StartScan, ScanRefused, EndScan,
       KeepAllButScan, loop
<1>23. QED
  BY <1>3, <1>4, <1>5, <1>6, <1>7, <1>8, <1>9, <1>10, <1>11, <1>12, <1>13, <1>14, <1>15,
     <1>16, <1>18, <1>19, <1>20, <1>21, <1>22
  DEF WifiNext, Connect, HandleWifiEvent

\* When something may happen: the handlers are there only between two steps of the
\* main task, which waits for the one that runs.
LEMMA StationStep ==
  ASSUME WifiInv, WifiNext
  PROVE  StationInv'
<1> USE DEF WifiInv, WifiTypes, StationInv, Place, Before, Ended
<1>1. CASE BeginWifi
  BY <1>1 DEF BeginWifi, Move, loop, driver
<1>2. CASE RegisterWifi
  BY <1>2 DEF RegisterWifi, Move, driver
<1>3. CASE RegisterIp
  BY <1>3 DEF RegisterIp, Move, driver
<1>4. CASE StartStation
  BY <1>4 DEF StartStation, Move, loop
<1>5. CASE Wait
  BY <1>5 DEF Wait, Move, loop, driver
<1>6. CASE UnregisterIp
  BY <1>6 DEF UnregisterIp, Move, driver
<1>7. CASE UnregisterWifi
  BY <1>7 DEF UnregisterWifi, Move, driver
<1>8. CASE Fallback
  BY <1>8 DEF Fallback, Move, loop
<1>9. CASE StoreFallback \/ Publish \/ Store
  BY <1>9 DEF StoreFallback, Publish, Store, Move, loop, driver
<1>10. CASE WifiFailure
  BY <1>10 DEF WifiFailure, SetUpFails, RegisterIpFails, StartFails, FallbackFails,
     Move, loop, driver
<1>11. CASE NobodyHandles
  BY <1>11 DEF NobodyHandles, Take, loop
<1>12. CASE Handle
  BY <1>12 DEF Handle, Take
<1>13. CASE StationStarted \/ Disconnected \/ GotIp
  BY <1>13 DEF StationStarted, Disconnected, GotIp, HandlerStores, Event
<1>14. CASE Driver
  BY <1>14 DEF Driver, LinkTo, loop
<1>15. CASE \E s \in Scanner : Scan(s)
  BY <1>15 DEF Scan, BeginScan, StartScan, ScanRefused, EndScan, KeepAllButScan, loop
<1>16. QED
  BY <1>1, <1>2, <1>3, <1>4, <1>5, <1>6, <1>7, <1>8, <1>9, <1>10, <1>11, <1>12, <1>13,
     <1>14, <1>15
  DEF WifiNext, Connect, HandleWifiEvent

\* What is taken leaves a queue that the link allows.
LEMMA TakeFacts ==
  ASSUME WifiInv, handling = "none", NEW e \in Event, Take(e)
  PROVE  /\ link \in {"off", "idle", "up"}
         /\ link \in {"off", "idle"} => queue' \in Left
         /\ link = "up" => e = "got_ip" /\ queue' = <<>>
         /\ link = "idle" /\ e # "got_ip" => queue' = <<>>
<1> USE DEF WifiInv, WifiTypes, LinkInv, Take
<1>1. queue # <<>> /\ e = Head(queue) /\ queue' = Tail(queue)
  OBVIOUS
<1>2. queue \in {<<"start">>, <<"disconnected">>, <<"got_ip">>} =>
        queue' = <<>> /\ queue = <<e>>
  BY <1>1, QueueFacts
<1>3. queue = <<"got_ip", "disconnected">> => e = "got_ip" /\ queue' = <<"disconnected">>
  BY <1>1, QueueFacts
<1>4. link = "up" => queue = <<"got_ip">>
  BY <1>1
<1>5. link \in {"off", "idle"} =>
        queue \in {<<"start">>, <<"disconnected">>, <<"got_ip", "disconnected">>}
  BY <1>1 DEF Left
<1>6. link # "trying"
  BY <1>1
<1>7. queue = <<"got_ip">> => e = "got_ip"
  BY <1>1, QueueFacts
<1>8. QED
  BY <1>2, <1>3, <1>4, <1>5, <1>6, <1>7 DEF Left

\* esp_wifi_connect starts an attempt after the last event of the one before.
LEMMA ConnectFacts ==
  ASSUME WifiInv, esp_wifi_connect, handling \in {"start", "disconnected"},
         handling' = "none", queue' = queue
  PROVE  LinkInv'
BY DEF WifiInv, WifiTypes, LinkInv, esp_wifi_connect, Left

\* The driver is stopped.
LEMMA StoppedFacts ==
  ASSUME WifiInv, Stopped
  PROVE  link' = "off" /\ queue' \in Left
<1>1. link = "trying" => queue' = <<"disconnected">>
  BY QueueFacts DEF WifiInv, LinkInv, Stopped
<1>2. link = "up" /\ queue = <<>> => queue' = <<"disconnected">>
  BY QueueFacts DEF Stopped
<1>3. link = "up" /\ queue = <<"got_ip">> => queue' = <<"got_ip", "disconnected">>
  BY QueueFacts DEF Stopped
<1>4. link = "up" => queue \in {<<>>, <<"got_ip">>}
  BY DEF WifiInv, LinkInv
<1>5. link \in {"off", "idle"} => queue' \in Left
  BY DEF WifiInv, LinkInv, Stopped
<1>6. link \in {"off", "idle", "trying", "up"}
  BY DEF WifiInv, WifiTypes
<1>7. link' = "off"
  BY DEF Stopped
<1>8. QED
  BY <1>1, <1>2, <1>3, <1>4, <1>5, <1>6, <1>7 DEF Left

\* The events that are left for each state of the link.
LEMMA LinkStep ==
  ASSUME WifiInv, WifiNext
  PROVE  LinkInv'
<1>1. ASSUME UNCHANGED <<link, queue, handling>> PROVE LinkInv'
  BY <1>1 DEF WifiInv, LinkInv
<1>2. CASE BeginWifi \/ RegisterWifi \/ RegisterIp
  BY <1>2, <1>1 DEF BeginWifi, RegisterWifi, RegisterIp, loop, driver
<1>3. CASE StartStation
  <2>1. queue = <<>> /\ handling = "none"
    BY <1>3 DEF StartStation, Move, WifiInv, StationInv, Before
  <2>2. queue' = <<"start">> /\ link' = "idle" /\ handling' = "none"
    BY <1>3, <2>1, QueueFacts DEF StartStation, loop
  <2>3. QED
    BY <2>2 DEF LinkInv, Left
<1>4. CASE Wait \/ UnregisterIp \/ UnregisterWifi
  BY <1>4, <1>1 DEF Wait, UnregisterIp, UnregisterWifi, loop, driver
<1>5. CASE Fallback
  <2>1. handling' = handling /\ link' = "off" /\ queue' \in Left
    BY <1>5, StoppedFacts DEF Fallback, loop
  <2>2. QED
    BY <2>1 DEF LinkInv
<1>6. CASE StoreFallback \/ Publish \/ Store
  BY <1>6, <1>1 DEF StoreFallback, Publish, Store, loop, driver
<1>7. CASE SetUpFails \/ RegisterIpFails \/ StartFails
  BY <1>7, <1>1 DEF SetUpFails, RegisterIpFails, StartFails, loop, driver
<1>8. CASE FallbackFails
  <2>1. CASE UNCHANGED driver
    BY <1>8, <2>1, <1>1 DEF FallbackFails, loop, driver
  <2>2. CASE Stopped
    <3>1. link' = "off" /\ queue' \in Left
      BY <2>2, StoppedFacts
    <3>2. QED
      BY <3>1 DEF LinkInv
  <2>3. QED
    BY <1>8, <2>1, <2>2 DEF FallbackFails
<1>9. CASE NobodyHandles
  <2>1. PICK e \in Event : Take(e)
    BY <1>9 DEF NobodyHandles
  <2>2. handling = "none" /\ handling' = "none" /\ link' = link
    BY <1>9 DEF NobodyHandles, loop
  <2>3. QED
    BY <2>1, <2>2, TakeFacts DEF LinkInv
<1>10. CASE Handle
  <2>1. PICK e \in Event : Take(e) /\ handling' = e
    BY <1>10 DEF Handle
  <2>2. handling = "none" /\ link' = link
    BY <1>10 DEF Handle
  <2>3. QED
    BY <2>1, <2>2, TakeFacts DEF LinkInv, Event
<1>11. CASE StationStarted
  BY <1>11, ConnectFacts DEF StationStarted, HandlerStores
<1>12. CASE Disconnected
  <2>1. handling = "disconnected" /\ handling' = "none" /\ queue' = queue
    BY <1>12 DEF Disconnected, HandlerStores
  <2>2. CASE esp_wifi_connect
    BY <2>1, <2>2, ConnectFacts
  <2>3. CASE UNCHANGED link
    BY <2>1, <2>3 DEF WifiInv, LinkInv
  <2>4. QED
    BY <1>12, <2>2, <2>3 DEF Disconnected
<1>13. CASE GotIp
  BY <1>13 DEF GotIp, HandlerStores, WifiInv, LinkInv
<1>14. CASE Driver
  <2>1. handling' = handling
    BY <1>14 DEF Driver, LinkTo, loop
  <2>2. CASE LinkTo("trying", "up", "got_ip")
    <3>1. queue = <<>> /\ handling = "none" /\ link' = "up"
      BY <2>2 DEF LinkTo, WifiInv, LinkInv
    <3>2. queue' = <<"got_ip">>
      BY <2>2, <3>1, QueueFacts DEF LinkTo
    <3>3. QED
      BY <2>1, <3>1, <3>2 DEF LinkInv
  <2>3. CASE LinkTo("trying", "idle", "disconnected")
    <3>1. queue = <<>> /\ handling = "none" /\ link' = "idle"
      BY <2>3 DEF LinkTo, WifiInv, LinkInv
    <3>2. queue' = <<"disconnected">>
      BY <2>3, <3>1, QueueFacts DEF LinkTo
    <3>3. QED
      BY <2>1, <3>1, <3>2 DEF LinkInv, Left
  <2>4. CASE LinkTo("up", "idle", "disconnected")
    <3>1. /\ queue \in {<<>>, <<"got_ip">>} /\ handling \in {"none", "got_ip"}
          /\ link' = "idle"
      BY <2>4 DEF LinkTo, WifiInv, LinkInv
    <3>2. queue' = Append(queue, "disconnected")
      BY <2>4 DEF LinkTo
    <3>3. queue' \in {<<"disconnected">>, <<"got_ip", "disconnected">>}
      BY <3>1, <3>2, QueueFacts
    <3>4. QED
      BY <2>1, <3>1, <3>3 DEF LinkInv, Left
  <2>5. QED
    BY <1>14, <2>2, <2>3, <2>4 DEF Driver
<1>15. CASE \E s \in Scanner : Scan(s)
  BY <1>15, <1>1 DEF Scan, BeginScan, StartScan, ScanRefused, EndScan, KeepAllButScan, loop
<1>16. QED
  BY <1>2, <1>3, <1>4, <1>5, <1>6, <1>7, <1>8, <1>9, <1>10, <1>11, <1>12, <1>13, <1>14,
     <1>15
  DEF WifiNext, Connect, WifiFailure, HandleWifiEvent

\* Who may set or clear the flags, and store them.
LEMMA FlagsStep ==
  ASSUME WifiInv, WifiNext
  PROVE  FlagsInv'
<1> USE DEF WifiInv, FlagsInv, Ended
<1>1. ctx \in Context /\ wifi \in Flags /\ copy \in [Publisher -> Flags]
  BY DEF WifiTypes
<1>2. /\ FlagsOf(ctx).connected = ctx.connected
      /\ FlagsOf(ctx).fallback = ctx.fallback
  BY <1>1, FlagsFact
<1>3. CASE BeginWifi
  BY <1>3 DEF BeginWifi, Move, loop, Unset, NotUp
<1>4. CASE RegisterWifi
  BY <1>4 DEF RegisterWifi, Move
<1>5. CASE RegisterIp
  BY <1>5 DEF RegisterIp, Move
<1>6. CASE StartStation \/ StartFails
  BY <1>6, <1>2 DEF StartStation, StartFails, Move, loop
<1>7. CASE Wait
  BY <1>7 DEF Wait, Move, loop, driver
<1>8. CASE UnregisterIp
  BY <1>8 DEF UnregisterIp, Move, driver
<1>9. CASE UnregisterWifi
  <2>1. step = "unregister_wifi" /\ step' \in {"publish", "fallback"}
    BY <1>9 DEF UnregisterWifi
  <2>2. ~ctx.fallback
    BY <2>1
  <2>3. QED
    BY <1>9, <2>1, <2>2 DEF UnregisterWifi, driver
<1>10. CASE Fallback
  <2>1. ctx' = [ctx EXCEPT !.fallback = TRUE, !.connected = FALSE]
    BY <1>10 DEF Fallback
  <2>2. ctx' = [connected |-> FALSE, fallback |-> TRUE, retry |-> ctx.retry]
    BY <2>1, <1>1 DEF Context
  <2>3. ctx'.fallback /\ ~ctx'.connected
    BY <2>2
  <2>4. copy'["main"] = FlagsOf(ctx')
    BY <1>10, <1>1 DEF Fallback, Publisher
  <2>5. step = "fallback" /\ step' = "store_fallback" /\ link' = "off" /\ wifi' = wifi
        /\ handling' = handling
    BY <1>10 DEF Fallback, Move, Stopped, loop
  <2>6. handling = "none" /\ ~ctx.fallback
    BY <2>5 DEF StationInv
  <2>7. QED
    BY <2>3, <2>4, <2>5, <2>6
<1>11. CASE StoreFallback \/ Store
  <2>1. wifi' = copy["main"] /\ copy["main"] = FlagsOf(ctx)
    BY <1>11 DEF StoreFallback, Store, Move
  <2>2. UNCHANGED <<ctx, copy, handling, link>>
    BY <1>11 DEF StoreFallback, Store, loop, driver
  <2>3. FlagsOf(ctx') = FlagsOf(ctx)
    BY <2>2
  <2>4. step \in {"store_fallback", "store"} /\ step' \in {"publish", "done"}
    BY <1>11 DEF StoreFallback, Store, Move
  <2>5. QED
    BY <2>1, <2>2, <2>3, <2>4, <1>2
<1>12. CASE Publish
  <2>1. step = "publish" /\ step' = "store" /\ UNCHANGED <<ctx, wifi, handling, link>>
    BY <1>12 DEF Publish, Move, loop, driver
  <2>2. copy'["main"] = FlagsOf(ctx')
    BY <1>12, <1>1 DEF Publish, Publisher, Move
  <2>3. handling = "none"
    BY <2>1 DEF StationInv
  <2>4. QED
    BY <2>1, <2>2, <2>3
<1>13. CASE SetUpFails \/ RegisterIpFails
  BY <1>13 DEF SetUpFails, RegisterIpFails, Move, loop, driver
<1>14. CASE FallbackFails
  <2>1. step = "fallback" /\ step' = "publish" /\ UNCHANGED <<ctx, wifi, copy, handling>>
    BY <1>14 DEF FallbackFails, Move, loop
  <2>2. ~ctx.fallback
    BY <2>1
  <2>3. QED
    BY <2>1, <2>2
<1>15. CASE NobodyHandles
  BY <1>15 DEF NobodyHandles, loop
<1>16. CASE Handle
  <2>1. PICK e \in Event : /\ HandlerOf(e) \in handlers
                           /\ ctx' = [ctx EXCEPT !.connected = (e = "got_ip"),
                                    !.retry = IF e = "got_ip" THEN 0 ELSE ctx.retry]
    BY <1>16 DEF Handle
  <2>2. ctx' = [connected |-> (e = "got_ip"), fallback |-> ctx.fallback,
                retry |-> IF e = "got_ip" THEN 0 ELSE ctx.retry]
    BY <2>1, <1>1 DEF Context
  <2>3. step \notin Ended
    BY <2>1 DEF StationInv
  <2>4. ~ctx.fallback
    BY <2>3
  <2>5. ctx'.fallback = FALSE
    BY <2>2, <2>4
  <2>6. copy'["events"] = FlagsOf(ctx') /\ UNCHANGED <<wifi, step>>
    BY <1>16, <1>1 DEF Handle, Publisher
  <2>7. FlagsOf(ctx').fallback = FALSE
    BY <2>5 DEF FlagsOf
  <2>8. QED
    BY <2>3, <2>4, <2>5, <2>6, <2>7
<1>17. CASE StationStarted \/ Disconnected \/ GotIp
  <2>1. handling # "none" /\ handling' = "none" /\ wifi' = copy["events"]
        /\ UNCHANGED <<step, copy>>
    BY <1>17 DEF StationStarted, Disconnected, GotIp, HandlerStores
  <2>2. step \notin Ended
    BY <2>1 DEF StationInv
  <2>3. ~ctx.fallback /\ ~copy["events"].fallback
    BY <2>1, <2>2
  <2>4. ctx'.fallback = ctx.fallback
    BY <1>17, <1>1 DEF StationStarted, Disconnected, GotIp, Context
  <2>5. QED
    BY <2>1, <2>2, <2>3, <2>4
<1>18. CASE Driver
  BY <1>18 DEF Driver, LinkTo, loop
<1>19. CASE \E s \in Scanner : Scan(s)
  BY <1>19 DEF Scan, BeginScan, StartScan, ScanRefused, EndScan, KeepAllButScan, loop
<1>20. QED
  BY <1>3, <1>4, <1>5, <1>6, <1>7, <1>8, <1>9, <1>10, <1>11, <1>12, <1>13, <1>14, <1>15,
     <1>16, <1>17, <1>18, <1>19
  DEF WifiNext, Connect, WifiFailure, HandleWifiEvent

\* The four parts together.
LEMMA WifiStepInv ==
  ASSUME WifiInv, WifiNext
  PROVE  WifiInv'
<1>1. WifiTypes' /\ StationInv' /\ LinkInv' /\ FlagsInv'
  BY TypesStep, StationStep, LinkStep, FlagsStep
<1>2. QED
  BY <1>1 DEF WifiInv

\* Steps that are not about Wi-Fi.
LEMMA WifiKept ==
  ASSUME WifiInv, UNCHANGED wifiVars
  PROVE  WifiInv'
BY DEF wifiVars, WifiInv, WifiTypes, StationInv, LinkInv, FlagsInv, FlagsOf

-----------------------------------------------------------------------------
(***************************************************************************)
(* The services.                                                           *)
(***************************************************************************)
All == ToSet(Created)

\* The handles that exist before the jobs are given the Zigbee service, which is
\* the last call of the creation.
Handles == {l \in All \X All : l[2] \in Given[l[1]]} \cup {<<"api", "zigbee">>}

\* The services are created in order, and only a creation that is under way is
\* rolled back.
LinksInv ==
    /\ live \subseteq All
    /\ links \subseteq live \X live
    /\ boot \in {"platform", "schema"} => live = {} /\ links = {}
    /\ boot \in {"create", "destroy"} => links \subseteq Handles
    /\ boot = "create" => \E k \in 0 .. 9 : live = {Created[j] : j \in 1 .. k}

\* The order of creation, item by item.
LEMMA CreatedFacts ==
  /\ DOMAIN Created = 1 .. 9
  /\ All = {Created[j] : j \in 1 .. 9}
  /\ All = {"device", "state", "wifi", "system", "wifi_system", "jobs", "api", "ws",
            "zigbee"}
  /\ \A i, j \in 1 .. 9 : Created[i] = Created[j] => i = j
  /\ Created[1] = "device" /\ Created[2] = "state" /\ Created[3] = "wifi"
  /\ Created[4] = "system" /\ Created[5] = "wifi_system" /\ Created[6] = "jobs"
  /\ Created[7] = "api" /\ Created[8] = "ws" /\ Created[9] = "zigbee"
<1>1. DOMAIN Created = 1 .. 9
  BY DEF Created
<1>2. /\ Created[1] = "device" /\ Created[2] = "state" /\ Created[3] = "wifi"
      /\ Created[4] = "system" /\ Created[5] = "wifi_system" /\ Created[6] = "jobs"
      /\ Created[7] = "api" /\ Created[8] = "ws" /\ Created[9] = "zigbee"
  BY DEF Created
<1>3. All = {Created[j] : j \in 1 .. 9}
  BY <1>1 DEF All, ToSet
<1>4. \A j \in 1 .. 9 : j \in {1, 2, 3, 4, 5, 6, 7, 8, 9}
  OBVIOUS
<1>5. All = {"device", "state", "wifi", "system", "wifi_system", "jobs", "api", "ws",
             "zigbee"}
  BY <1>2, <1>3, <1>4
<1>6. \A i, j \in 1 .. 9 : Created[i] = Created[j] => i = j
  BY <1>2, <1>4
<1>7. QED
  BY <1>1, <1>2, <1>3, <1>5, <1>6

\* Whom each service is given.
LEMMA GivenFacts ==
  /\ Given["device"] = {} /\ Given["state"] = {} /\ Given["wifi"] = {}
  /\ Given["system"] = {} /\ Given["ws"] = {}
  /\ Given["wifi_system"] = {"state", "wifi", "system"}
  /\ Given["jobs"] = {"wifi", "system"}
  /\ Given["api"] = {"wifi_system", "jobs"}
  /\ Given["zigbee"] = {"device", "state"}
<1>1. "device" \in ToSet(Created) /\ "state" \in ToSet(Created) /\ "wifi" \in ToSet(Created)
      /\ "system" \in ToSet(Created) /\ "ws" \in ToSet(Created)
      /\ "wifi_system" \in ToSet(Created) /\ "jobs" \in ToSet(Created)
      /\ "api" \in ToSet(Created) /\ "zigbee" \in ToSet(Created)
  BY CreatedFacts DEF All
<1>2. Given["device"] = {} /\ Given["state"] = {} /\ Given["wifi"] = {}
  BY <1>1, Zenon DEF Given
<1>3. Given["system"] = {} /\ Given["ws"] = {}
  BY <1>1, Zenon DEF Given
<1>4. Given["wifi_system"] = {"state", "wifi", "system"}
  BY <1>1, Zenon DEF Given
<1>5. Given["jobs"] = {"wifi", "system"}
  BY <1>1, Zenon DEF Given
<1>6. Given["api"] = {"wifi_system", "jobs"}
  BY <1>1, Zenon DEF Given
<1>7. Given["zigbee"] = {"device", "state"}
  BY <1>1, Zenon DEF Given
<1>8. QED
  BY <1>2, <1>3, <1>4, <1>5, <1>6, <1>7

\* FirstIn is the element with the smallest index.
LEMMA FirstInFact ==
  ASSUME NEW order, NEW set, NEW i \in DOMAIN order, DOMAIN order \subseteq Nat,
         order[i] \in set, \A j \in 1 .. i - 1 : order[j] \notin set,
         0 \notin DOMAIN order
  PROVE  FirstIn(order, set) = order[i]
<1> DEFINE P(n) == /\ order[n] \in set
                   /\ \A j \in 1 .. n - 1 : order[j] \notin set
<1>1. \A n \in DOMAIN order : P(n) => n = i
  <2> SUFFICES ASSUME NEW n \in DOMAIN order, P(n), n # i PROVE FALSE
    OBVIOUS
  <2>1. n \in Nat \ {0} /\ i \in Nat \ {0}
    OBVIOUS
  <2>2. n \in 1 .. i - 1 \/ i \in 1 .. n - 1
    BY <2>1
  <2>3. QED
    BY <2>2
<1>2. P(i)
  OBVIOUS
<1>3. (CHOOSE n \in DOMAIN order : P(n)) = i
  BY <1>1, <1>2
<1>4. QED
  BY <1>3 DEF FirstIn

\* Each service is given only services that were created before it.
LEMMA GivenBefore ==
  ASSUME NEW k \in 0 .. 8
  PROVE  Given[Created[k + 1]] \subseteq {Created[j] : j \in 1 .. k}
<1> DEFINE First == {Created[j] : j \in 1 .. k}
<1>1. \A j \in 1 .. k : Created[j] \in First
  OBVIOUS
<1> HIDE DEF First
<1>2. CASE k \in {0, 1, 2, 3, 7}
  BY <1>2, CreatedFacts, GivenFacts
<1>3. CASE k = 4
  <2>1. "state" \in First /\ "wifi" \in First /\ "system" \in First
    BY <1>1, <1>3, CreatedFacts
  <2>2. QED
    BY <1>3, <2>1, CreatedFacts, GivenFacts DEF First
<1>4. CASE k = 5
  <2>1. "wifi" \in First /\ "system" \in First
    BY <1>1, <1>4, CreatedFacts
  <2>2. QED
    BY <1>4, <2>1, CreatedFacts, GivenFacts DEF First
<1>5. CASE k = 6
  <2>1. "wifi_system" \in First /\ "jobs" \in First
    BY <1>1, <1>5, CreatedFacts
  <2>2. QED
    BY <1>5, <2>1, CreatedFacts, GivenFacts DEF First
<1>6. CASE k = 8
  <2>1. "device" \in First /\ "state" \in First
    BY <1>1, <1>6, CreatedFacts
  <2>2. QED
    BY <1>6, <2>1, CreatedFacts, GivenFacts DEF First
<1>7. QED
  BY <1>2, <1>3, <1>4, <1>5, <1>6

\* With the first k services alive, the next one is created.
LEMMA NextCreated ==
  ASSUME NEW k \in 0 .. 9, live = {Created[j] : j \in 1 .. k}, live # ToSet(Created)
  PROVE  /\ k \in 0 .. 8
         /\ FirstIn(Created, ToSet(Created) \ live) = Created[k + 1]
         /\ live \cup {Created[k + 1]} = {Created[j] : j \in 1 .. k + 1}
<1>1. k \in 0 .. 8
  <2>1. k # 9
    BY CreatedFacts DEF All
  <2>2. QED
    BY <2>1
<1>2. k + 1 \in 1 .. 9
  BY <1>1
<1>3. Created[k + 1] \in ToSet(Created) \ live
  <2>1. \A j \in 1 .. k : Created[j] # Created[k + 1]
    BY <1>2, CreatedFacts
  <2>2. Created[k + 1] \in ToSet(Created)
    BY <1>2, CreatedFacts DEF All
  <2>3. QED
    BY <2>1, <2>2
<1>4. \A j \in 1 .. (k + 1) - 1 : Created[j] \notin ToSet(Created) \ live
  OBVIOUS
<1>5. k + 1 \in DOMAIN Created /\ DOMAIN Created \subseteq Nat /\ 0 \notin DOMAIN Created
  BY <1>2, CreatedFacts
<1>6. FirstIn(Created, ToSet(Created) \ live) = Created[k + 1]
  <2> DEFINE left == ToSet(Created) \ live
             i == k + 1
  <2>1. /\ i \in DOMAIN Created /\ DOMAIN Created \subseteq Nat /\ 0 \notin DOMAIN Created
        /\ Created[i] \in left
        /\ \A j \in 1 .. i - 1 : Created[j] \notin left
    BY <1>3, <1>4, <1>5
  <2> HIDE DEF left, i
  <2>2. FirstIn(Created, left) = Created[i]
    BY <2>1, FirstInFact
  <2>3. QED
    BY <2>2 DEF left, i
<1>7. live \cup {Created[k + 1]} = {Created[j] : j \in 1 .. k + 1}
  BY <1>1
<1>8. QED
  BY <1>1, <1>6, <1>7

\* The order of destruction, item by item.
LEMMA DestroyedFacts ==
  /\ DOMAIN Destroyed = 1 .. 9
  /\ Destroyed[1] = "ws" /\ Destroyed[2] = "api" /\ Destroyed[3] = "zigbee"
  /\ Destroyed[4] = "jobs" /\ Destroyed[5] = "wifi_system" /\ Destroyed[6] = "system"
  /\ Destroyed[7] = "wifi" /\ Destroyed[8] = "state" /\ Destroyed[9] = "device"
  /\ \A s \in All : \E i \in 1 .. 9 : s = Destroyed[i]
<1>1. DOMAIN Destroyed = 1 .. 9
  BY DEF Destroyed
<1>2. /\ Destroyed[1] = "ws" /\ Destroyed[2] = "api" /\ Destroyed[3] = "zigbee"
      /\ Destroyed[4] = "jobs" /\ Destroyed[5] = "wifi_system" /\ Destroyed[6] = "system"
      /\ Destroyed[7] = "wifi" /\ Destroyed[8] = "state" /\ Destroyed[9] = "device"
  BY DEF Destroyed
<1>3. \A s \in All : \E i \in 1 .. 9 : s = Destroyed[i]
  BY <1>2, CreatedFacts
<1>4. QED
  BY <1>1, <1>2, <1>3

\* A service is destroyed after those that hold its handle.
LEMMA UsersFirst ==
  ASSUME NEW i \in 1 .. 9, NEW j \in 1 .. 9, <<Destroyed[i], Destroyed[j]>> \in Handles
  PROVE  i < j
<1>1. \/ Destroyed[j] \in Given[Destroyed[i]]
      \/ Destroyed[i] = "api" /\ Destroyed[j] = "zigbee"
  BY DEF Handles
<1>2. \A k \in 1 .. 9 : k \in {1, 2, 3, 4, 5, 6, 7, 8, 9}
  OBVIOUS
<1>3. CASE Destroyed[i] = "api" /\ Destroyed[j] = "zigbee"
  BY <1>2, <1>3, DestroyedFacts
<1>4. CASE Destroyed[j] \in Given[Destroyed[i]]
  BY <1>2, <1>4, DestroyedFacts, GivenFacts
<1>5. QED
  BY <1>1, <1>3, <1>4

\* While a service is left there is one to destroy next.
LEMMA FirstDestroyed ==
  ASSUME live \subseteq All, live # {}
  PROVE  \E i \in 1 .. 9 : /\ Destroyed[i] \in live
                         /\ \A j \in 1 .. i - 1 : Destroyed[j] \notin live
<1> DEFINE T == {i \in 1 .. 9 : Destroyed[i] \in live}
<1>1. T \subseteq Nat /\ T # {}
  BY DestroyedFacts
<1> HIDE DEF T
<1>2. \E i \in T : \A j \in T : ~(<<j, i>> \in OpToRel(<, Nat))
  BY <1>1, WFMin, NatLessThanWellFounded
<1>3. \E i \in T : \A j \in T : ~(j < i)
  BY <1>1, <1>2 DEF OpToRel
<1>4. QED
  BY <1>3 DEF T

\* A service is given the handles of services that exist.
LEMMA CreateLinks ==
  ASSUME LinksInv, Create
  PROVE  LinksInv'
<1> DEFINE s == FirstIn(Created, ToSet(Created) \ live)
<1>1. /\ boot = "create" /\ boot' = boot /\ live # ToSet(Created)
      /\ live' = live \cup {s}
      /\ links' = links \cup ({s} \X Given[s])
  BY DEF Create
<1>2. PICK k \in 0 .. 9 : live = {Created[j] : j \in 1 .. k}
  BY <1>1 DEF LinksInv
<1>3. k \in 0 .. 8 /\ s = Created[k + 1] /\ live' = {Created[j] : j \in 1 .. k + 1}
  BY <1>1, <1>2, NextCreated
<1>4. Given[s] \subseteq live
  BY <1>2, <1>3, GivenBefore
<1>5. s \in All
  BY <1>3, CreatedFacts
<1> HIDE DEF s
<1>6. live' \subseteq All
  BY <1>1, <1>5 DEF LinksInv
<1>7. links' \subseteq live' \X live'
  BY <1>1, <1>4 DEF LinksInv
<1>8. links' \subseteq Handles
  BY <1>1, <1>4, <1>5 DEF LinksInv, Handles
<1>9. k + 1 \in 0 .. 9
  BY <1>3
<1>10. QED
  BY <1>1, <1>3, <1>6, <1>7, <1>8, <1>9 DEF LinksInv

\* A service is destroyed when nobody holds its handle.
LEMMA DestroyLinks ==
  ASSUME LinksInv, Destroy
  PROVE  LinksInv'
<1> DEFINE s == FirstIn(Destroyed, live)
<1>1. /\ boot = "destroy" /\ boot' = boot /\ live # {}
      /\ live' = live \ {s}
      /\ links' = {l \in links : l[1] # s}
  BY DEF Destroy
<1>2. PICK i \in 1 .. 9 : /\ Destroyed[i] \in live
                         /\ \A j \in 1 .. i - 1 : Destroyed[j] \notin live
  BY <1>1, FirstDestroyed DEF LinksInv
<1>3. s = Destroyed[i]
  <2>1. i \in DOMAIN Destroyed /\ DOMAIN Destroyed \subseteq Nat /\ 0 \notin DOMAIN Destroyed
    BY DestroyedFacts
  <2>2. QED
    BY <1>2, <2>1, FirstInFact
<1> HIDE DEF s
<1>4. \A l \in links : l[2] # s
  <2> SUFFICES ASSUME NEW l \in links, l[2] = s PROVE FALSE
    OBVIOUS
  <2>1. l \in Handles /\ l[1] \in live /\ l = <<l[1], l[2]>>
    BY <1>1 DEF LinksInv
  <2>2. PICK j \in 1 .. 9 : l[1] = Destroyed[j]
    BY <2>1, DestroyedFacts DEF LinksInv
  <2>3. j < i
    BY <1>3, <2>1, <2>2, UsersFirst
  <2>4. j \in 1 .. i - 1
    BY <2>3
  <2>5. QED
    BY <1>2, <2>1, <2>2, <2>4
<1>5. links' \subseteq live' \X live'
  BY <1>1, <1>4 DEF LinksInv
<1>6. QED
  BY <1>1, <1>5 DEF LinksInv

-----------------------------------------------------------------------------
(***************************************************************************)
(* The gateway.                                                            *)
(***************************************************************************)
StartPlace == {"platform", "schema", "create", "destroy", "attach", "wifi", "files",
               "web", "decide", "done"}
Phases     == {"off", "initialized", "initialization", "retry_initialization",
               "formation", "retry_formation", "steering", "up"}
Network    == Pan \cup {None}

StartTypes ==
    /\ boot \in StartPlace
    /\ version \in Nat
    /\ flash \in [schema : {None, Current, Current + 1}, pan : Network]
    /\ web \in BOOLEAN
    /\ stack \in [phase : Phases, pan : Network, open : BOOLEAN]
    /\ network \in [started : BOOLEAN, new : BOOLEAN, pan : Network]
    /\ faults \in 0 .. FaultBound

\* The stack starts after Wi-Fi has ended without the fallback, is published as it
\* is, and forms a network only when there is none.
StackInv ==
    /\ boot \in {"files", "web", "decide", "done"} => step = "done"
    /\ stack.phase = "off" => network = Unknown
    /\ stack.phase # "off" =>
          boot = "done" /\ ~wifi.fallback /\ network.pan = stack.pan
    /\ stack.phase \in {"formation", "retry_formation"} => flash.pan = None

StartInv == WifiInv /\ StartTypes /\ StackInv /\ LinksInv

\* The steps by the part of the state they are about.
Restarts == /\ Reset
            /\ flash' \in [schema : {None, Current, Current + 1}, pan : Network]
            /\ flash'.pan = flash.pan
            /\ faults' \in 0 .. FaultBound

\* A fault is counted.
LEMMA FaultFact ==
  ASSUME StartTypes, Fault
  PROVE  faults' \in 0 .. FaultBound
BY StartAssumption DEF StartTypes, Fault

\* What a restart finds: RAM as after reset, and the same network.
LEMMA RestartFacts ==
  ASSUME StartTypes,
         MigrateFails \/ SchemaTooNew \/ DestroyedAll \/ Abort \/ Restart
  PROVE  Restarts
<1>1. CASE MigrateFails
  <2>1. version + 1 = Current
    BY <1>1 DEF MigrateFails, StartTypes, Current
  <2>2. flash' \in {flash, [flash EXCEPT !.schema = Current]}
    BY <1>1, <2>1 DEF MigrateFails
  <2>3. /\ flash' \in [schema : {None, Current, Current + 1}, pan : Network]
        /\ flash'.pan = flash.pan
    BY <2>2 DEF StartTypes
  <2>4. QED
    BY <1>1, <2>3, FaultFact DEF MigrateFails, Restarts
<1>2. CASE SchemaTooNew \/ DestroyedAll
  BY <1>2 DEF SchemaTooNew, DestroyedAll, Restarts, StartTypes
<1>3. CASE Abort \/ Restart
  BY <1>3, FaultFact DEF Abort, Restart, Restarts, StartTypes
<1>4. QED
  BY <1>1, <1>2, <1>3

\* A restart is a start.
LEMMA ResetInv ==
  ASSUME StartInv, Restarts
  PROVE  StartInv'
<1>1. WifiInv'
  BY WifiStartsAgain DEF Restarts, Reset
<1>2. StartTypes'
  BY DEF Restarts, Reset, StartTypes, StartPlace, Phases, Network, StackOff, Unknown
<1>3. StackInv'
  BY DEF Restarts, Reset, StackInv, StackOff, Unknown
<1>4. LinksInv'
  BY DEF Restarts, Reset, LinksInv
<1>5. QED
  BY <1>1, <1>2, <1>3, <1>4 DEF StartInv

\* The first start.
LEMMA InitStart == Init => StartInv
<1> SUFFICES ASSUME Init PROVE StartInv
  OBVIOUS
<1>1. WifiInv
  BY WifiStarts DEF Init
<1>2. StartTypes
  <2>1. StackOff \in [phase : Phases, pan : Network, open : BOOLEAN]
    BY DEF StackOff, Phases, Network
  <2>2. Unknown \in [started : BOOLEAN, new : BOOLEAN, pan : Network]
    BY DEF Unknown, Network
  <2>3. 0 \in 0 .. FaultBound
    BY StartAssumption
  <2>4. QED
    BY <2>1, <2>2, <2>3 DEF Init, StartTypes, StartPlace, Network
<1>3. StackInv
  BY DEF Init, StackInv, StackOff, Unknown
<1>4. LinksInv
  BY DEF Init, LinksInv
<1>5. QED
  BY <1>1, <1>2, <1>3, <1>4 DEF StartInv

\* Steps that leave the services alone.
LEMMA LinksKept ==
  ASSUME LinksInv, UNCHANGED services,
         \/ boot' = boot
         \/ boot' \notin {"platform", "schema", "create", "destroy"}
         \/ boot = "platform" /\ boot' = "schema"
         \/ boot = "create" /\ boot' = "destroy"
  PROVE  LinksInv'
BY DEF LinksInv, services

\* gateway_app_start.
LEMMA MainInv ==
  ASSUME StartInv, Main, ~SchemaTooNew, ~DestroyedAll
  PROVE  StartInv'
<1> USE DEF StartInv
<1>1. UNCHANGED wifiVars => WifiInv'
  BY WifiKept
<1>2. UNCHANGED wifiVars => step' = step /\ wifi' = wifi
  BY DEF wifiVars
<1> USE DEF StartTypes, StackInv, StartPlace, Go, services, zigbee
<1>3. CASE ReadSchema
  <2>1. version' \in Nat
    BY <1>3, StartAssumption DEF ReadSchema, Current
  <2>2. LinksInv'
    BY <1>3, LinksKept DEF ReadSchema
  <2>3. QED
    BY <1>3, <1>1, <1>2, <2>1, <2>2 DEF ReadSchema
<1>4. CASE Migrate
  <2>1. version + 1 = Current
    BY <1>4 DEF Migrate, Current
  <2>2. /\ flash' \in [schema : {None, Current, Current + 1}, pan : Network]
        /\ flash'.pan = flash.pan
    BY <1>4, <2>1 DEF Migrate
  <2>3. LinksInv'
    BY <1>4, LinksKept DEF Migrate
  <2>4. QED
    BY <1>4, <1>1, <1>2, <2>2, <2>3 DEF Migrate
<1>5. CASE SchemaReady
  <2>1. LinksInv'
    <3>1. live' = {Created[j] : j \in 1 .. 0} /\ 0 \in 0 .. 9
      BY <1>5 DEF SchemaReady, LinksInv
    <3>2. QED
      BY <1>5, <3>1 DEF SchemaReady, LinksInv
  <2>2. QED
    BY <1>5, <1>1, <1>2, <2>1 DEF SchemaReady
<1>6. CASE Create
  <2>1. LinksInv'
    BY <1>6, CreateLinks
  <2>2. /\ stack.phase = "off" /\ network = Unknown
    BY <1>6 DEF Create
  <2>3. network' = Unknown
    BY <1>6, <2>2 DEF Create
  <2>4. QED
    BY <1>6, <1>1, <1>2, <2>1, <2>2, <2>3 DEF Create
<1>7. CASE LinkApi
  <2>1. LinksInv'
    BY <1>7, CreatedFacts DEF LinkApi, LinksInv, Handles, All
  <2>2. QED
    BY <1>7, <1>1, <1>2, <2>1 DEF LinkApi
<1>8. CASE LinkJobs
  <2>1. boot = "create" /\ boot' = "attach" /\ UNCHANGED live
        /\ links' = links \cup {<<"jobs", "zigbee">>}
    BY <1>8 DEF LinkJobs
  <2>2. "zigbee" \in live
    BY <1>8 DEF LinkJobs, LinksInv
  <2>3. PICK k \in 0 .. 9 : live = {Created[j] : j \in 1 .. k}
    BY <2>1 DEF LinksInv
  <2>4. PICK j \in 1 .. k : Created[j] = "zigbee"
    BY <2>2, <2>3
  <2>5. j = 9
    BY <2>4, CreatedFacts
  <2>6. Created[6] \in live
    BY <2>3, <2>4, <2>5
  <2>7. "jobs" \in live
    BY <2>6, CreatedFacts
  <2>8. LinksInv'
    BY <2>1, <2>2, <2>7 DEF LinksInv
  <2>9. QED
    BY <1>8, <1>1, <1>2, <2>8 DEF LinkJobs
<1>9. CASE Destroy
  <2>1. LinksInv'
    BY <1>9, DestroyLinks
  <2>2. QED
    BY <1>9, <1>1, <1>2, <2>1 DEF Destroy
<1>10. CASE Attach \/ WifiReturns \/ MountFiles
  <2>1. LinksInv'
    BY <1>10, LinksKept DEF Attach, WifiReturns, MountFiles
  <2>2. QED
    BY <1>10, <1>1, <1>2, <2>1 DEF Attach, WifiReturns, MountFiles
<1>11. CASE StartWeb
  <2>1. LinksInv'
    BY <1>11, LinksKept DEF StartWeb
  <2>2. faults' \in 0 .. FaultBound
    BY <1>11, FaultFact DEF StartWeb
  <2>3. QED
    BY <1>11, <1>1, <1>2, <2>1, <2>2 DEF StartWeb
<1>12. CASE Postpone
  <2>1. LinksInv'
    BY <1>12, LinksKept DEF Postpone
  <2>2. QED
    BY <1>12, <1>1, <1>2, <2>1 DEF Postpone
<1>13. CASE StartZigbee
  <2>1. LinksInv'
    BY <1>13, LinksKept DEF StartZigbee
  <2>2. stack' = [phase |-> "initialized", pan |-> None, open |-> FALSE]
    BY <1>13 DEF StartZigbee, StackOff
  <2>3. stack.phase = "off" /\ network = Unknown
    BY <1>13 DEF StartZigbee
  <2>4. WifiInv' /\ step' = step /\ wifi' = wifi
    BY <1>13, <1>1, <1>2 DEF StartZigbee
  <2>5. stack' \in [phase : Phases, pan : Network, open : BOOLEAN]
    BY <2>2 DEF Network, Phases
  <2>6. boot' = "done" /\ UNCHANGED <<version, flash, web, network, faults>>
    BY <1>13 DEF StartZigbee
  <2>7. StartTypes'
    BY <2>5, <2>6
  <2>8. network' = network /\ network.pan = None
    BY <1>13, <2>3 DEF StartZigbee, Unknown
  <2>9. StackInv'
    BY <1>13, <2>2, <2>4, <2>8 DEF StartZigbee, FallbackActive
  <2>10. QED
    BY <2>1, <2>4, <2>7, <2>9
<1>14. QED
  BY <1>3, <1>4, <1>5, <1>6, <1>7, <1>8, <1>9, <1>10, <1>11, <1>12, <1>13 DEF Main

\* esp_zb_app_signal_handler, and what opens or closes the network.
LEMMA ZigbeeInv ==
  ASSUME StartInv,
         Commission \/ CommissionFails \/ Close \/ PermitJoin \/ EraseNetwork
  PROVE  StartInv'
<1>1. KeepAllButZigbee
  BY DEF Commission, SkipStartup, Started, Formed, RetryLater, Steered, CommissionFails,
     StartFailsLater, FormationFails, Close, PermitJoin, EraseNetwork
<1>2. WifiInv'
  BY <1>1, WifiKept DEF KeepAllButZigbee, StartInv
<1>3. LinksInv'
  BY <1>1, LinksKept DEF KeepAllButZigbee, StartInv
<1>4. UNCHANGED <<boot, version, web, step, wifi>>
  BY <1>1 DEF KeepAllButZigbee, wifiVars
<1> DEFINE T == /\ flash' \in [schema : {None, Current, Current + 1}, pan : Network]
                /\ stack' \in [phase : Phases, pan : Network, open : BOOLEAN]
                /\ network' \in [started : BOOLEAN, new : BOOLEAN, pan : Network]
                /\ faults' \in 0 .. FaultBound
           S == /\ stack.phase # "off" /\ stack'.phase # "off"
                /\ network'.pan = stack'.pan
                /\ stack'.phase \in {"formation", "retry_formation"} => flash'.pan = None
           E == /\ stack'.phase = stack.phase /\ stack'.pan = stack.pan
                /\ network' = network
                /\ flash'.pan \in {flash.pan, None}
<1>5. ASSUME T, S \/ E PROVE StartInv'
  <2>1. StartTypes'
    BY <1>4, <1>5 DEF StartInv, StartTypes
  <2>2. StackInv'
    BY <1>4, <1>5 DEF StartInv, StackInv
  <2>3. QED
    BY <1>2, <1>3, <2>1, <2>2 DEF StartInv
<1> USE DEF StartInv, StartTypes, StackInv, Phase, PublishNetwork, FactoryNew
<1>6. CASE SkipStartup
  <2>1. /\ stack.phase = "initialized"
        /\ stack' = [phase |-> "initialization", pan |-> stack.pan, open |-> stack.open]
    BY <1>6 DEF SkipStartup
  <2>2. network' = [started |-> TRUE, new |-> (flash.pan = None), pan |-> stack.pan]
    BY <1>6, <2>1 DEF SkipStartup
  <2>3. UNCHANGED <<flash, faults>>
    BY <1>6 DEF SkipStartup
  <2>4. T /\ S
    BY <2>1, <2>2, <2>3 DEF Phases
  <2>5. QED
    BY <1>5, <2>4
<1>7. CASE Started
  <2>1. stack.phase = "initialization" /\ UNCHANGED <<flash, faults>>
    BY <1>7 DEF Started
  <2>2. CASE flash.pan = None
    <3>1. stack' = [phase |-> "formation", pan |-> stack.pan, open |-> stack.open]
      BY <1>7, <2>2 DEF Started
    <3>2. network' = [started |-> TRUE, new |-> TRUE, pan |-> stack.pan]
      BY <1>7, <2>2, <3>1 DEF Started
    <3>3. T /\ S
      BY <2>1, <2>2, <3>1, <3>2 DEF Phases
    <3>4. QED
      BY <1>5, <3>3
  <2>3. CASE flash.pan # None
    <3>1. stack' = [phase |-> "up", pan |-> flash.pan, open |-> TRUE]
      BY <1>7, <2>3 DEF Started
    <3>2. network' = [started |-> TRUE, new |-> (flash.pan = None), pan |-> stack'.pan]
      BY <1>7 DEF Started
    <3>3. (flash.pan = None) = FALSE /\ stack'.pan = flash.pan
      BY <2>3, <3>1
    <3>4. network' = [started |-> TRUE, new |-> FALSE, pan |-> flash.pan]
      BY <3>2, <3>3
    <3>5. T /\ S
      BY <2>1, <2>3, <3>1, <3>4 DEF Phases
    <3>6. QED
      BY <1>5, <3>5
  <2>4. QED
    BY <2>2, <2>3
<1>8. CASE Formed
  <2>1. PICK p \in Pan : /\ stack' = [stack EXCEPT !.phase = "steering", !.pan = p]
                         /\ flash' = [flash EXCEPT !.pan = p]
    BY <1>8 DEF Formed
  <2>2. stack' = [phase |-> "steering", pan |-> p, open |-> stack.open]
    BY <2>1
  <2>3. network' = [started |-> TRUE, new |-> FALSE, pan |-> p]
    BY <1>8, <2>2 DEF Formed
  <2>4. flash' = [schema |-> flash.schema, pan |-> p]
    BY <2>1
  <2>5. stack.phase = "formation" /\ UNCHANGED faults
    BY <1>8 DEF Formed
  <2>6. T /\ S
    BY <2>2, <2>3, <2>4, <2>5 DEF Phases, Network
  <2>7. QED
    BY <1>5, <2>6
<1>9. CASE RetryLater
  <2>1. /\ stack.phase \in {"retry_initialization", "retry_formation"}
        /\ stack'.phase = "formation" => stack.phase = "retry_formation"
        /\ stack'.phase \in {"initialization", "formation"}
        /\ stack' = [phase |-> stack'.phase, pan |-> stack.pan, open |-> stack.open]
    BY <1>9 DEF RetryLater
  <2>2. UNCHANGED <<flash, network, faults>>
    BY <1>9 DEF RetryLater
  <2>3. T /\ S
    BY <2>1, <2>2 DEF Phases
  <2>4. QED
    BY <1>5, <2>3
<1>10. CASE Steered
  <2>1. /\ stack.phase = "steering" /\ stack'.phase = "up" /\ stack'.pan = stack.pan
        /\ stack' \in [phase : Phases, pan : Network, open : BOOLEAN]
    BY <1>10 DEF Steered, Phases
  <2>2. faults' \in 0 .. FaultBound /\ UNCHANGED <<flash, network>>
    BY <1>10, FaultFact DEF Steered
  <2>3. T /\ S
    BY <2>1, <2>2
  <2>4. QED
    BY <1>5, <2>3
<1>11. CASE StartFailsLater \/ FormationFails
  <2>1. /\ stack.phase \in {"initialization", "formation"}
        /\ stack'.phase = "retry_formation" => stack.phase = "formation"
        /\ stack'.phase \in {"retry_initialization", "retry_formation"}
        /\ stack' = [phase |-> stack'.phase, pan |-> stack.pan, open |-> stack.open]
    BY <1>11 DEF StartFailsLater, FormationFails
  <2>2. faults' \in 0 .. FaultBound /\ UNCHANGED <<flash, network>>
    BY <1>11, FaultFact DEF StartFailsLater, FormationFails
  <2>3. T /\ S
    BY <2>1, <2>2 DEF Phases
  <2>4. QED
    BY <1>5, <2>3
<1>12. CASE Close \/ PermitJoin
  <2>1. stack' \in {[stack EXCEPT !.open = TRUE], [stack EXCEPT !.open = FALSE]}
    BY <1>12 DEF Close, PermitJoin
  <2>2. UNCHANGED <<flash, network, faults>>
    BY <1>12 DEF Close, PermitJoin
  <2>3. T /\ E
    BY <2>1, <2>2
  <2>4. QED
    BY <1>5, <2>3
<1>13. CASE EraseNetwork
  <2>1. flash' = [flash EXCEPT !.pan = None] /\ UNCHANGED <<stack, network>>
    BY <1>13 DEF EraseNetwork, zigbee
  <2>2. faults' \in 0 .. FaultBound
    BY <1>13, FaultFact DEF EraseNetwork
  <2>3. T /\ E
    BY <2>1, <2>2 DEF Network
  <2>4. QED
    BY <1>5, <2>3
<1>14. QED
  BY <1>6, <1>7, <1>8, <1>9, <1>10, <1>11, <1>12, <1>13 DEF Commission, CommissionFails

\* When the start is over nobody stores the flags.
LEMMA FlagsAtRest ==
  ASSUME WifiInv, step = "done", HandleWifiEvent \/ Driver \/ \E s \in Scanner : Scan(s)
  PROVE  UNCHANGED <<step, wifi>>
<1>1. handlers = {} /\ handling = "none"
  BY DEF WifiInv, StationInv, Ended
<1>2. CASE HandleWifiEvent
  BY <1>1, <1>2 DEF HandleWifiEvent, NobodyHandles, Handle, StationStarted, Disconnected,
     GotIp, HandlerStores
<1>3. CASE Driver
  BY <1>3 DEF Driver, LinkTo
<1>4. CASE \E s \in Scanner : Scan(s)
  BY <1>4 DEF Scan, BeginScan, StartScan, ScanRefused, EndScan, KeepAllButScan
<1>5. QED
  BY <1>2, <1>3, <1>4

\* Wi-Fi and scans within the gateway.
LEMMA WifiStartInv ==
  ASSUME StartInv, WifiStep \/ WifiFails \/ WebScan
  PROVE  StartInv'
<1>1. WifiNext
  BY DEF WifiStep, WifiFails, WebScan, WifiNext
<1>2. WifiInv'
  BY <1>1, WifiStepInv DEF StartInv
<1>3. UNCHANGED <<boot, version, flash, live, links, web, stack, network>>
  BY DEF WifiStep, WifiFails, WebScan, startVars, services, zigbee
<1>4. faults' \in 0 .. FaultBound
  BY FaultFact DEF StartInv, StartTypes, WifiStep, WifiFails, WebScan, startVars
<1>5. LinksInv'
  BY <1>3, LinksKept DEF StartInv, services
<1>6. boot \in {"files", "web", "decide", "done"} => UNCHANGED <<step, wifi>>
  BY FlagsAtRest DEF StartInv, StackInv, WifiStep, WifiFails, WebScan
<1>7. StackInv'
  BY <1>3, <1>6 DEF StartInv, StackInv
<1>8. QED
  BY <1>2, <1>3, <1>4, <1>5, <1>7 DEF StartInv, StartTypes

\* Every step of the gateway.
LEMMA NextStartInv == StartInv /\ [Next]_vars => StartInv'
<1> SUFFICES ASSUME StartInv, [Next]_vars PROVE StartInv'
  OBVIOUS
<1>1. CASE MigrateFails \/ SchemaTooNew \/ DestroyedAll \/ Abort \/ Restart
  BY <1>1, RestartFacts, ResetInv DEF StartInv
<1>2. CASE Main /\ ~SchemaTooNew /\ ~DestroyedAll
  BY <1>2, MainInv
<1>3. CASE CreateFails
  <2>1. boot = "create" /\ boot' = "destroy" /\ UNCHANGED wifiVars /\ UNCHANGED services
        /\ UNCHANGED <<version, flash, web, stack, network>>
    BY <1>3 DEF CreateFails, Go, zigbee
  <2>2. faults' \in 0 .. FaultBound
    BY <1>3, FaultFact DEF CreateFails, StartInv
  <2>3. WifiInv' /\ LinksInv' /\ UNCHANGED <<step, wifi>>
    BY <2>1, WifiKept, LinksKept DEF StartInv, wifiVars
  <2>4. QED
    BY <2>1, <2>2, <2>3 DEF StartInv, StartTypes, StackInv, StartPlace
<1>4. CASE WifiStep \/ WifiFails \/ WebScan
  BY <1>4, WifiStartInv
<1>5. CASE Commission \/ CommissionFails \/ Close \/ PermitJoin \/ EraseNetwork
  BY <1>5, ZigbeeInv
<1>6. CASE UNCHANGED vars
  <2>1. UNCHANGED wifiVars /\ UNCHANGED startVars
    BY <1>6 DEF vars
  <2>2. WifiInv' /\ UNCHANGED <<step, wifi>>
    BY <2>1, WifiKept DEF StartInv, wifiVars
  <2>3. UNCHANGED services /\ UNCHANGED <<boot, version, flash, web, stack, network, faults>>
    BY <2>1 DEF startVars, services
  <2>4. LinksInv'
    BY <2>3, LinksKept DEF StartInv
  <2>5. QED
    BY <2>2, <2>3, <2>4 DEF StartInv, StartTypes, StackInv
<1>7. QED
  BY <1>1, <1>2, <1>3, <1>4, <1>5, <1>6 DEF Next

\* The inductive invariant holds.
LEMMA StartInvariant == Spec => []StartInv
BY InitStart, NextStartInv, PTL DEF Spec

-----------------------------------------------------------------------------
(***************************************************************************)
(* Theorems.                                                               *)
(***************************************************************************)
\* What the event loop's queue can hold.
LEMMA QueueType ==
  ASSUME WifiInv
  PROVE  queue \in Seq(Event) /\ Len(queue) <= 2
<1>1. queue \in Left \cup {<<"got_ip">>}
  BY DEF WifiInv, WifiTypes, LinkInv, Left
<1>2. /\ <<>> \in Seq(Event) /\ Len(<<>>) = 0
      /\ \A e \in Event : <<e>> \in Seq(Event) /\ Len(<<e>>) = 1
      /\ \A e, f \in Event : <<e, f>> \in Seq(Event) /\ Len(<<e, f>>) = 2
  OBVIOUS
<1>3. "start" \in Event /\ "disconnected" \in Event /\ "got_ip" \in Event
  BY DEF Event
<1> HIDE DEF Event
<1>4. CASE queue = <<>>
  BY <1>4, <1>2
<1>5. CASE \E e \in Event : queue = <<e>>
  BY <1>5, <1>2
<1>6. CASE queue = <<"got_ip", "disconnected">>
  BY <1>6, <1>2, <1>3
<1>7. QED
  BY <1>1, <1>3, <1>4, <1>5, <1>6 DEF Left

\* The inductive invariant has the types.
LEMMA TypeFromInv == StartInv => TypeOK
<1> SUFFICES ASSUME StartInv PROVE TypeOK
  OBVIOUS
<1>1. FlagsOf(ctx) \in Flags /\ ctx.retry \in 0 .. MaxRetry
  BY FlagsFact DEF StartInv, WifiInv, WifiTypes, Context
<1>2. WifiTypeOK
  BY <1>1, QueueType DEF StartInv, WifiInv, WifiTypes, WifiTypeOK, Place, ScanPlace
<1>3. live \subseteq ToSet(Created) /\ links \subseteq ToSet(Created) \X ToSet(Created)
  BY DEF StartInv, LinksInv, All
<1>4. QED
  BY <1>2, <1>3 DEF StartInv, StartTypes, TypeOK, StartPlace, Phases, Network

\* Every variable keeps its type, for any number of retries and faults and any set
\* of networks: the driver's events in the loop are never more than two, and the
\* retry counter stays within WIFI_STA_MAX_RETRY (wifi_sta.c:53).
THEOREM TypeCorrect == Spec => []TypeOK
BY StartInvariant, TypeFromInv, PTL

\* Whichever call of the start fails, no service that is left holds the handle of
\* one that was destroyed (gateway_app_runtime.c:158).
THEOREM NoHandleDangles == Spec => []NoDanglingLink
<1>1. StartInv => NoDanglingLink
  BY DEF StartInv, LinksInv, NoDanglingLink
<1>2. QED
  BY <1>1, StartInvariant, PTL

\* While the fallback access point is shown, the station is neither connected nor
\* trying to, and the Zigbee stack does not run, however late the driver's events
\* come and whatever fails (wifi_sta.c:181).
THEOREM FallbackExcludes == Spec => []FallbackIsExclusive
<1>1. StartInv => FallbackIsExclusive
  BY DEF StartInv, WifiInv, FlagsInv, StackInv, FallbackIsExclusive
<1>2. QED
  BY <1>1, StartInvariant, PTL

\* When the start is over, what is published is the context's and the stack's
\* state: neither of the two tasks stored an older copy over a newer one
\* (wifi_init.c:66).
THEOREM PublishedStaysCurrent == Spec => []PublishedIsCurrent
<1>1. StartInv => PublishedIsCurrent
  BY DEF StartInv, WifiInv, FlagsInv, StackInv, PublishedIsCurrent
<1>2. QED
  BY <1>1, StartInvariant, PTL

\* A network, once formed, is the network until a factory reset: no restart and
\* no retry forms another one over it (gateway_zigbee_runtime_signals.c:107).
THEOREM NetworkStays == Spec => NetworkIsKept
<1>1. ASSUME StartInv, [Next]_vars, flash.pan # None
      PROVE  flash'.pan \in {flash.pan, None}
  <2>1. CASE MigrateFails \/ SchemaTooNew \/ DestroyedAll \/ Abort \/ Restart
    BY <1>1, <2>1, RestartFacts DEF StartInv, Restarts
  <2>2. CASE Migrate
    BY <2>2, <1>1 DEF Migrate, StartInv, StartTypes
  <2>3. CASE Formed
    BY <1>1, <2>3 DEF Formed, StartInv, StackInv
  <2>4. CASE EraseNetwork
    BY <1>1, <2>4 DEF EraseNetwork, StartInv, StartTypes
  <2>5. CASE UNCHANGED flash
    BY <2>5
  <2>6. QED
    BY <1>1, <2>1, <2>2, <2>3, <2>4, <2>5
    DEF Next, Main, ReadSchema, SchemaReady, Create, LinkApi, LinkJobs, Destroy, Attach,
        WifiReturns, MountFiles, StartWeb, Postpone, StartZigbee, CreateFails, WifiStep,
        WifiFails, WebScan, Commission, SkipStartup, Started, RetryLater, Steered,
        CommissionFails, StartFailsLater, FormationFails, Close, PermitJoin, vars, startVars
<1>2. StartInv /\ [Next]_vars =>
        [flash.pan # None => flash.pan' \in {flash.pan, None}]_vars
  BY <1>1
<1>3. QED
  BY <1>2, StartInvariant, PTL DEF Spec, NetworkIsKept
=============================================================================
