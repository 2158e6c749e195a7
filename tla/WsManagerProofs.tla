--------------------------- MODULE WsManagerProofs ---------------------------
(* Theorems about WsManager for every number of sockets, slots and payloads *)
(* and all intervals that its assumption allows.                            *)
EXTENDS WsManager, FiniteSetTheorems, TLAPS

(***************************************************************************)
(* The inductive invariant.                                                *)
(***************************************************************************)

\* The content of a frame is one of its stream.
FrameMatches(f) == f.stream \in Told => f.content \in Content[f.stream] \cup {None}

\* A task that is past the try of the broadcast lock holds it.
LockHeld == \A t \in Task : place[t].pc \in {"send", "slow", "out"} => lock = t

\* The HTTP task closes no socket that is listed, and none that it was not told
\* to close.
LeavesFirst ==
    /\ place["httpd"].fd \notin clients
    /\ At("httpd", "idle") => place["httpd"].fd = None

\* The timer is stopped for an empty table only.
StopsForNobody == At("httpd", "stop") => clients = {}

Inv ==
    /\ TypeOK
    /\ FrameMatches(frame)
    /\ LockHeld
    /\ SendersOwnFrame
    /\ LeavesFirst
    /\ ClientsAreOpen
    /\ StopsForNobody
    /\ TimerRunsForClients

(***************************************************************************)
(* Types of the parts.                                                     *)
(***************************************************************************)
LEMMA IntervalTypes ==
  /\ {MaxClients, MinInterval, Retry, EventBound, DupInterval, SlowInterval,
      Period, Off} \subseteq Nat
  /\ Off = Period + 1 /\ Retry \in 0 .. Off /\ Period \in 0 .. Off
  /\ Period # Off
BY WsAssumption DEF Off

LEMMA UnseenType == Unseen \in Sent
BY DEF Unseen, Sent

LEMMA AtRestType == AtRest \in Place /\ AtRest.pc = "idle" /\ AtRest.fd = None
<1>1. NoFrame \in Frame
  BY DEF NoFrame, Frame, Stream
<1>2. QED
  BY <1>1 DEF AtRest, Place

LEMMA PayloadType ==
  ASSUME source \in Sources, NEW s \in Stream
  PROVE  /\ Payload(s) \in DeviceList \cup LinkQuality \cup {None}
         /\ s \in Told => Payload(s) \in Content[s]
BY DEF Payload, Sources, Told

LEMMA CountDownType ==
  ASSUME NEW d \in 0 .. Off
  PROVE  /\ CountDown(d) \in 0 .. Off
         /\ d # Off => CountDown(d) # Off
         /\ d = Off => CountDown(d) = Off
BY IntervalTypes DEF CountDown

\* The pc of one task changes.
LEMMA GotoType ==
  ASSUME place \in [Task -> Place], NEW t \in Task,
         NEW pc \in {"idle", "added", "removed", "stop", "close", "broadcast",
                     "send", "slow", "out"},
         Goto(t, pc)
  PROVE  /\ place' \in [Task -> Place]
         /\ place'[t].pc = pc /\ place'[t].fd = place[t].fd
         /\ place'[t].own = place[t].own
         /\ \A u \in Task \ {t} : place'[u] = place[u]
BY DEF Goto, Place

LEMMA RestType ==
  ASSUME place \in [Task -> Place], NEW t \in Task, Rest(t)
  PROVE  /\ place' \in [Task -> Place]
         /\ place'[t].pc = "idle" /\ place'[t].fd = None
         /\ \A u \in Task \ {t} : place'[u] = place[u]
BY AtRestType DEF Rest

LEMMA WrapType ==
  ASSUME place \in [Task -> Place], source \in Sources, NEW t \in Task,
         NEW s \in Stream, NEW due \in SUBSET Slow, Wrap(t, s, due)
  PROVE  /\ place' \in [Task -> Place]
         /\ frame' \in Frame /\ FrameMatches(frame')
         /\ place'[t].pc = "send" /\ place'[t].fd = place[t].fd
         /\ place'[t].own = frame'
         /\ \A u \in Task \ {t} : place'[u] = place[u]
<1> DEFINE f == [stream |-> s, content |-> Payload(s)]
<1>1. f \in Frame /\ FrameMatches(f)
  BY PayloadType DEF Frame, FrameMatches
<1>2. frame' = f /\ place' = [place EXCEPT ![t].pc = "send", ![t].due = due,
                                           ![t].own = f]
  BY DEF Wrap
<1>3. place[t] \in Place
  OBVIOUS
<1> HIDE DEF f
<1>4. [[[place[t] EXCEPT !.pc = "send"] EXCEPT !.due = due] EXCEPT !.own = f] \in Place
  BY <1>1, <1>3 DEF Place
<1>5. place' = [place EXCEPT ![t] =
         [[[@ EXCEPT !.pc = "send"] EXCEPT !.due = due] EXCEPT !.own = f]]
  BY <1>2
<1>6. QED
  BY <1>1, <1>2, <1>3, <1>4, <1>5 DEF Place

LEMMA FewerClients ==
  ASSUME clients \subseteq Fd, Cardinality(clients) <= MaxClients,
         NEW fewer \in SUBSET clients
  PROVE  Cardinality(fewer) <= MaxClients
<1>1. IsFiniteSet(clients)
  BY FS_Subset, WsAssumption
<1>2. Cardinality(fewer) <= Cardinality(clients)
  BY <1>1, FS_Subset
<1>3. Cardinality(fewer) \in Nat /\ Cardinality(clients) \in Nat
  BY <1>1, FS_Subset, FS_CardinalityType
<1>4. QED
  BY <1>2, <1>3, IntervalTypes

LEMMA OneMoreClient ==
  ASSUME clients \subseteq Fd, Cardinality(clients) <= MaxClients, NEW f \in Fd,
         f \in clients \/ Cardinality(clients) < MaxClients
  PROVE  Cardinality(clients \cup {f}) <= MaxClients
<1>1. CASE f \in clients
  <2>1. clients \cup {f} = clients
    BY <1>1
  <2>2. QED
    BY <2>1
<1>2. CASE f \notin clients
  <2>1. IsFiniteSet(clients)
    BY FS_Subset, WsAssumption
  <2>2. Cardinality(clients) \in Nat /\ Cardinality(clients \cup {f}) = Cardinality(clients) + 1
    BY <1>2, <2>1, FS_AddElement, FS_CardinalityType
  <2>3. QED
    BY <1>2, <2>2, IntervalTypes
<1>3. QED
  BY <1>1, <1>2

(***************************************************************************)
(* The invariant holds at first.                                           *)
(***************************************************************************)
LEMMA InitInv == Init => Inv
<1> SUFFICES ASSUME Init PROVE Inv
  OBVIOUS
<1>1. place \in [Task -> Place]
      /\ \A t \in Task : place[t].pc = "idle" /\ place[t].fd = None
  BY AtRestType DEF Init
<1>2. clients = {} /\ Cardinality(clients) <= MaxClients
  BY FS_EmptySet, IntervalTypes DEF Init
<1>3. age \in [Stream -> 0 .. SlowInterval]
  BY IntervalTypes DEF Init
<1>4. frame \in Frame /\ FrameMatches(frame)
  BY DEF Init, NoFrame, Frame, Stream, FrameMatches, Told
<1>5. seen \in [Fd -> Sent]
  BY UnseenType DEF Init
<1>6. {debounce, periodic} \subseteq 0 .. Off /\ events \in 0 .. EventBound
  BY IntervalTypes DEF Init
<1>7. TypeOK
  BY <1>1, <1>2, <1>3, <1>4, <1>5, <1>6 DEF Init, TypeOK
<1>8. LockHeld /\ SendersOwnFrame /\ StopsForNobody
  BY <1>1 DEF LockHeld, SendersOwnFrame, StopsForNobody, At, Task
<1>9. LeavesFirst /\ ClientsAreOpen /\ TimerRunsForClients
  BY <1>1, <1>2 DEF LeavesFirst, ClientsAreOpen, TimerRunsForClients, Task
<1>10. QED
  BY <1>4, <1>7, <1>8, <1>9 DEF Inv

(***************************************************************************)
(* The steps of the HTTP task, which do not broadcast.                     *)
(***************************************************************************)

\* What a step of a task outside the broadcast leaves of the invariant.
LEMMA OutsideBroadcast ==
  ASSUME Inv, NEW t \in Task, place' \in [Task -> Place],
         place[t].pc \notin {"send", "slow", "out"},
         place'[t].pc \notin {"send", "slow", "out"},
         \A u \in Task \ {t} : place'[u] = place[u],
         UNCHANGED <<frame, lock>>
  PROVE  FrameMatches(frame') /\ LockHeld' /\ SendersOwnFrame'
<1>1. LockHeld'
  BY DEF Inv, LockHeld
<1>2. SendersOwnFrame'
  BY DEF Inv, SendersOwnFrame, At
<1>3. QED
  BY <1>1, <1>2 DEF Inv

\* The types of the variables that a step on connections leaves alone.
LEMMA OtherTypes ==
  ASSUME TypeOK, UNCHANGED <<Payloads, lock, events>>
  PROVE  /\ source' \in Sources /\ shown' \in DeviceList \cup {None}
         /\ age' \in [Stream -> 0 .. SlowInterval] /\ frame' \in Frame
         /\ lock' \in Task \cup {Free} /\ events' \in 0 .. EventBound
BY DEF TypeOK, Payloads

LEMMA ConnectInv ==
  ASSUME Inv, NEW f \in Fd, Connect(f)
  PROVE  Inv'
<1>1. TypeOK /\ "httpd" \in Task /\ place["httpd"].pc = "idle"
      /\ place["httpd"].fd = None /\ Goto("httpd", "added")
  BY DEF Inv, Connect, At, Task, LeavesFirst
<1>2. place' \in [Task -> Place] /\ place'["httpd"].pc = "added"
      /\ place'["httpd"].fd = None
      /\ \A u \in Task \ {"httpd"} : place'[u] = place[u]
  BY <1>1, GotoType DEF TypeOK
<1>3. FrameMatches(frame') /\ LockHeld' /\ SendersOwnFrame'
  BY <1>1, <1>2, OutsideBroadcast DEF Connect, Payloads
<1>4. clients' \subseteq Fd /\ Cardinality(clients') <= MaxClients
      /\ open' \subseteq Fd /\ clients' \subseteq open'
  BY <1>1, OneMoreClient DEF Inv, TypeOK, Connect, ClientsAreOpen
<1>5. seen' \in [Fd -> Sent]
  BY <1>1, UnseenType DEF TypeOK, Connect
<1>6. TypeOK'
  BY <1>1, <1>2, <1>4, <1>5, OtherTypes DEF TypeOK, Connect, Timers
<1>7. LeavesFirst' /\ StopsForNobody' /\ TimerRunsForClients'
  BY <1>2, <1>4, WsAssumption
     DEF LeavesFirst, StopsForNobody, TimerRunsForClients, At
<1>8. QED
  BY <1>3, <1>4, <1>6, <1>7 DEF Inv, ClientsAreOpen

\* A session that is refused, ends or sends CLOSE: clients only leave the table,
\* and the socket that will be closed is not in it.
LEMMA LeaveInv ==
  ASSUME Inv, At("httpd", "idle"), NEW f \in Fd \cup {None},
         f \notin clients', clients' \subseteq clients, seen' \in [Fd -> Sent],
         open' \subseteq Fd, open \subseteq open',
         place' = [place EXCEPT !["httpd"].pc = "removed", !["httpd"].fd = f],
         UNCHANGED <<Payloads, Timers, lock, events>>
  PROVE  Inv'
<1>1. TypeOK /\ "httpd" \in Task /\ place["httpd"] \in Place
      /\ place["httpd"].pc = "idle"
  BY DEF Inv, TypeOK, At, Task
<1>2. [[place["httpd"] EXCEPT !.pc = "removed"] EXCEPT !.fd = f] \in Place
  BY <1>1 DEF Place
<1>3. place' = [place EXCEPT !["httpd"] =
                  [[@ EXCEPT !.pc = "removed"] EXCEPT !.fd = f]]
  OBVIOUS
<1>4. place' \in [Task -> Place] /\ place'["httpd"].pc = "removed"
      /\ place'["httpd"].fd = f
      /\ \A u \in Task \ {"httpd"} : place'[u] = place[u]
  BY <1>1, <1>2, <1>3 DEF TypeOK, Place
<1>5. FrameMatches(frame') /\ LockHeld' /\ SendersOwnFrame'
  BY <1>1, <1>4, OutsideBroadcast DEF Payloads
<1>6. Cardinality(clients') <= MaxClients
  BY <1>1, FewerClients DEF TypeOK
<1>7. TypeOK'
  BY <1>1, <1>4, <1>6, OtherTypes DEF TypeOK, Timers
<1>8. LeavesFirst' /\ StopsForNobody'
  BY <1>4 DEF LeavesFirst, StopsForNobody, At
<1>9. TimerRunsForClients' /\ ClientsAreOpen'
  BY <1>1 DEF Inv, TimerRunsForClients, ClientsAreOpen, At, Timers
<1>10. QED
  BY <1>5, <1>7, <1>8, <1>9 DEF Inv

LEMMA RejectInv ==
  ASSUME Inv, NEW f \in Fd, Reject(f)
  PROVE  Inv'
<1>1. f \notin clients' /\ clients' \subseteq clients /\ seen' \in [Fd -> Sent]
      /\ open' \subseteq Fd /\ open \subseteq open'
  BY DEF Inv, TypeOK, Reject
<1>2. QED
  BY <1>1, LeaveInv DEF Reject

LEMMA RemoveInv ==
  ASSUME Inv, NEW f \in Fd, Remove(f)
  PROVE  Inv'
<1>1. f \notin clients' /\ clients' \subseteq clients /\ seen' \in [Fd -> Sent]
      /\ open' \subseteq Fd /\ open \subseteq open'
  BY UnseenType DEF Inv, TypeOK, Remove
<1>2. QED
  BY <1>1, LeaveInv DEF Remove

LEMMA CloseFrameInv ==
  ASSUME Inv, NEW f \in Fd, RemoveOnCloseFrame(f)
  PROVE  Inv'
<1>1. clients' \subseteq clients /\ seen' \in [Fd -> Sent]
      /\ open' \subseteq Fd /\ open \subseteq open' /\ None \notin clients'
  BY UnseenType, WsAssumption DEF Inv, TypeOK, RemoveOnCloseFrame
<1>2. place["httpd"] \in Place /\ place["httpd"].fd = None
  BY DEF Inv, TypeOK, LeavesFirst, RemoveOnCloseFrame, Task
<1>3. place' = [place EXCEPT !["httpd"].pc = "removed", !["httpd"].fd = None]
  <2>1. [[place["httpd"] EXCEPT !.pc = "removed"] EXCEPT !.fd = None]
          = [place["httpd"] EXCEPT !.pc = "removed"]
    BY <1>2 DEF Place
  <2>2. QED
    BY <2>1 DEF RemoveOnCloseFrame
<1>4. QED
  BY <1>1, <1>3, LeaveInv DEF RemoveOnCloseFrame

LEMMA StartPeriodicInv ==
  ASSUME Inv, StartPeriodic
  PROVE  Inv'
<1>1. TypeOK /\ "httpd" \in Task /\ place["httpd"].pc = "added"
      /\ Goto("httpd", "broadcast")
  BY DEF Inv, StartPeriodic, At, Task
<1>2. place' \in [Task -> Place] /\ place'["httpd"].pc = "broadcast"
      /\ place'["httpd"].fd = place["httpd"].fd
      /\ \A u \in Task \ {"httpd"} : place'[u] = place[u]
  BY <1>1, GotoType DEF TypeOK
<1>3. FrameMatches(frame') /\ LockHeld' /\ SendersOwnFrame'
  BY <1>1, <1>2, OutsideBroadcast DEF StartPeriodic, Payloads
<1>4. TypeOK'
  BY <1>1, <1>2, OtherTypes, IntervalTypes DEF TypeOK, StartPeriodic, Connections
<1>5. LeavesFirst' /\ StopsForNobody' /\ TimerRunsForClients' /\ ClientsAreOpen'
  BY <1>2, IntervalTypes DEF Inv, StartPeriodic, LeavesFirst, StopsForNobody,
     TimerRunsForClients, ClientsAreOpen, Connections, At
<1>6. QED
  BY <1>3, <1>4, <1>5 DEF Inv

LEMMA CountClientsInv ==
  ASSUME Inv, CountClients
  PROVE  Inv'
<1> DEFINE next == IF clients = {} THEN "stop" ELSE "close"
<1>1. TypeOK /\ "httpd" \in Task /\ place["httpd"].pc = "removed"
      /\ Goto("httpd", next) /\ next \in {"stop", "close"}
  BY DEF Inv, CountClients, At, Task
<1>2. place' \in [Task -> Place] /\ place'["httpd"].pc = next
      /\ place'["httpd"].fd = place["httpd"].fd
      /\ \A u \in Task \ {"httpd"} : place'[u] = place[u]
  <2> HIDE DEF next
  <2>1. QED
    BY <1>1, GotoType DEF TypeOK
<1>3. FrameMatches(frame') /\ LockHeld' /\ SendersOwnFrame'
  BY <1>1, <1>2, OutsideBroadcast DEF CountClients, Payloads
<1>4. TypeOK'
  BY <1>1, <1>2, OtherTypes DEF TypeOK, CountClients, Connections, Timers
<1>5. StopsForNobody'
  BY <1>2 DEF StopsForNobody, CountClients, Connections, At
<1>6. LeavesFirst' /\ TimerRunsForClients' /\ ClientsAreOpen'
  BY <1>1, <1>2 DEF Inv, CountClients, LeavesFirst, TimerRunsForClients,
     ClientsAreOpen, Connections, Timers, At
<1>7. QED
  BY <1>3, <1>4, <1>5, <1>6 DEF Inv

LEMMA StopPeriodicInv ==
  ASSUME Inv, StopPeriodic
  PROVE  Inv'
<1>1. TypeOK /\ "httpd" \in Task /\ place["httpd"].pc = "stop"
      /\ Goto("httpd", "close") /\ clients = {}
  BY DEF Inv, StopPeriodic, StopsForNobody, At, Task
<1>2. place' \in [Task -> Place] /\ place'["httpd"].pc = "close"
      /\ place'["httpd"].fd = place["httpd"].fd
      /\ \A u \in Task \ {"httpd"} : place'[u] = place[u]
  BY <1>1, GotoType DEF TypeOK
<1>3. FrameMatches(frame') /\ LockHeld' /\ SendersOwnFrame'
  BY <1>1, <1>2, OutsideBroadcast DEF StopPeriodic, Payloads
<1>4. TypeOK'
  BY <1>1, <1>2, OtherTypes, IntervalTypes DEF TypeOK, StopPeriodic, Connections
<1>5. LeavesFirst' /\ StopsForNobody' /\ TimerRunsForClients' /\ ClientsAreOpen'
  BY <1>1, <1>2 DEF Inv, StopPeriodic, LeavesFirst, StopsForNobody,
     TimerRunsForClients, ClientsAreOpen, Connections, At
<1>6. QED
  BY <1>3, <1>4, <1>5 DEF Inv

LEMMA CloseSocketInv ==
  ASSUME Inv, CloseSocket
  PROVE  Inv'
<1>1. TypeOK /\ "httpd" \in Task /\ place["httpd"].pc = "close" /\ Rest("httpd")
  BY DEF Inv, CloseSocket, At, Task
<1>2. place' \in [Task -> Place] /\ place'["httpd"].pc = "idle"
      /\ place'["httpd"].fd = None
      /\ \A u \in Task \ {"httpd"} : place'[u] = place[u]
  BY <1>1, RestType DEF TypeOK
<1>3. FrameMatches(frame') /\ LockHeld' /\ SendersOwnFrame'
  BY <1>1, <1>2, OutsideBroadcast DEF CloseSocket, Payloads
<1>4. TypeOK'
  BY <1>1, <1>2, OtherTypes DEF TypeOK, CloseSocket, Timers
<1>5. ClientsAreOpen'
  BY DEF Inv, CloseSocket, ClientsAreOpen, LeavesFirst
<1>6. LeavesFirst' /\ StopsForNobody' /\ TimerRunsForClients'
  BY <1>1, <1>2, WsAssumption DEF Inv, CloseSocket, LeavesFirst, StopsForNobody,
     TimerRunsForClients, TypeOK, Timers, At
<1>7. QED
  BY <1>3, <1>4, <1>5, <1>6 DEF Inv

(***************************************************************************)
(* What starts a broadcast, and time.                                      *)
(***************************************************************************)

\* A step of the event loop or the timer task: the table and the HTTP task are
\* left alone, and the periodic timer does not stop.
LEMMA OtherTask ==
  ASSUME Inv, place'["httpd"] = place["httpd"], UNCHANGED Connections,
         periodic # Off => periodic' # Off
  PROVE  LeavesFirst' /\ ClientsAreOpen' /\ StopsForNobody' /\ TimerRunsForClients'
BY DEF Inv, Connections, LeavesFirst, ClientsAreOpen, StopsForNobody,
       TimerRunsForClients, At

LEMMA ChangeInv ==
  ASSUME Inv, NEW s \in Told, NEW v \in Content[s], Change(s, v)
  PROVE  Inv'
<1>1. source' \in Sources
  BY DEF Inv, TypeOK, Change, Sources, Content, Told
<1>2. events' \in 0 .. EventBound
  BY IntervalTypes DEF Inv, TypeOK, Change
<1>3. TypeOK'
  BY <1>1, <1>2 DEF Inv, TypeOK, Change, Connections, Timers
<1>4. FrameMatches(frame') /\ LockHeld' /\ SendersOwnFrame'
  BY DEF Inv, Change, LockHeld, SendersOwnFrame, At
<1>5. QED
  BY <1>3, <1>4, OtherTask DEF Inv, Change, Timers

LEMMA HandleEventInv ==
  ASSUME Inv, HandleEvent
  PROVE  Inv'
<1>1. TypeOK /\ "events" \in Task /\ place["events"].pc = "idle"
      /\ Goto("events", "broadcast")
  BY DEF Inv, HandleEvent, At, Task
<1>2. place' \in [Task -> Place] /\ place'["events"].pc = "broadcast"
      /\ \A u \in Task \ {"events"} : place'[u] = place[u]
  BY <1>1, GotoType DEF TypeOK
<1>3. FrameMatches(frame') /\ LockHeld' /\ SendersOwnFrame'
  BY <1>1, <1>2, OutsideBroadcast DEF HandleEvent, Payloads
<1>4. events' \in 0 .. EventBound
  BY <1>1, IntervalTypes DEF TypeOK, HandleEvent
<1>5. TypeOK'
  BY <1>1, <1>2, <1>4 DEF TypeOK, HandleEvent, Connections, Payloads, Timers
<1>6. QED
  BY <1>2, <1>3, <1>5, OtherTask DEF Inv, HandleEvent, Timers, Task

LEMMA DebounceFiresInv ==
  ASSUME Inv, DebounceFires
  PROVE  Inv'
<1>1. TypeOK /\ "timer" \in Task /\ place["timer"].pc = "idle"
      /\ Goto("timer", "broadcast")
  BY DEF Inv, DebounceFires, At, Task
<1>2. place' \in [Task -> Place] /\ place'["timer"].pc = "broadcast"
      /\ \A u \in Task \ {"timer"} : place'[u] = place[u]
  BY <1>1, GotoType DEF TypeOK
<1>3. FrameMatches(frame') /\ LockHeld' /\ SendersOwnFrame'
  BY <1>1, <1>2, OutsideBroadcast DEF DebounceFires, Payloads
<1>4. TypeOK'
  BY <1>1, <1>2, OtherTypes, IntervalTypes DEF TypeOK, DebounceFires, Connections
<1>5. QED
  BY <1>2, <1>3, <1>4, OtherTask DEF Inv, DebounceFires, Task

LEMMA PeriodicFiresInv ==
  ASSUME Inv, PeriodicFires
  PROVE  Inv'
<1>1. TypeOK /\ "timer" \in Task /\ place["timer"].pc = "idle"
      /\ Goto("timer", "broadcast")
  BY DEF Inv, PeriodicFires, At, Task
<1>2. place' \in [Task -> Place] /\ place'["timer"].pc = "broadcast"
      /\ \A u \in Task \ {"timer"} : place'[u] = place[u]
  BY <1>1, GotoType DEF TypeOK
<1>3. FrameMatches(frame') /\ LockHeld' /\ SendersOwnFrame'
  BY <1>1, <1>2, OutsideBroadcast DEF PeriodicFires, Payloads
<1>4. TypeOK'
  BY <1>1, <1>2, OtherTypes, IntervalTypes DEF TypeOK, PeriodicFires, Connections
<1>5. QED
  BY <1>2, <1>3, <1>4, OtherTask, IntervalTypes DEF Inv, PeriodicFires, Task

LEMMA TickInv ==
  ASSUME Inv, Tick
  PROVE  Inv'
<1>1. age' \in [Stream -> 0 .. SlowInterval]
  BY IntervalTypes DEF Inv, TypeOK, Tick
<1>2. debounce' \in 0 .. Off /\ periodic' \in 0 .. Off
      /\ (periodic # Off => periodic' # Off)
  BY CountDownType DEF Inv, TypeOK, Tick
<1>3. TypeOK'
  BY <1>1, <1>2 DEF Inv, TypeOK, Tick, Connections
<1>4. FrameMatches(frame') /\ LockHeld' /\ SendersOwnFrame'
  BY DEF Inv, Tick, LockHeld, SendersOwnFrame, At
<1>5. QED
  BY <1>2, <1>3, <1>4, OtherTask DEF Inv, Tick

(***************************************************************************)
(* The broadcast, on any of the three tasks.                               *)
(***************************************************************************)

\* The table loses clients at most, and the task's socket is none of them.
LEMMA BroadcastKeepsTable ==
  ASSUME Inv, NEW t \in Task, place' \in [Task -> Place],
         place[t].pc \in {"broadcast", "send", "slow", "out"},
         place'[t].pc \in {"idle", "send", "slow", "out"},
         place'[t].fd = None \/ (place'[t].fd = place[t].fd /\ place'[t].pc # "idle"),
         \A u \in Task \ {t} : place'[u] = place[u],
         clients' \subseteq clients, UNCHANGED <<open, periodic>>
  PROVE  LeavesFirst' /\ ClientsAreOpen' /\ StopsForNobody' /\ TimerRunsForClients'
<1>1. "httpd" \in Task /\ None \notin clients /\ clients \subseteq Fd
  BY WsAssumption DEF Inv, TypeOK, Task
<1>2. LeavesFirst'
  BY <1>1 DEF Inv, LeavesFirst, At
<1>3. ClientsAreOpen'
  BY DEF Inv, ClientsAreOpen
<1>4. StopsForNobody'
  BY <1>1 DEF Inv, StopsForNobody, At
<1>5. TimerRunsForClients'
  BY <1>1 DEF Inv, TimerRunsForClients, At
<1>6. QED
  BY <1>2, <1>3, <1>4, <1>5

\* Nobody is past the try while the lock is free, and nobody but its holder else.
LEMMA Exclusion ==
  ASSUME Inv, NEW t \in Task,
         lock = Free \/ place[t].pc \in {"send", "slow", "out"}
  PROVE  \A u \in Task \ {t} : place[u].pc \notin {"send", "slow", "out"}
BY WsAssumption DEF Inv, LockHeld

LEMMA SkipInv ==
  ASSUME Inv, NEW t \in Task, Skip(t)
  PROVE  Inv'
<1>1. TypeOK /\ place[t].pc = "broadcast" /\ Rest(t)
  BY DEF Inv, Skip, At
<1>2. place' \in [Task -> Place] /\ place'[t].pc = "idle" /\ place'[t].fd = None
      /\ \A u \in Task \ {t} : place'[u] = place[u]
  BY <1>1, RestType DEF TypeOK
<1>3. FrameMatches(frame') /\ LockHeld' /\ SendersOwnFrame'
  BY <1>1, <1>2, OutsideBroadcast DEF Skip, Payloads
<1>4. TypeOK'
  BY <1>1, <1>2, OtherTypes, IntervalTypes DEF TypeOK, Skip, Connections
<1>5. QED
  BY <1>1, <1>2, <1>3, <1>4, BroadcastKeepsTable DEF Inv, Skip, Connections

\* The lock is taken and nothing is sent.
LEMMA TakeLockInv ==
  ASSUME Inv, NEW t \in Task, TakeLock(t), Goto(t, "out"),
         debounce' \in 0 .. Off,
         UNCHANGED <<Connections, Payloads, periodic, events>>
  PROVE  Inv'
<1>1. TypeOK /\ place[t].pc = "broadcast" /\ lock = Free /\ lock' = t
  BY DEF Inv, TakeLock, At
<1>2. place' \in [Task -> Place] /\ place'[t].pc = "out"
      /\ place'[t].fd = place[t].fd
      /\ \A u \in Task \ {t} : place'[u] = place[u]
  BY <1>1, GotoType DEF TypeOK
<1>3. LockHeld'
  BY <1>1, <1>2, Exclusion DEF LockHeld
<1>4. FrameMatches(frame') /\ SendersOwnFrame'
  BY <1>2 DEF Inv, SendersOwnFrame, At, Payloads
<1>5. TypeOK'
  BY <1>1, <1>2 DEF TypeOK, Connections, Payloads
<1>6. QED
  BY <1>1, <1>2, <1>3, <1>4, <1>5, BroadcastKeepsTable DEF Inv, Connections

LEMMA SendNothingInv ==
  ASSUME Inv, NEW t \in Task, SendNothing(t)
  PROVE  Inv'
BY TakeLockInv DEF SendNothing, Timers, Inv, TypeOK

LEMMA SendLaterInv ==
  ASSUME Inv, NEW t \in Task, SendLater(t)
  PROVE  Inv'
<1>1. age.devices \in Nat /\ age.devices < MinInterval
      /\ debounce' = MinInterval - age.devices
  BY IntervalTypes DEF Inv, TypeOK, Stream, SendLater, TooSoon
<1>2. MinInterval \in Nat /\ Off \in Nat /\ MinInterval <= Off
  BY IntervalTypes, WsAssumption
<1>3. debounce' \in 0 .. Off
  BY <1>1, <1>2
<1>4. QED
  BY <1>3, TakeLockInv DEF SendLater

\* A frame is wrapped by the task that holds the lock.
LEMMA WrapInv ==
  ASSUME Inv, NEW t \in Task, NEW s \in Stream, NEW due \in SUBSET Slow,
         place[t].pc \in {"broadcast", "slow"},
         Wrap(t, s, due), lock' = t,
         lock = Free \/ place[t].pc = "slow",
         shown' \in DeviceList \cup {None}, age' \in [Stream -> 0 .. SlowInterval],
         UNCHANGED <<Connections, source, Timers, events>>
  PROVE  Inv'
<1>1. TypeOK
  BY DEF Inv
<1>2. place' \in [Task -> Place] /\ frame' \in Frame /\ FrameMatches(frame')
      /\ place'[t].pc = "send" /\ place'[t].fd = place[t].fd
      /\ place'[t].own = frame'
      /\ \A u \in Task \ {t} : place'[u] = place[u]
  BY <1>1, WrapType DEF TypeOK
<1>3. \A u \in Task \ {t} : place'[u].pc \notin {"send", "slow", "out"}
  BY <1>2, Exclusion
<1>4. LockHeld' /\ SendersOwnFrame'
  BY <1>2, <1>3 DEF LockHeld, SendersOwnFrame, At
<1>5. TypeOK'
  BY <1>1, <1>2 DEF TypeOK, Connections, Timers
<1>6. QED
  BY <1>2, <1>4, <1>5, BroadcastKeepsTable DEF Inv, Connections, Timers

LEMMA SendDevicesInv ==
  ASSUME Inv, NEW t \in Task, SendDevices(t)
  PROVE  Inv'
<1> DEFINE due == {s \in Slow : age[s] >= SlowInterval}
<1>1. Wrap(t, "devices", due) /\ due \in SUBSET Slow
  BY DEF SendDevices
<1>2. age' \in [Stream -> 0 .. SlowInterval]
  BY IntervalTypes DEF Inv, TypeOK, SendDevices
<1>3. shown' \in DeviceList \cup {None}
  BY DEF Inv, TypeOK, SendDevices, Sources, Content, Told
<1>4. QED
  <2> HIDE DEF due
  <2>1. QED
    BY <1>1, <1>2, <1>3, WrapInv DEF SendDevices, TakeLock, At, Stream

LEMMA SendSlowInv ==
  ASSUME Inv, NEW t \in Task, SendSlow(t)
  PROVE  Inv'
<1> DEFINE s == First(place[t].due)
           due == place[t].due \ {s}
<1>1. place[t].due \in SUBSET Slow
  BY DEF Inv, TypeOK, Place
<1>2. s \in Stream /\ due \in SUBSET Slow /\ Wrap(t, s, due)
  BY <1>1 DEF SendSlow, First, Stream
<1>3. place[t].pc = "slow" /\ lock = t /\ lock' = t
  BY DEF Inv, SendSlow, LockHeld, At
<1>4. shown' \in DeviceList \cup {None} /\ age' \in [Stream -> 0 .. SlowInterval]
  BY DEF Inv, TypeOK, SendSlow
<1> HIDE DEF s, due
<1>5. QED
  BY <1>2, <1>3, <1>4, WrapInv DEF SendSlow

LEMMA DeliveredType ==
  ASSUME TypeOK, FrameMatches(frame), NEW served \in SUBSET clients,
         Delivered(served)
  PROVE  seen' \in [Fd -> Sent]
<1>1. SUFFICES ASSUME NEW f \in Fd PROVE seen'[f] \in Sent
  BY <1>1 DEF Delivered
<1>2. CASE f \in served /\ frame.stream \in Told
  <2>1. seen'[f] = [seen[f] EXCEPT ![frame.stream] = frame.content]
    BY <1>2 DEF Delivered
  <2>2. frame.content \in Content[frame.stream] \cup {None}
        /\ frame.content \in DeviceList \cup LinkQuality \cup {None}
    BY <1>2 DEF TypeOK, FrameMatches, Frame
  <2>3. seen[f] \in Sent
    BY DEF TypeOK
  <2>4. QED
    BY <1>2, <2>1, <2>2, <2>3 DEF Sent
<1>3. CASE ~(f \in served /\ frame.stream \in Told)
  BY <1>3, UnseenType DEF Delivered, TypeOK
<1>4. QED
  BY <1>2, <1>3

LEMMA SendInv ==
  ASSUME Inv, NEW t \in Task, Send(t)
  PROVE  Inv'
<1>1. TypeOK /\ FrameMatches(frame) /\ place[t].pc = "send" /\ lock = t
      /\ place[t] \in Place
  BY DEF Inv, TypeOK, Send, At, LockHeld
<1>2. PICK served \in SUBSET clients : clients' = served /\ Delivered(served)
  BY DEF Send
<1>3. NoFrame \in Frame /\ FrameMatches(NoFrame)
  BY DEF NoFrame, Frame, Stream, FrameMatches, Told
<1>4. place' = [place EXCEPT ![t] =
                  [[@ EXCEPT !.pc = "slow"] EXCEPT !.own = NoFrame]]
      /\ [[place[t] EXCEPT !.pc = "slow"] EXCEPT !.own = NoFrame] \in Place
  BY <1>1, <1>3 DEF Send, Place
<1>5. place' \in [Task -> Place] /\ place'[t].pc = "slow"
      /\ place'[t].fd = place[t].fd
      /\ \A u \in Task \ {t} : place'[u] = place[u]
  BY <1>1, <1>4 DEF TypeOK, Place
<1>6. LockHeld' /\ SendersOwnFrame'
  <2>1. \A u \in Task \ {t} : place'[u].pc \notin {"send", "slow", "out"}
    BY <1>1, <1>5, Exclusion
  <2>2. QED
    BY <1>1, <1>5, <2>1 DEF Send, LockHeld, SendersOwnFrame, At
<1>7. seen' \in [Fd -> Sent] /\ Cardinality(clients') <= MaxClients
  BY <1>1, <1>2, DeliveredType, FewerClients DEF TypeOK
<1>8. TypeOK'
  BY <1>1, <1>2, <1>3, <1>5, <1>7 DEF TypeOK, Send, Timers
<1>9. FrameMatches(frame')
  BY <1>3 DEF Send
<1>10. QED
  BY <1>1, <1>2, <1>5, <1>6, <1>8, <1>9, BroadcastKeepsTable DEF Inv, Send, Timers

LEMMA SlowBuildFailsInv ==
  ASSUME Inv, NEW t \in Task, SlowBuildFails(t)
  PROVE  Inv'
<1> DEFINE s == First(place[t].due)
<1>1. TypeOK /\ place[t].pc = "slow" /\ place[t] \in Place
  BY DEF Inv, TypeOK, SlowBuildFails, At
<1>2. place' = [place EXCEPT ![t].due = @ \ {s}]
      /\ age' = [age EXCEPT ![s] = SlowInterval]
  BY DEF SlowBuildFails
<1> HIDE DEF s
<1>3. place' \in [Task -> Place] /\ place'[t].pc = "slow"
      /\ place'[t].fd = place[t].fd
      /\ \A u \in Task \ {t} : place'[u] = place[u]
  BY <1>1, <1>2 DEF TypeOK, Place
<1>4. age' \in [Stream -> 0 .. SlowInterval]
  <2>1. SlowInterval \in 0 .. SlowInterval /\ age \in [Stream -> 0 .. SlowInterval]
    BY <1>1, IntervalTypes DEF TypeOK
  <2>2. QED
    BY <1>2, <2>1
<1>5. TypeOK'
  BY <1>1, <1>3, <1>4 DEF TypeOK, SlowBuildFails, Connections, Timers
<1>6. FrameMatches(frame') /\ LockHeld' /\ SendersOwnFrame'
  BY <1>1, <1>3 DEF Inv, SlowBuildFails, LockHeld, SendersOwnFrame, At
<1>7. QED
  BY <1>1, <1>3, <1>5, <1>6, BroadcastKeepsTable
     DEF Inv, SlowBuildFails, Connections, Timers

LEMMA UnlockInv ==
  ASSUME Inv, NEW t \in Task, Unlock(t)
  PROVE  Inv'
<1>1. TypeOK /\ place[t].pc \in {"slow", "out"} /\ Rest(t)
  BY DEF Inv, Unlock, At
<1>2. place' \in [Task -> Place] /\ place'[t].pc = "idle" /\ place'[t].fd = None
      /\ \A u \in Task \ {t} : place'[u] = place[u]
  BY <1>1, RestType DEF TypeOK
<1>3. LockHeld'
  BY <1>1, <1>2, Exclusion DEF LockHeld
<1>4. FrameMatches(frame') /\ SendersOwnFrame'
  BY <1>2 DEF Inv, Unlock, SendersOwnFrame, At, Payloads
<1>5. TypeOK'
  BY <1>1, <1>2 DEF TypeOK, Unlock, Connections, Payloads, Timers
<1>6. QED
  BY <1>1, <1>2, <1>3, <1>4, <1>5, BroadcastKeepsTable
     DEF Inv, Unlock, Connections, Timers

LEMMA BroadcastInv ==
  ASSUME Inv, NEW t \in Task, Broadcast(t)
  PROVE  Inv'
BY SkipInv, SendNothingInv, SendLaterInv, SendDevicesInv, SendInv, SendSlowInv,
   SlowBuildFailsInv, UnlockInv DEF Broadcast

(***************************************************************************)
(* The theorems.                                                           *)
(***************************************************************************)
LEMMA NextInv == Inv /\ [Next]_vars => Inv'
<1> SUFFICES ASSUME Inv, [Next]_vars PROVE Inv'
  OBVIOUS
<1>1. CASE \E f \in Fd :
             Connect(f) \/ Reject(f) \/ Remove(f) \/ RemoveOnCloseFrame(f)
  BY <1>1, ConnectInv, RejectInv, RemoveInv, CloseFrameInv
<1>2. CASE \E s \in Told : \E v \in Content[s] : Change(s, v)
  BY <1>2, ChangeInv
<1>3. CASE Serve
  BY <1>3, StartPeriodicInv, CountClientsInv, StopPeriodicInv, CloseSocketInv
     DEF Serve
<1>4. CASE HandleEvent \/ DebounceFires \/ PeriodicFires \/ Tick
  BY <1>4, HandleEventInv, DebounceFiresInv, PeriodicFiresInv, TickInv
<1>5. CASE \E t \in Task : Broadcast(t)
  BY <1>5, BroadcastInv
<1>6. CASE UNCHANGED vars
  BY <1>6 DEF vars, Inv, TypeOK, LockHeld, SendersOwnFrame, LeavesFirst,
     ClientsAreOpen, StopsForNobody, TimerRunsForClients, At
<1>7. QED
  BY <1>1, <1>2, <1>3, <1>4, <1>5, <1>6 DEF Next

THEOREM InvHolds == Spec => []Inv
BY InitInv, NextInv, PTL DEF Spec

\* The types of the variables, and no more clients than slots (ws_fds).
THEOREM TypesHold == Spec => []TypeOK
<1>1. Inv => TypeOK
  BY DEF Inv
<1>2. QED
  BY <1>1, InvHolds, PTL

\* Each task sends the frame it wrapped: the tried lock protects the buffer
\* (ws_manager.c:82, ws_manager_transport.c:56).
THEOREM FramesAreOwn == Spec => []SendersOwnFrame
<1>1. Inv => SendersOwnFrame
  BY DEF Inv
<1>2. QED
  BY <1>1, InvHolds, PTL

\* No frame goes to a socket that was closed (ws_manager_state.c:128).
THEOREM OnlyOpenSockets == Spec => []ClientsAreOpen
<1>1. Inv => ClientsAreOpen
  BY DEF Inv
<1>2. QED
  BY <1>1, InvHolds, PTL

\* The periodic timer runs while a client is listed, though the count that stops
\* it is read outside the lock (ws_manager_state.c:128).
THEOREM TimerRuns == Spec => []TimerRunsForClients
<1>1. Inv => TimerRunsForClients
  BY DEF Inv
<1>2. QED
  BY <1>1, InvHolds, PTL
=============================================================================
