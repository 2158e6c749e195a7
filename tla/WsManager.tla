----------------------------- MODULE WsManager -----------------------------
(***************************************************************************)
(* The WebSocket broadcaster: gateway_web_ws over the HTTP server.         *)
(*                                                                         *)
(* Three tasks run ws_broadcast_status_with_handle: the HTTP server after  *)
(* a connection, the event loop after a change of the device list or of    *)
(* the link qualities, and the timer task from the one-shot (debounce) and *)
(* the periodic timer.  They share one set of buffers under a lock that is *)
(* only tried, and the table of clients under a second lock that each step *)
(* below holds for itself.  Connections open and close on the HTTP task.   *)
(*                                                                         *)
(* Time is counted in ticks; a stream's age saturates at SlowInterval, the *)
(* longest time the code compares it with.  The times and payloads of the  *)
(* last frames are only read under the broadcast lock, so a step records   *)
(* them where the code reads the clock.                                    *)
(***************************************************************************)
EXTENDS Naturals, FiniteSets

CONSTANTS
    Fd,             \* sockets of the HTTP server
    DeviceList,     \* payloads of the stream "devices"
    LinkQuality,    \* payloads of the stream "lqi"
    None,           \* no payload; also that of "health", which always differs
    Oversized,      \* payloads that do not fit their builder's buffer
    Free,           \* no holder of the broadcast lock
    MaxClients,     \* MAX_WS_CLIENTS
    MinInterval,    \* WS_MIN_BROADCAST_INTERVAL_US, in ticks
    DupInterval,    \* WS_MIN_DUP_BROADCAST_INTERVAL_US
    SlowInterval,   \* WS_MIN_HEALTH_ and WS_MIN_LQI_BROADCAST_INTERVAL_US
    Retry,          \* WS_BROADCAST_RETRY_US
    Period,         \* period of the periodic timer
    EventBound      \* bound: change events in the queue of the event loop

Task   == {"httpd", "events", "timer"}
Stream == {"devices", "health", "lqi"}
Told   == {"devices", "lqi"}    \* streams with a payload that matters here
Slow   == {"health", "lqi"}
Off    == Period + 1            \* a timer that is not running

ASSUME WsAssumption ==
    /\ None \notin DeviceList \cup LinkQuality \cup Fd
    /\ IsFiniteSet(Fd)
    /\ Free \notin Task
    /\ {MaxClients, MinInterval, Retry, EventBound} \subseteq Nat \ {0}
    /\ {DupInterval, SlowInterval, Period} \subseteq Nat
    /\ MinInterval <= DupInterval /\ DupInterval <= SlowInterval
    /\ SlowInterval <= Period /\ Retry <= Period

VARIABLES
    clients,    \* ws_fds without its empty slots
    open,       \* sockets of live connections
    source,     \* what the JSON builders would read now
    shown,      \* last_ws_devices_json
    age,        \* ticks since last_ws_*_send_us
    frame,      \* ws_frame_buf
    seen,       \* history: what each client was sent last
    lock,       \* holder of ws_broadcast_mutex
    place,      \* each task's place
    debounce,   \* ticks to the one-shot timer
    periodic,   \* ticks to the periodic timer
    events      \* change events that wait for the event loop

vars == <<clients, open, source, shown, age, frame, seen, lock, place,
          debounce, periodic, events>>

Content == [devices |-> DeviceList, lqi |-> LinkQuality]
Frame   == [stream : Stream, content : DeviceList \cup LinkQuality \cup {None}]
Sources == {src \in [Told -> DeviceList \cup LinkQuality] :
              \A s \in Told : src[s] \in Content[s]}
NoFrame == [stream |-> "health", content |-> None]
Sent    == {sent \in [Told -> DeviceList \cup LinkQuality \cup {None}] :
              \A s \in Told : sent[s] \in Content[s] \cup {None}}
Unseen  == [s \in Told |-> None]
AtRest  == [pc |-> "idle", fd |-> None, due |-> {}, own |-> NoFrame]
Place   == [pc : {"idle", "added", "removed", "stop", "close", "broadcast",
                  "send", "slow", "out"},
            fd : Fd \cup {None}, due : SUBSET Slow, own : Frame]

Connections == <<clients, open, seen>>
Payloads    == <<source, shown, age, frame>>
Timers      == <<debounce, periodic>>

Init ==
    /\ clients = {} /\ open = {}
    /\ source \in Sources
    /\ shown = None
    /\ age = [s \in Stream |-> SlowInterval]
    /\ frame = NoFrame
    /\ seen = [f \in Fd |-> Unseen]
    /\ lock = Free
    /\ place = [t \in Task |-> AtRest]
    /\ debounce = Off /\ periodic = Off
    /\ events = 0

At(t, pc)   == place[t].pc = pc
Goto(t, pc) == place' = [place EXCEPT ![t].pc = pc]
Rest(t)     == place' = [place EXCEPT ![t] = AtRest]

(***************************************************************************)
(* ws_handler_with_handle and ws_httpd_close_fn_with_handle, on the HTTP   *)
(* task.                                                                   *)
(***************************************************************************)
\* Mutant: the table has a slot for everyone.
ConnectUnbounded(f) ==
    /\ At("httpd", "idle")
    /\ f \notin open
    /\ open' = open \cup {f}
    /\ clients' = clients \cup {f}
    /\ seen' = [seen EXCEPT ![f] = Unseen]
    /\ Goto("httpd", "added")
    /\ UNCHANGED <<Payloads, Timers, lock, events>>

Connect(f) ==
    /\ At("httpd", "idle")
    /\ f \notin open
    /\ open' = open \cup {f}
    /\ f \in clients \/ Cardinality(clients) < MaxClients
    /\ clients' = clients \cup {f}
    /\ seen' = [seen EXCEPT ![f] = Unseen]
    /\ Goto("httpd", "added")
    /\ UNCHANGED <<Payloads, Timers, lock, events>>

\* 503, and the session ends through the close function.
Reject(f) ==
    /\ At("httpd", "idle")
    /\ f \notin open
    /\ f \notin clients /\ Cardinality(clients) >= MaxClients
    /\ open' = open \cup {f}
    /\ place' = [place EXCEPT !["httpd"].pc = "removed", !["httpd"].fd = f]
    /\ UNCHANGED <<clients, seen, Payloads, Timers, lock, events>>

StartPeriodic ==
    /\ At("httpd", "added")
    /\ periodic' = Period
    /\ Goto("httpd", "broadcast")
    /\ UNCHANGED <<Connections, Payloads, debounce, lock, events>>

\* Mutant: the socket is closed before its number leaves the table.
CloseSocketFirst(f) ==
    /\ At("httpd", "idle")
    /\ f \in open
    /\ open' = open \ {f}
    /\ place' = [place EXCEPT !["httpd"].pc = "removed"]
    /\ UNCHANGED <<clients, seen, Payloads, Timers, lock, events>>

\* ws_manager_remove_fd_internal for a session that ends.
Remove(f) ==
    /\ At("httpd", "idle")
    /\ f \in open
    /\ clients' = clients \ {f}
    /\ seen' = [seen EXCEPT ![f] = Unseen]
    /\ place' = [place EXCEPT !["httpd"].pc = "removed", !["httpd"].fd = f]
    /\ UNCHANGED <<open, Payloads, Timers, lock, events>>

\* A frame of type CLOSE: the same, and the session is left to end later.
RemoveOnCloseFrame(f) ==
    /\ At("httpd", "idle")
    /\ f \in clients
    /\ clients' = clients \ {f}
    /\ seen' = [seen EXCEPT ![f] = Unseen]
    /\ place' = [place EXCEPT !["httpd"].pc = "removed"]
    /\ UNCHANGED <<open, Payloads, Timers, lock, events>>

\* Mutant: the timer is stopped for every client that leaves.
AlwaysStop == At("httpd", "removed") /\ Goto("httpd", "stop")
    /\ UNCHANGED <<Connections, Payloads, Timers, lock, events>>

\* The count is read in a critical section of its own ...
CountClients ==
    /\ At("httpd", "removed")
    /\ Goto("httpd", IF clients = {} THEN "stop" ELSE "close")
    /\ UNCHANGED <<Connections, Payloads, Timers, lock, events>>

\* ... and used outside of it.
StopPeriodic ==
    /\ At("httpd", "stop")
    /\ periodic' = Off
    /\ Goto("httpd", "close")
    /\ UNCHANGED <<Connections, Payloads, debounce, lock, events>>

CloseSocket ==
    /\ At("httpd", "close")
    /\ open' = open \ {place["httpd"].fd}
    /\ Rest("httpd")
    /\ UNCHANGED <<clients, seen, Payloads, Timers, lock, events>>

(***************************************************************************)
(* What starts a broadcast on the event loop and on the timer task.        *)
(***************************************************************************)
\* The event is posted without waiting: a full queue drops it.
Change(s, v) ==
    /\ source[s] # v
    /\ source' = [source EXCEPT ![s] = v]
    /\ events' \in {events, IF events < EventBound THEN events + 1 ELSE events}
    /\ UNCHANGED <<Connections, shown, age, frame, lock, place, Timers>>

HandleEvent ==
    /\ At("events", "idle")
    /\ events > 0
    /\ events' = events - 1
    /\ Goto("events", "broadcast")
    /\ UNCHANGED <<Connections, Payloads, Timers, lock>>

DebounceFires ==
    /\ At("timer", "idle")
    /\ debounce = 0
    /\ debounce' = Off
    /\ Goto("timer", "broadcast")
    /\ UNCHANGED <<Connections, Payloads, periodic, lock, events>>

PeriodicFires ==
    /\ At("timer", "idle")
    /\ periodic = 0
    /\ periodic' = Period
    /\ Goto("timer", "broadcast")
    /\ UNCHANGED <<Connections, Payloads, debounce, lock, events>>

CountDown(d) == IF d \in {0, Off} THEN d ELSE d - 1

Tick ==
    /\ age' = [s \in Stream |-> IF age[s] < SlowInterval THEN age[s] + 1
                                                         ELSE age[s]]
    /\ debounce' = CountDown(debounce)
    /\ periodic' = CountDown(periodic)
    /\ UNCHANGED <<Connections, source, shown, frame, lock, place, events>>

(***************************************************************************)
(* ws_broadcast_status_with_handle.                                        *)
(***************************************************************************)
\* Mutant: the lock is not taken.
Unlocked(t) == At(t, "broadcast") /\ lock' = lock

TakeLock(t) ==
    /\ At(t, "broadcast")
    /\ lock = Free
    /\ lock' = t

Skip(t) ==
    /\ At(t, "broadcast")
    /\ lock # Free
    /\ debounce' = Retry
    /\ Rest(t)
    /\ UNCHANGED <<Connections, Payloads, periodic, lock, events>>

\* Mutant: a payload once sent is never sent again.
NothingNewEver == source.devices = shown

NothingNew == source.devices = shown /\ age.devices < DupInterval
TooSoon    == ~NothingNew /\ age.devices < MinInterval
Fits       == source.devices \notin Oversized

\* The payload could not be built, or the clients were just sent the same one.
SendNothing(t) ==
    /\ TakeLock(t)
    /\ ~Fits \/ NothingNew
    /\ Goto(t, "out")
    /\ UNCHANGED <<Connections, Payloads, Timers, events>>

SendLater(t) ==
    /\ TakeLock(t)
    /\ Fits /\ TooSoon
    /\ debounce' = MinInterval - age.devices
    /\ Goto(t, "out")
    /\ UNCHANGED <<Connections, Payloads, periodic, events>>

Payload(s) == IF s \in Told THEN source[s] ELSE None

\* The frame always fits: WS_FRAME_BUF_SIZE leaves room for the envelope around
\* the longest payload that a builder returns.
Wrap(t, s, due) ==
    LET f == [stream |-> s, content |-> Payload(s)]
    IN  /\ frame' = f
        /\ place' = [place EXCEPT ![t].pc = "send", ![t].due = due,
                                  ![t].own = f]

SendDevices(t) ==
    /\ TakeLock(t)
    /\ Fits /\ ~NothingNew /\ ~TooSoon
    /\ shown' = source.devices
    /\ LET due == {s \in Slow : age[s] >= SlowInterval} IN
       /\ age' = [s \in Stream |-> IF s \in due \cup {"devices"} THEN 0
                                                                 ELSE age[s]]
       /\ Wrap(t, "devices", due)
    /\ UNCHANGED <<Connections, source, Timers, events>>

Delivered(served) ==
    seen' = [f \in Fd |->
               IF f \in served /\ frame.stream \in Told
               THEN [seen[f] EXCEPT ![frame.stream] = frame.content]
               ELSE IF f \in clients \ served THEN Unseen ELSE seen[f]]

\* ws_manager_send_frame_to_clients: a client that fails leaves the table, and
\* its socket stays open.  What is left in the buffer is never read again.
Send(t) ==
    /\ At(t, "send")
    /\ \E served \in SUBSET clients :
          /\ clients' = served
          /\ Delivered(served)
    /\ frame' = NoFrame
    /\ place' = [place EXCEPT ![t].pc = "slow", ![t].own = NoFrame]
    /\ UNCHANGED <<open, source, shown, age, Timers, lock, events>>

First(due) == IF "health" \in due THEN "health" ELSE "lqi"

\* A frame that is due is more than DupInterval old, so that a payload equal
\* to the last one is sent as well.
SendSlow(t) ==
    /\ At(t, "slow")
    /\ place[t].due # {}
    /\ LET s == First(place[t].due) IN
       /\ Payload(s) \notin Oversized
       /\ Wrap(t, s, place[t].due \ {s})
    /\ UNCHANGED <<Connections, source, shown, age, Timers, lock, events>>

\* A payload that could not be built stays due.
SlowBuildFails(t) ==
    /\ At(t, "slow")
    /\ place[t].due # {}
    /\ LET s == First(place[t].due) IN
       /\ Payload(s) \in Oversized
       /\ age' = [age EXCEPT ![s] = SlowInterval]
       /\ place' = [place EXCEPT ![t].due = @ \ {s}]
    /\ UNCHANGED <<Connections, source, shown, frame, Timers, lock, events>>

Unlock(t) ==
    /\ At(t, "out") \/ (At(t, "slow") /\ place[t].due = {})
    /\ lock' = Free
    /\ Rest(t)
    /\ UNCHANGED <<Connections, Payloads, Timers, events>>

Broadcast(t) ==
    \/ Skip(t) \/ SendNothing(t) \/ SendLater(t)
    \/ SendDevices(t) \/ Send(t) \/ SendSlow(t) \/ SlowBuildFails(t)
    \/ Unlock(t)

Serve == StartPeriodic \/ CountClients \/ StopPeriodic \/ CloseSocket

Next ==
    \/ \E f \in Fd : Connect(f) \/ Reject(f) \/ Remove(f) \/ RemoveOnCloseFrame(f)
    \/ \E s \in Told : \E v \in Content[s] : Change(s, v)
    \/ Serve \/ HandleEvent \/ DebounceFires \/ PeriodicFires \/ Tick
    \/ \E t \in Task : Broadcast(t)

\* The scheduler runs the three tasks and the clock goes on.  Nobody has to
\* connect, leave or change anything, and nothing has to fail.
Fairness ==
    /\ WF_vars(Serve) /\ WF_vars(HandleEvent)
    /\ WF_vars(DebounceFires) /\ WF_vars(PeriodicFires) /\ WF_vars(Tick)
    /\ \A t \in Task : WF_vars(Broadcast(t))

Spec == Init /\ [][Next]_vars
FairSpec == Spec /\ Fairness

(***************************************************************************)
(* Properties.                                                             *)
(***************************************************************************)
\* Every variable keeps its type; the table never holds more clients than
\* ws_fds has slots.
TypeOK ==
    /\ clients \subseteq Fd /\ Cardinality(clients) <= MaxClients
    /\ open \subseteq Fd
    /\ source \in Sources
    /\ shown \in DeviceList \cup {None}
    /\ age \in [Stream -> 0 .. SlowInterval]
    /\ frame \in Frame
    /\ seen \in [Fd -> Sent]
    /\ lock \in Task \cup {Free}
    /\ place \in [Task -> Place]
    /\ {debounce, periodic} \subseteq 0 .. Off
    /\ events \in 0 .. EventBound

\* What a task hands to the clients is the frame it wrapped itself: no other task
\* wraps into the shared buffer, or takes a later sequence number, before the
\* frame is sent (the two happen under different locks).
SendersOwnFrame ==
    \A t \in Task : At(t, "send") => frame = place[t].own

\* A socket leaves the table before it is closed, so that no frame goes to a
\* number the server may have given to another connection.
ClientsAreOpen == clients \subseteq open

\* While a client is listed the periodic timer runs: the count that stops it was
\* read outside the lock, and the timer is the only thing that brings a client
\* what a skipped or dropped broadcast kept from it.
TimerRunsForClients ==
    clients # {} /\ ~At("httpd", "added") => periodic # Off

\* A connected client is told the newest device list and the newest link
\* qualities, unless they change again or the client leaves: neither a lock that
\* was taken, nor the rate limits, a duplicate payload at the connection, nor an
\* event that got lost keeps them from it for ever.
NewestReaches(f, s) ==
    \A v \in Content[s] \ Oversized :
        (f \in clients /\ source[s] = v)
            ~> (f \notin clients \/ source[s] # v \/ seen[f][s] = v)
=============================================================================
