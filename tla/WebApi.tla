------------------------------- MODULE WebApi -------------------------------
(***************************************************************************)
(* The HTTP API: the handlers of gateway_web_api and the static files,     *)
(* which the one task of the HTTP server runs, and the ring of recent      *)
(* errors, into which the event loop and the timer task write as well.     *)
(*                                                                         *)
(* A handler reads and checks the body, calls one or two services, builds  *)
(* its answer and sends it in chunks.  What the services do is modelled in *)
(* their own modules; here a call succeeds, and its effect is recorded, or *)
(* returns an error.  A number of a request is counted in tenths, as JSON  *)
(* has fractions; a text is its length, and the size of a page is counted  *)
(* with every number in it at its longest.  A failing send makes the       *)
(* server close the connection.                                            *)
(***************************************************************************)
EXTENDS Integers, Sequences, FiniteSets

CONSTANTS
    Caster,         \* the other tasks that record errors
    RingCap,        \* GATEWAY_ERROR_RING_CAPACITY
    Emit,           \* max_emit, the errors the health page shows
    MaxDevices,     \* MAX_DEVICES
    DefaultDevices, \* and its default
    DeviceLists,    \* bound: the device lists that occur
    Sample,         \* bound: values of each field of a request
    ErrorBound,     \* bound: errors recorded between two restarts
    RowBound        \* bound: networks a scan finds, blocks of a file

Httpd == "httpd"
Task  == Caster \cup {Httpd}
Free  == "free"

ASSUME ApiAssumption ==
    /\ Httpd \notin Caster /\ Free \notin Task
    /\ {RingCap, Emit, MaxDevices, DefaultDevices, ErrorBound, RowBound}
         \subseteq Nat \ {0}
    /\ Emit <= RingCap
    /\ DeviceLists \subseteq [rows : 0 .. MaxDevices, name : 0 .. 186]
    /\ \A f \in {"addr", "ep", "cmd", "delay"} : Sample[f] \subseteq Int

VARIABLES
    slots, head, count,     \* s_ring, s_ring_head, s_ring_count
    holder,                 \* s_ring_lock
    stored,                 \* history: errors recorded; an entry is its number
    pc,                     \* each task's place
    req,                    \* the request that is being answered
    list,                   \* the device list: its rows and their names' length
    wire                    \* what the client has received of the answer

ring == <<slots, head, count, holder, stored>>
vars == <<ring, pc, req, list, wire>>

(***************************************************************************)
(* api_contracts.c: what a request may hold and what is kept of it.        *)
(***************************************************************************)
JobType == {"scan", "factory_reset", "reboot", "update", "lqi_refresh"}

ShortMax == 65535   \* the last uint16_t
DelayMax == 60000

Allowed == [addr |-> 1 .. ShortMax, ep |-> 1 .. 240, cmd |-> 0 .. 1,
            name |-> 1 .. 31, ssid |-> 1 .. 32, password |-> 8 .. 64,
            delay |-> 0 .. DelayMax, type |-> JobType]

\* The fields that are numbers in JSON, and the tenths of one.
JsonNumber == {"addr", "ep", "cmd", "delay"}
Unit == 10

\* What cJSON gives for a number's int: the whole part, without the fraction.
\* Beyond int it gives int's limit, which every check refuses as well.
valueint(v) == IF v >= 0 THEN v \div Unit ELSE -((-v) \div Unit)

\* What the checks see of a field, and the casts after them.
Parsed(f, v) == IF f \in JsonNumber THEN valueint(v) ELSE v

\* strlcpy into a buffer of n characters and its end.
Cut(v, n) == IF v > n THEN n ELSE v

\* The numbers of C's types, and the room of the text fields.
Width == [addr |-> ShortMax + 1, ep |-> 256, cmd |-> 256]
Room  == [name |-> 31, ssid |-> 32, password |-> 64]

\* The value as its C type holds it; valueint of "delay" is an int already.
Kept(f, v) ==
    IF f \in DOMAIN Width THEN Parsed(f, v) % Width[f]
    ELSE IF f \in DOMAIN Room THEN Cut(v, Room[f])
    ELSE IF f = "type" /\ v \notin JobType THEN "scan" ELSE Parsed(f, v)

\* A job without reboot_delay_ms asks for the default.
DefaultDelay == 1000
NoArgs == [delay |-> DefaultDelay * Unit]
Args(kind) ==
    CASE kind = "control"   -> [addr : Sample.addr, ep : Sample.ep, cmd : Sample.cmd]
      [] kind = "delete"    -> [addr : Sample.addr]
      [] kind = "rename"    -> [addr : Sample.addr, name : Sample.name]
      [] kind = "wifi_save" -> [ssid : Sample.ssid, password : Sample.password]
      [] kind = "submit"    -> [type : Sample.type, delay : Sample.delay]
      [] OTHER              -> {NoArgs}

WithBody == {"control", "delete", "rename", "wifi_save", "submit"}
Page     == {"status", "lqi", "health"}
Kind     == WithBody \cup Page
              \cup {"permit_join", "reboot", "factory_reset", "scan", "job", "file"}

\* A body is whole, does not fit its buffer or is not the object asked for, or
\* ends before its length.
Body == {"whole", "unfit", "cut"}

\* Mutant: a number is only checked to be positive.
ValidLower(args) ==
    \A f \in DOMAIN args \ {"type"} : Parsed(f, args[f]) >= 0

Valid(args) == \A f \in DOMAIN args : Parsed(f, args[f]) \in Allowed[f]

(***************************************************************************)
(* api_usecases_*.c: the services a handler calls, in order.               *)
(***************************************************************************)
Calls(kind) ==
    CASE kind = "wifi_save"     -> <<"save", "reboot">>
      [] kind = "factory_reset" -> <<"reset", "report">>
      [] kind = "submit"        -> <<"queue", "state">>
      [] kind = "job"           -> <<"state">>
      [] kind = "file"          -> <<>>
      [] OTHER                  -> <<kind>>

Reads == Page \cup {"scan", "state", "report"}
Err   == {"invalid_arg", "not_found", "nvs_not_found", "invalid_state",
          "no_mem", "too_large", "fail"}

\* Opening the network and reading the report cannot fail once the gateway
\* has started; the reboot task may not fit in memory; no page's read allocates.
Failures(call) ==
    CASE call \in {"permit_join", "report"} -> {}
      [] call = "reboot"                    -> {"no_mem"}
      [] call \in Page                      -> {"invalid_arg", "invalid_state", "fail"}
      [] OTHER                              -> Err \ {"too_large"}

\* http_error.c and the bootstrap's hook; "too_large" is ESP_ERR_NO_MEM too.
Status(err) ==
    CASE err = "invalid_arg"                    -> "400"
      [] err \in {"not_found", "nvs_not_found"} -> "404"
      [] err = "invalid_state"                  -> "409"
      [] err \in {"no_mem", "too_large"}        -> "503"
      [] OTHER                                  -> "500"

(***************************************************************************)
(* The pages and their buffers.  A page fits when its end mark does too.   *)
(***************************************************************************)
StatusSize    == 125 + list.rows * (31 + list.name)
LqiSize       == 76 + list.rows * (163 + list.name)
HealthSize(r) == 1241 + 177 * Len(r.shown)

Size(r) ==
    CASE r.kind = "status" -> StatusSize
      [] r.kind = "lqi"    -> LqiSize
      [] r.kind = "health" -> HealthSize(r)

\* Mutant: every heap buffer has the size of the first.
BufferFixed(kind, try) ==
    (IF kind = "health" THEN 768 ELSE 1024) * (IF try = 0 THEN 1 ELSE 2)

Buffer(kind, try) == (IF kind = "health" THEN 768 ELSE 1024) * 2 ^ try
HeapRetries == 3

JobLimit == [scan |-> 768, factory_reset |-> 1536, reboot |-> 512,
             update |-> 768, lqi_refresh |-> 1024]

(***************************************************************************)
(* The answers, chunk by chunk.                                            *)
(***************************************************************************)
Rows(n) == [i \in 1 .. n |-> "row"]

Result(r) ==
    CASE r.rows = 0                      -> "null"
      [] r.rows > JobLimit[r.args.type]  -> "truncated"
      [] OTHER                           -> "result"

Answer(r) ==
    CASE r.kind = "scan" /\ r.rows > 0 -> <<"head">> \o Rows(r.rows) \o <<"tail", "end">>
      [] r.kind = "job"                -> <<"head", "job", Result(r), "tail", "end">>
      [] r.kind = "file"               -> Rows(r.rows) \o <<"end">>
      [] OTHER                         -> <<"head", "data", "tail", "end">>

NoRequest == [kind |-> "file", args |-> NoArgs, body |-> "whole", stage |-> 1,
              try |-> 0, rows |-> 0, err |-> "fail", done |-> {}, shown |-> <<>>,
              since |-> 0, left |-> <<>>]

Init ==
    /\ slots = [i \in 0 .. RingCap - 1 |-> 0] /\ head = 0 /\ count = 0
    /\ holder = Free
    /\ stored = 0
    /\ pc = [t \in Task |-> "idle"]
    /\ req = NoRequest
    /\ list \in DeviceLists
    /\ wire = <<>>

At(t, p)   == pc[t] = p
Goto(t, p) == pc' = [pc EXCEPT ![t] = p]

\* The errors that may still be recorded leave room under the bound.
Pending    == Cardinality({t \in Task : ~At(t, "idle")})
BelowBound == stored + Pending < ErrorBound

(***************************************************************************)
(* gateway_error_ring_add: the lock is spun on, never waited for.          *)
(***************************************************************************)
\* Mutant: the flag is set without a look at its old value.
LockRingAnyway(t, next) ==
    /\ holder' = t
    /\ Goto(t, next)
    /\ UNCHANGED <<slots, head, count, stored>>

LockRing(t, next) ==
    /\ holder = Free
    /\ holder' = t
    /\ Goto(t, next)
    /\ UNCHANGED <<slots, head, count, stored>>

StoreError(t) ==
    /\ At(t, "store")
    /\ slots' = [slots EXCEPT ![head] = stored + 1]
    /\ Goto(t, "advance")
    /\ UNCHANGED <<head, count, holder, stored, req, list, wire>>

\* Mutant: the head runs off the ring.
NextHeadUnwrapped == head + 1
NextHead == (head + 1) % RingCap

\* The ring is unlocked; the HTTP task goes on to http_error_send.
AdvanceRing(t) ==
    /\ At(t, "advance")
    /\ head' = NextHead
    /\ count' = IF count < RingCap THEN count + 1 ELSE count
    /\ stored' = stored + 1
    /\ holder' = Free
    /\ Goto(t, IF t = Httpd THEN "send" ELSE "idle")
    /\ UNCHANGED <<slots, req, list, wire>>

\* A broadcast that cannot reach a client.
CastFails(t) ==
    /\ t \in Caster /\ At(t, "idle")
    /\ BelowBound
    /\ Goto(t, "add")
    /\ UNCHANGED <<ring, req, list, wire>>

AddError(t) ==
    /\ At(t, "add")
    /\ LockRing(t, "store")
    /\ UNCHANGED <<req, list, wire>>

(***************************************************************************)
(* A request up to its answer.  http_error_send_esp records the error      *)
(* before it sends it; the health page calls http_error_send alone, with   *)
(* 503 or 500.                                                             *)
(***************************************************************************)
Refuse(err) ==
    LET told == IF req.kind = "health" /\ Status(err) # "503" THEN "fail" ELSE err
    IN  /\ req' = [req EXCEPT !.err = told, !.left = <<Status(told)>>]
        /\ Goto(Httpd, IF req.kind = "health" THEN "send" ELSE "add")

Begin(r) == [r EXCEPT !.left = Answer(r)]

Receive(kind, args, body) ==
    /\ At(Httpd, "idle")
    /\ BelowBound
    /\ req' = [NoRequest EXCEPT !.kind = kind, !.args = args, !.body = body,
                                !.since = stored]
    /\ wire' = <<>>
    /\ Goto(Httpd, IF kind \in WithBody THEN "parse" ELSE "call")
    /\ UNCHANGED <<ring, list>>

\* Every handler calls a failure invalid, but a cut job request fails as such.
ParseFails ==
    /\ At(Httpd, "parse")
    /\ req.body # "whole" \/ ~Valid(req.args)
    /\ Refuse(IF req.kind = "submit" /\ req.body = "cut" THEN "fail" ELSE "invalid_arg")
    /\ UNCHANGED <<ring, list, wire>>

Parse ==
    /\ At(Httpd, "parse")
    /\ req.body = "whole" /\ Valid(req.args)
    /\ Goto(Httpd, "call")
    /\ UNCHANGED <<ring, req, list, wire>>

Call == Calls(req.kind)[req.stage]
Last == req.stage = Len(Calls(req.kind))

\* What the call does, with the arguments that were kept.
Effect == IF Call \in Reads THEN {}
          ELSE {<<Call, [f \in DOMAIN req.args |-> Kept(f, req.args[f])]>>}

CallSucceeds ==
    /\ At(Httpd, "call") /\ req.kind \notin {"scan", "job", "file"}
    /\ LET called == [req EXCEPT !.done = @ \cup Effect]
       IN  \/ /\ ~Last
              /\ req' = [called EXCEPT !.stage = @ + 1]
              /\ UNCHANGED pc
           \/ /\ Last /\ req.kind \notin Page
              /\ req' = Begin(called)
              /\ Goto(Httpd, "send")
           \/ /\ Last /\ req.kind \in Page
              /\ req' = called
              /\ Goto(Httpd, IF req.kind = "health" THEN "snapshot" ELSE "build")
    /\ UNCHANGED <<ring, list, wire>>

\* A scan finds networks; a job has a type and, once done, a result.
ReadSucceeds(n, type) ==
    /\ At(Httpd, "call")
    /\ \/ req.kind \in {"scan", "file"} /\ n <= RowBound
       \/ req.kind = "job" /\ n \in {0, JobLimit[type], JobLimit[type] + 1}
    /\ req' = Begin([req EXCEPT !.rows = n, !.args = [type |-> type]])
    /\ Goto(Httpd, "send")
    /\ UNCHANGED <<ring, list, wire>>

\* The state of a job just queued is a courtesy: "queued" stands in for it.
CallFails(err) ==
    /\ At(Httpd, "call") /\ req.kind # "file"
    /\ err \in Failures(Call)
    /\ IF req.kind = "submit" /\ Last
       THEN req' = Begin(req) /\ Goto(Httpd, "send")
       ELSE Refuse(IF req.kind \in {"delete", "rename", "reboot", "status"}
                   THEN "fail" ELSE err)
    /\ UNCHANGED <<ring, list, wire>>

\* The client has the file, it is not there, or no block of memory is free.
FileRefused(status) ==
    /\ At(Httpd, "call") /\ req.kind = "file"
    /\ req' = [req EXCEPT !.left = <<status>>]
    /\ Goto(Httpd, "send")
    /\ UNCHANGED <<ring, list, wire>>

\* gateway_error_ring_snapshot, in two steps: the lock, then the copy, newest
\* entry first.
LockSnapshot ==
    /\ At(Httpd, "snapshot")
    /\ LockRing(Httpd, "copy")
    /\ UNCHANGED <<req, list, wire>>

Snapshot == [i \in 1 .. Cut(count, Emit) |-> slots[(head + RingCap - i) % RingCap]]

CopyErrors ==
    /\ At(Httpd, "copy")
    /\ req' = [req EXCEPT !.shown = Snapshot]
    /\ holder' = Free
    /\ Goto(Httpd, "build")
    /\ UNCHANGED <<slots, head, count, stored, list, wire>>

Fits == Size(req) < Buffer(req.kind, req.try)

Build ==
    /\ At(Httpd, "build") /\ Fits
    /\ req' = Begin(req)
    /\ Goto(Httpd, "send")
    /\ UNCHANGED <<ring, list, wire>>

\* The page is built anew in a buffer of twice the size, from what the services
\* and the ring hold by then.
TryLarger ==
    /\ At(Httpd, "build") /\ ~Fits
    /\ req.try < HeapRetries
    /\ req' = [req EXCEPT !.try = @ + 1, !.stage = 1]
    /\ Goto(Httpd, "call")
    /\ UNCHANGED <<ring, list, wire>>

NoHeap ==
    /\ At(Httpd, "build") /\ ~Fits
    /\ req.try < HeapRetries
    /\ Refuse("no_mem")
    /\ UNCHANGED <<ring, list, wire>>

TooLarge ==
    /\ At(Httpd, "build") /\ ~Fits
    /\ req.try = HeapRetries
    /\ Refuse("too_large")
    /\ UNCHANGED <<ring, list, wire>>

(***************************************************************************)
(* Sending.                                                                *)
(***************************************************************************)
Send ==
    /\ At(Httpd, "send")
    /\ wire' = Append(wire, Head(req.left))
    /\ req' = [req EXCEPT !.left = Tail(@)]
    /\ Goto(Httpd, IF Len(req.left) = 1 THEN "idle" ELSE "send")
    /\ UNCHANGED <<ring, list>>

\* The handler returns; the static files' handler ends the answer first, also
\* when it is the file that cannot be read.
SendFails ==
    /\ At(Httpd, "send")
    /\ IF Head(req.left) = "row" /\ req.kind = "file"
       THEN req' = [req EXCEPT !.left = <<"end">>] /\ UNCHANGED pc
       ELSE req' = [req EXCEPT !.left = <<>>] /\ Goto(Httpd, "idle")
    /\ UNCHANGED <<ring, list, wire>>

(***************************************************************************)
(* The device list changes; the gateway restarts.                          *)
(***************************************************************************)
ListChanges ==
    /\ list' \in DeviceLists \ {list}
    /\ UNCHANGED <<ring, pc, req, wire>>

Restart ==
    /\ slots' = [i \in 0 .. RingCap - 1 |-> 0] /\ head' = 0 /\ count' = 0
    /\ holder' = Free
    /\ stored' = 0
    /\ pc' = [t \in Task |-> "idle"]
    /\ req' = NoRequest
    /\ wire' = <<>>
    /\ UNCHANGED list

Ring(t)  == CastFails(t) \/ AddError(t) \/ StoreError(t) \/ AdvanceRing(t)
Requests == \E kind \in Kind : \E args \in Args(kind) :
              \E body \in IF kind \in WithBody THEN Body ELSE {"whole"} :
                Receive(kind, args, body)
ResultSize == (0 .. RowBound) \cup UNION {{n, n + 1} : n \in {JobLimit[t] : t \in JobType}}
Serve ==
    \/ ParseFails \/ Parse \/ CallSucceeds
    \/ \E n \in ResultSize, type \in JobType : ReadSucceeds(n, type)
    \/ \E err \in Err : CallFails(err)
    \/ \E status \in {"304", "404", "500"} : FileRefused(status)
    \/ LockSnapshot \/ CopyErrors
    \/ Build \/ TryLarger \/ NoHeap \/ TooLarge
    \/ Send \/ SendFails

Next ==
    \/ Requests
    \/ Serve
    \/ \E t \in Task : Ring(t)
    \/ ListChanges
    \/ Restart

Spec == Init /\ [][Next]_vars

-----------------------------------------------------------------------------
(* Properties.                                                             *)

\* Every variable has its type: the head and the count never leave the ring,
\* however many errors are recorded (error_ring.c:56).
TypeOK ==
    /\ slots \in [0 .. RingCap - 1 -> 0 .. ErrorBound]
    /\ head \in 0 .. RingCap - 1
    /\ count \in 0 .. RingCap
    /\ holder \in Task \cup {Free}
    /\ stored \in 0 .. ErrorBound
    /\ pc \in [Task -> {"idle", "parse", "call", "build", "snapshot", "copy",
                        "add", "store", "advance", "send"}]
    /\ req.kind \in Kind /\ req.body \in Body /\ req.err \in Err
    /\ req.try \in 0 .. HeapRetries
    /\ Len(req.shown) <= Emit
    /\ list \in DeviceLists

\* The calls that the request asks for.
Asked ==
    CASE req.kind = "wifi_save"     -> {"save", "reboot"}
      [] req.kind = "factory_reset" -> {"reset"}
      [] req.kind = "submit"        -> {"queue"}
      [] req.kind \in {"control", "delete", "rename", "permit_join", "reboot"} ->
            {req.kind}
      [] OTHER                      -> {}

\* A text is as it was sent.  A number is less than one off: it is the one sent
\* if that is whole, and the fraction of any other is lost.
Near(f, used, sent) ==
    IF f \in JsonNumber THEN Unit * used - sent \in 1 - Unit .. Unit - 1
    ELSE used = sent

\* Each call was made, and with the arguments of the request.
DoneAsAsked ==
    /\ {call[1] : call \in req.done} = Asked
    /\ \A call \in req.done :
         /\ DOMAIN call[2] = DOMAIN req.args
         /\ \A f \in DOMAIN req.args : Near(f, call[2][f], req.args[f])

Refused == wire # <<>> /\ wire[1] \in {"400", "404", "409", "500", "503"}
Ended   == wire # <<>> /\ wire[Len(wire)] = "end"

\* No answer of the API claims more than happened: from the first chunk of a
\* success on, everything the request asked for is done, both when one call of
\* several fails and when the last read of a job fails; with the texts it was
\* sent and with the numbers, of which nothing but a fraction is lost, neither in
\* a narrower type nor in a buffer.  That {"cmd": 1.9} is taken for 1 and answered
\* as a success is what the code does (api_contracts.c:19-31).  A request refused
\* as invalid has changed nothing; and an answer that ends has every chunk of the
\* page, although any send may fail (api_handlers.c:86, api_usecases_system.c:15,
\* api_jobs_handlers.c:83, http_error.c:115).
AnswerIsTrue ==
    /\ wire # <<>> /\ ~Refused => DoneAsAsked
    /\ Refused /\ wire[1] = "400" => req.done = {}
    /\ Ended /\ req.kind # "file" => wire = Answer(req)

\* The errors of a health page are the newest ones at one moment since the
\* request came, newest first and without a gap or a double, although three
\* tasks write the ring and it wraps (error_ring.c:51, 76).
NewestErrorsShown ==
    req.kind = "health" /\ At(Httpd, "build") =>
        \E n \in req.since .. stored :
            req.shown = [i \in 1 .. Cut(n, Emit) |-> n + 1 - i]

\* In the last of its buffers a page fits, for every list of as many devices as
\* are configured by default and whatever names they have, and the health page
\* always: only a missing heap buffer turns a client away, though the list may
\* grow between two tries.  Longer lists, which a build may allow, need not fit
\* (api_status_handlers.c:36, 78).
ListAlwaysServed ==
    At(Httpd, "build") /\ req.try = HeapRetries /\ ~Fits =>
        req.kind # "health" /\ list.rows > DefaultDevices
=============================================================================
