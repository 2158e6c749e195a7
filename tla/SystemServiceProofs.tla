------------------------ MODULE SystemServiceProofs ------------------------
(* Theorems about SystemService for every set of tasks and of credentials. *)
EXTENDS SystemService, TLAPS

(***************************************************************************)
(* Type correctness.                                                       *)
(***************************************************************************)

\* A task between the two keys of a save has its pair.
PairKnown == \A t \in Task : At(t, "save_pass") => task[t].pair \in Pair

Typed == TypeOK /\ PairKnown

LEMMA RestType == AtRest \in Place
BY DEF AtRest, Place, Pc, Op, Part, NoReset, Report, Status

LEMMA InitTyped == Init => Typed
<1> SUFFICES ASSUME Init PROVE Typed
  OBVIOUS
<1>1. NoReset \in Report /\ nvs \in Store
  BY DEF Init, NoReset, Report, Status, Store
<1>2. task \in [Task -> Place] /\ PairKnown
  BY RestType DEF Init, PairKnown, At, AtRest
<1>3. QED
  BY <1>1, <1>2 DEF Init, Typed, TypeOK

LEMMA LoadedType ==
  ASSUME NEW store \in Store
  PROVE  Loaded(store) \in Pair \cup {Default}
BY DEF Store, Loaded, Pair

\* The types of all variables but task.
RestTyped ==
    /\ nvs \in Store
    /\ cfg \in Task \cup {Free}
    /\ report \in Report
    /\ scheduled \in BOOLEAN
    /\ count \in Nat
    /\ reboot_tasks \in Nat
    /\ using \in Pair \cup {Default}
    /\ kept \in Pair \cup {Default}
    /\ torn \in BOOLEAN
    /\ promised \in BOOLEAN

LEMMA TypedParts ==
  Typed <=> RestTyped /\ task \in [Task -> Place] /\ PairKnown
BY DEF Typed, TypeOK, RestTyped

\* One task moves to a place that is not the middle of a save.
LEMMA MoveType ==
  ASSUME task \in [Task -> Place], PairKnown, NEW t \in Task, NEW p \in Place,
         p.pc = "save_pass" => p.pair \in Pair, task' = [task EXCEPT ![t] = p]
  PROVE  task' \in [Task -> Place] /\ PairKnown'
BY DEF PairKnown, At

\* The record of a task with one field changed.
LEMMA PlaceFields ==
  ASSUME NEW p \in Place
  PROVE  /\ \A c \in Pc : [p EXCEPT !.pc = c] \in Place
         /\ \A o \in Op : [p EXCEPT !.op = o] \in Place
         /\ \A n \in Part : [p EXCEPT !.part = n] \in Place
         /\ \A n \in Part, s \in Status : [p EXCEPT !.status[n] = s] \in Place
         /\ \A n \in Part, s \in Status : [p EXCEPT !.told[n] = s] \in Place
         /\ [p EXCEPT !.pair = Unset] \in Place
BY DEF Place, Report

LEMMA BeginSaveType ==
  ASSUME Typed, NEW t \in Task, NEW c \in Pair, SaveSsid(t, c)
  PROVE  Typed'
<1> DEFINE p == [AtRest EXCEPT !.pc = "save_pass", !.op = "save", !.pair = c]
<1>1. p \in Place /\ p.pair \in Pair
  BY RestType DEF Place, Pc, Op
<1>2. task' \in [Task -> Place] /\ PairKnown'
  BY <1>1, MoveType, TypedParts DEF SaveSsid
<1>3. RestTyped'
  BY TypedParts DEF SaveSsid, RestTyped, RebootState, Store, Pair
<1>4. QED
  BY <1>2, <1>3, TypedParts DEF Typed, TypeOK, RestTyped

LEMMA SaveType ==
  ASSUME Typed, NEW t \in Task, Save(t)
  PROVE  Typed'
<1>0. task[t].pair \in Pair /\ task[t] \in Place
  BY DEF Typed, TypeOK, PairKnown, Save, SavePassword, SavePasswordFails
<1>1. [nvs EXCEPT !.password = task[t].pair.password] \in Store
  BY <1>0 DEF Typed, TypeOK, Store, Pair
<1>2. RestTyped'
  BY <1>0, <1>1 DEF Typed, TypeOK, RestTyped, Save, SavePassword,
                    SavePasswordFails, RebootState
<1>3. CASE SavePassword(t)
  <2> DEFINE p == [[task[t] EXCEPT !.pc = "schedule"] EXCEPT !.pair = Unset]
  <2>0. [task[t] EXCEPT !.pc = "schedule"] \in Place
    BY <1>0, PlaceFields DEF Pc
  <2>1. p \in Place /\ p.pc # "save_pass"
    BY <2>0, PlaceFields DEF Place
  <2>2. task' = [task EXCEPT ![t] = p]
    BY <1>3, <1>0 DEF SavePassword, Typed, TypeOK, Place
  <2>3. task' \in [Task -> Place] /\ PairKnown'
    BY <2>1, <2>2, MoveType, TypedParts
  <2>4. QED
    BY <1>2, <2>3 DEF Typed, TypeOK, RestTyped
<1>4. CASE SavePasswordFails(t)
  <2>1. task' \in [Task -> Place] /\ PairKnown'
    BY <1>4, RestType, MoveType, TypedParts DEF SavePasswordFails, AtRest
  <2>2. QED
    BY <1>2, <2>1 DEF Typed, TypeOK, RestTyped
<1>5. QED
  BY <1>3, <1>4 DEF Save

LEMMA WifiDoneType ==
  ASSUME Typed, NEW t \in Task, NEW s \in Status
  PROVE  WifiDone(t, s) \in Place /\ WifiDone(t, s).pc = "clear"
<1> DEFINE p1 == [task[t] EXCEPT !.pc = "clear"]
           p2 == [p1 EXCEPT !.part = 2]
           p3 == [p2 EXCEPT !.op = "reset"]
           p4 == [p3 EXCEPT !.status[1] = s]
<1>0. task[t] \in Place /\ 1 \in Part /\ 2 \in Part
  BY DEF Typed, TypeOK, Part
<1>1. p1 \in Place
  BY <1>0, PlaceFields DEF Pc
<1>2. p2 \in Place
  <2> HIDE DEF p1
  <2>1. QED
    BY <1>0, <1>1, PlaceFields
<1>3. p3 \in Place
  BY <1>2, PlaceFields DEF Op
<1>4. p4 \in Place
  <2> HIDE DEF p3
  <2>1. QED
    BY <1>0, <1>3, PlaceFields
<1>5. WifiDone(t, s) = p4 /\ p4.pc = "clear"
  BY <1>0, <1>4 DEF WifiDone, Place
<1>6. QED
  BY <1>4, <1>5

LEMMA BeginResetType ==
  ASSUME Typed, NEW t \in Task, BeginReset(t)
  PROVE  Typed'
<1>1. RestTyped'
  BY DEF Typed, TypeOK, RestTyped, BeginReset, EraseSsid, EraseSsidFails,
         RebootState, Store
<1>2. CASE EraseSsid(t)
  <2> DEFINE p == [AtRest EXCEPT !.pc = "erase_pass", !.op = "reset"]
  <2>1. p \in Place /\ p.pc # "save_pass"
    BY RestType DEF Place, Pc, Op
  <2>2. task' \in [Task -> Place] /\ PairKnown'
    BY <1>2, <2>1, MoveType, TypedParts DEF EraseSsid
  <2>3. QED
    BY <1>1, <2>2 DEF Typed, TypeOK, RestTyped
<1>3. CASE EraseSsidFails(t)
  <2>1. task' \in [Task -> Place] /\ PairKnown'
    BY <1>3, WifiDoneType, MoveType, TypedParts DEF EraseSsidFails, Status
  <2>2. QED
    BY <1>1, <2>1 DEF Typed, TypeOK, RestTyped
<1>4. QED
  BY <1>2, <1>3 DEF BeginReset

\* A part of a factory reset ends with a status.
LEMMA OutcomeType ==
  ASSUME NEW p \in Part
  PROVE  Outcome(p) \subseteq Status
BY DEF Outcome, Status

LEMMA AfterResetType ==
  ASSUME Typed, NEW t \in Task
  PROVE  AfterReset(t) \in Place /\ AfterReset(t).pc # "save_pass"
<1>1. task[t] \in Place /\ 1 \in Part
  BY DEF Typed, TypeOK, Part
<1>2. [task[t] EXCEPT !.pc = "schedule", !.part = 1] \in Place
  BY <1>1 DEF Place, Pc
<1>3. [task[t] EXCEPT !.pc = "read", !.part = 1] \in Place
  BY <1>1 DEF Place, Pc
<1>4. QED
  BY <1>1, <1>2, <1>3, RestType DEF AfterReset, AtRest, Place

LEMMA ResetType ==
  ASSUME Typed, NEW t \in Task, Reset(t)
  PROVE  Typed'
<1>0. task[t] \in Place /\ task[t].part \in Part /\ task[t].pc \in Pc
  BY DEF Typed, TypeOK, Place
<1>1. CASE ErasePassword(t) \/ ErasePasswordFails(t)
  <2>1. RestTyped'
    BY <1>1 DEF Typed, TypeOK, RestTyped, ErasePassword, ErasePasswordFails,
                RebootState, Store
  <2>2. task' \in [Task -> Place] /\ PairKnown'
    BY <1>1, WifiDoneType, MoveType, TypedParts
       DEF ErasePassword, ErasePasswordFails, Status
  <2>3. QED
    BY <2>1, <2>2 DEF Typed, TypeOK, RestTyped
<1>2. CASE ClearPart(t)
  <2>1. PICK s \in Outcome(task[t].part) :
           task' = [task EXCEPT
                      ![t].status[task[t].part] = s,
                      ![t].part = IF @ = 4 THEN 1 ELSE @ + 1,
                      ![t].pc = IF task[t].part = 4 THEN "store" ELSE @]
    BY <1>2 DEF ClearPart
  <2> DEFINE n == IF task[t].part = 4 THEN 1 ELSE task[t].part + 1
             c == IF task[t].part = 4 THEN "store" ELSE task[t].pc
             p == [[[task[t] EXCEPT !.status[task[t].part] = s]
                                EXCEPT !.part = n] EXCEPT !.pc = c]
  <2>2. s \in Status /\ n \in Part /\ c \in Pc /\ c # "save_pass"
    BY <1>0, <1>2, <2>1, OutcomeType DEF Part, Pc, ClearPart, At
  <2>3. [task[t] EXCEPT !.status[task[t].part] = s] \in Place
    BY <1>0, <2>2, PlaceFields
  <2>4. p \in Place /\ p.pc = c
    BY <2>2, <2>3, PlaceFields DEF Place
  <2>5. task' = [task EXCEPT ![t] = p]
    BY <1>0, <2>1 DEF Typed, TypeOK, Place
  <2> HIDE DEF p, c
  <2>6. task' \in [Task -> Place] /\ PairKnown'
    BY <2>2, <2>4, <2>5, MoveType, TypedParts
  <2>7. QED
    BY <1>2, <2>6 DEF Typed, TypeOK, ClearPart, RebootState
<1>3. CASE StoreReport(t)
  <2> DEFINE n == task[t].part
             p == IF n = 4 THEN AfterReset(t) ELSE Following(t)
  <2>1. report' \in Report
    BY <1>0, <1>3 DEF StoreReport, Typed, TypeOK, Report, Place
  <2>2. CASE n = 4
    BY <2>2, AfterResetType, <1>3, <2>1, MoveType, TypedParts
       DEF StoreReport, Typed, TypeOK, RebootState
  <2>3. CASE n # 4
    <3>1. n + 1 \in Part
      BY <1>0, <2>3 DEF Part
    <3>2. Following(t) \in Place /\ Following(t).pc = "store"
      BY <1>0, <1>3, <3>1 DEF Following, Place, StoreReport, At
    <3>3. task' \in [Task -> Place] /\ PairKnown'
      BY <1>3, <2>3, <3>2, MoveType, TypedParts DEF StoreReport
    <3>4. QED
      BY <1>3, <2>1, <3>3 DEF StoreReport, Typed, TypeOK, RebootState
  <2>4. QED
    BY <2>2, <2>3
<1>4. CASE ReadReport(t)
  <2> DEFINE k == task[t].part
             n == IF k = 4 THEN 1 ELSE k + 1
             c == IF k = 4 THEN "answer" ELSE task[t].pc
             p == [[[task[t] EXCEPT !.told[k] = report[k]]
                                EXCEPT !.part = n] EXCEPT !.pc = c]
  <2>1. report[k] \in Status /\ n \in Part /\ c \in Pc /\ c # "save_pass"
    BY <1>0, <1>4 DEF Part, Pc, ReadReport, At, Typed, TypeOK, Report
  <2>2. [task[t] EXCEPT !.told[k] = report[k]] \in Place
    BY <1>0, <2>1, PlaceFields
  <2>3. p \in Place /\ p.pc = c
    BY <2>1, <2>2, PlaceFields DEF Place
  <2>4. task' = [task EXCEPT ![t] = p]
    BY <1>0, <1>4 DEF ReadReport, Typed, TypeOK, Place
  <2> HIDE DEF p, c
  <2>5. task' \in [Task -> Place] /\ PairKnown'
    BY <2>1, <2>3, <2>4, MoveType, TypedParts
  <2>6. QED
    BY <1>4, <2>5 DEF Typed, TypeOK, ReadReport, RebootState
<1>5. CASE Answer(t)
  <2>1. task' \in [Task -> Place] /\ PairKnown'
    BY <1>5, RestType, MoveType, TypedParts DEF Answer, AtRest
  <2>2. QED
    BY <1>5, <2>1 DEF Typed, TypeOK, Answer, RebootState
<1>6. QED
  BY <1>1, <1>2, <1>3, <1>4, <1>5 DEF Reset

LEMMA ToldOkType ==
  ASSUME Typed, NEW t \in Task, ToldOk(t)
  PROVE  task' \in [Task -> Place] /\ PairKnown' /\ promised' \in BOOLEAN
<1>1. [task[t] EXCEPT !.pc = "read"] \in Place
  BY PlaceFields DEF Typed, TypeOK, Pc
<1>2. [task[t] EXCEPT !.pc = "read"].pc # "save_pass"
  BY DEF Typed, TypeOK, Place
<1>3. QED
  BY <1>1, <1>2, RestType, MoveType, TypedParts DEF ToldOk, AtRest

\* A task that only goes to another place.
LEMMA GotoType ==
  ASSUME Typed, NEW t \in Task, NEW c \in Pc, c # "save_pass", Goto(t, c)
  PROVE  task' \in [Task -> Place] /\ PairKnown'
<1> DEFINE p == [task[t] EXCEPT !.pc = c]
<1>1. p \in Place /\ p.pc # "save_pass"
  BY PlaceFields DEF Typed, TypeOK, Place
<1>2. QED
  BY <1>1, MoveType, TypedParts DEF Goto

LEMMA ScheduleType ==
  ASSUME Typed, NEW t \in Task, Schedule(t)
  PROVE  Typed'
<1>1. CASE ScheduleTwice(t) \/ CountReboot(t)
  BY <1>1, ToldOkType DEF ScheduleTwice, CountReboot, Typed, TypeOK
<1>2. CASE ScheduleFirst(t)
  BY <1>2, GotoType DEF ScheduleFirst, Typed, TypeOK, Pc
<1>3. CASE CreateTask(t)
  BY <1>3, GotoType DEF CreateTask, Typed, TypeOK, Pc
<1>4. CASE CreateTaskFails(t)
  BY <1>4, GotoType DEF CreateTaskFails, Typed, TypeOK, Pc, RebootState
<1>5. CASE UndoSchedule(t)
  <2>1. task' \in [Task -> Place] /\ PairKnown'
    BY <1>5, RestType, MoveType, TypedParts DEF UndoSchedule, AtRest
  <2>2. QED
    BY <1>5, <2>1 DEF UndoSchedule, Typed, TypeOK
<1>6. QED
  BY <1>1, <1>2, <1>3, <1>4, <1>5 DEF Schedule

LEMMA RequestType ==
  ASSUME Typed, NEW t \in Task, RequestReboot(t)
  PROVE  Typed'
<1> DEFINE p1 == [task[t] EXCEPT !.pc = "schedule"]
           p == [p1 EXCEPT !.op = "reboot"]
<1>0. task[t] \in Place /\ "reboot" \in Op
  BY DEF Typed, TypeOK, Op
<1>1. p1 \in Place
  BY <1>0, PlaceFields DEF Pc
<1>2. p \in Place
  <2> HIDE DEF p1
  <2>1. QED
    BY <1>0, <1>1, PlaceFields
<1>3. task' = [task EXCEPT ![t] = p] /\ p.pc = "schedule"
  BY <1>0 DEF RequestReboot, Typed, TypeOK, Place
<1> HIDE DEF p
<1>4. task' \in [Task -> Place] /\ PairKnown'
  BY <1>2, <1>3, MoveType, TypedParts
<1>5. QED
  BY <1>4 DEF RequestReboot, Typed, TypeOK, RebootState

LEMMA RestartType ==
  ASSUME Typed, Restart
  PROVE  Typed'
<1>1. using' \in Pair \cup {Default}
  BY LoadedType DEF Restart, Typed, TypeOK
<1>2. task' \in [Task -> Place] /\ PairKnown'
  BY RestType DEF Restart, PairKnown, At, AtRest
<1>3. report' \in Report /\ cfg' \in Task \cup {Free}
  BY DEF Restart, NoReset, Report, Status
<1>4. QED
  BY <1>1, <1>2, <1>3 DEF Restart, Typed, TypeOK

LEMMA NextTyped == Typed /\ [Next]_vars => Typed'
<1> SUFFICES ASSUME Typed, [Next]_vars PROVE Typed'
  OBVIOUS
<1>1. ASSUME NEW t \in Web, NEW c \in Pair, SaveSsid(t, c)
      PROVE  Typed'
  BY <1>1, BeginSaveType DEF Task
<1>2. ASSUME NEW t \in Task, RequestReboot(t) \/ BeginReset(t)
      PROVE  Typed'
  BY <1>2, RequestType, BeginResetType
<1>3. ASSUME NEW t \in Task, Save(t) \/ Reset(t) \/ Schedule(t)
      PROVE  Typed'
  BY <1>3, SaveType, ResetType, ScheduleType
<1>4. CASE Restart
  BY <1>4, RestartType
<1>5. CASE UNCHANGED vars
  BY <1>5 DEF vars, Typed, TypeOK, PairKnown, At
<1>6. QED
  BY <1>1, <1>2, <1>3, <1>4, <1>5 DEF Next

LEMMA TypedAlways == Spec => []Typed
BY InitTyped, NextTyped, PTL DEF Spec

\* Every variable has its type in every reachable state, for any tasks, any
\* credentials, long ones included, and every fault.
THEOREM TypeCorrect == Spec => []TypeOK
<1>1. Typed => TypeOK
  BY DEF Typed
<1>2. QED
  BY <1>1, TypedAlways, PTL

-----------------------------------------------------------------------------
(***************************************************************************)
(* One reboot at a time.                                                   *)
(***************************************************************************)

\* What a step can change for the reboot: a task moves from one place to
\* another, neither of them in the middle of xTaskCreate.
Quiet(t) ==
    /\ ~Creating(t) /\ ~Creating(t)'
    /\ \A u \in Task \ {t} : task'[u] = task[u]
    /\ UNCHANGED <<scheduled, reboot_tasks>>

LEMMA QuietKeeps ==
  ASSUME OneReboot, NEW t \in Task, Quiet(t)
  PROVE  OneReboot'
<1>1. \A u \in Task : Creating(u)' <=> Creating(u)
  BY DEF Quiet, Creating
<1>2. QED
  BY <1>1 DEF OneReboot, Quiet

LEMMA SaveQuiet ==
  ASSUME Typed, NEW t \in Task,
         (\E c \in Pair : SaveSsid(t, c)) \/ Save(t)
  PROVE  Quiet(t)
<1>0. task[t] \in Place /\ task \in [Task -> Place]
  BY DEF Typed, TypeOK
<1>1. ASSUME NEW c \in Pair, SaveSsid(t, c)
      PROVE  Quiet(t)
  BY <1>0, <1>1 DEF SaveSsid, At, AtRest, Quiet, Creating, RebootState
<1>2. CASE SavePassword(t)
  BY <1>0, <1>2 DEF SavePassword, At, Quiet, Creating, RebootState, Place
<1>3. CASE SavePasswordFails(t)
  BY <1>0, <1>3 DEF SavePasswordFails, At, AtRest, Quiet, Creating, RebootState
<1>4. QED
  BY <1>1, <1>2, <1>3 DEF Save

LEMMA BeginQuiet ==
  ASSUME Typed, NEW t \in Task, RequestReboot(t) \/ BeginReset(t)
  PROVE  Quiet(t)
<1>0. task[t] \in Place
  BY DEF Typed, TypeOK
<1>1. CASE RequestReboot(t)
  BY <1>0, <1>1 DEF Typed, TypeOK, RequestReboot, At, Quiet, Creating, RebootState, Place
<1>2. CASE EraseSsid(t)
  BY <1>0, <1>2 DEF Typed, TypeOK, EraseSsid, At, AtRest, Quiet, Creating, RebootState
<1>3. CASE EraseSsidFails(t)
  BY <1>0, <1>3, WifiDoneType DEF Typed, TypeOK, EraseSsidFails, At, Quiet, Creating,
                                  RebootState, Status
<1>4. QED
  BY <1>1, <1>2, <1>3 DEF BeginReset

LEMMA ResetQuiet ==
  ASSUME Typed, NEW t \in Task, Reset(t)
  PROVE  Quiet(t)
<1>0. task[t] \in Place /\ task \in [Task -> Place]
  BY DEF Typed, TypeOK
<1>1. CASE ErasePassword(t) \/ ErasePasswordFails(t)
  BY <1>0, <1>1, WifiDoneType DEF ErasePassword, ErasePasswordFails, At, Quiet,
                                  Creating, RebootState, Status
<1>2. CASE ClearPart(t)
  BY <1>0, <1>2 DEF ClearPart, At, Quiet, Creating, RebootState, Place
<1>3. CASE StoreReport(t)
  <2>1. ~(AfterReset(t).pc \in {"create", "undo"})
    BY <1>0 DEF AfterReset, AtRest, Place
  <2>2. Following(t).pc = task[t].pc
    BY <1>0 DEF Following, Place
  <2>3. QED
    BY <1>0, <1>3, <2>1, <2>2 DEF StoreReport, At, Quiet, Creating, RebootState
<1>4. CASE ReadReport(t)
  BY <1>0, <1>4 DEF ReadReport, At, Quiet, Creating, RebootState, Place
<1>5. CASE Answer(t)
  BY <1>0, <1>5 DEF Answer, At, AtRest, Quiet, Creating, RebootState
<1>6. QED
  BY <1>1, <1>2, <1>3, <1>4, <1>5 DEF Reset

LEMMA ScheduleKeeps ==
  ASSUME Typed, OneReboot, NEW t \in Task, Schedule(t)
  PROVE  OneReboot'
<1>0. task[t] \in Place /\ task \in [Task -> Place] /\ reboot_tasks \in Nat
  BY DEF Typed, TypeOK
<1>1. CASE ScheduleTwice(t) \/ CountReboot(t)
  <2>1. Quiet(t)
    BY <1>0, <1>1 DEF ScheduleTwice, CountReboot, ToldOk, At, AtRest, Quiet, Creating, Place
  <2>2. QED
    BY <2>1, QuietKeeps
<1>2. CASE ScheduleFirst(t)
  <2>1. /\ task'[t].pc = "create"
        /\ \A u \in Task \ {t} : task'[u] = task[u]
    BY <1>0, <1>2 DEF ScheduleFirst, Goto, Place
  <2>2. ~scheduled /\ scheduled' /\ reboot_tasks' = reboot_tasks
    BY <1>2 DEF ScheduleFirst
  <2>3. reboot_tasks = 0 /\ \A u \in Task : ~Creating(u)
    BY <1>0, <2>2 DEF OneReboot
  <2>4. \A u \in Task : Creating(u)' <=> u = t
    BY <2>1, <2>3 DEF Creating
  <2>5. QED
    BY <2>2, <2>3, <2>4 DEF OneReboot
<1>3. CASE CreateTask(t)
  <2>1. /\ task'[t].pc = "count"
        /\ \A u \in Task \ {t} : task'[u] = task[u]
    BY <1>0, <1>3 DEF CreateTask, Goto, Place
  <2>2. Creating(t) /\ scheduled' = scheduled /\ reboot_tasks' = reboot_tasks + 1
    BY <1>3 DEF CreateTask, At, Creating
  <2>3. scheduled /\ reboot_tasks = 0 /\ \A u \in Task : Creating(u) => u = t
    BY <2>2 DEF OneReboot
  <2>4. \A u \in Task : ~Creating(u)'
    BY <2>1, <2>3 DEF Creating
  <2>5. QED
    BY <2>2, <2>3, <2>4 DEF OneReboot
<1>4. CASE CreateTaskFails(t)
  <2>1. \A u \in Task : Creating(u)' <=> Creating(u)
    BY <1>0, <1>4 DEF CreateTaskFails, Goto, At, Creating, Place
  <2>2. QED
    BY <1>4, <2>1 DEF CreateTaskFails, RebootState, OneReboot
<1>5. CASE UndoSchedule(t)
  <2>1. /\ task'[t].pc = "idle"
        /\ \A u \in Task \ {t} : task'[u] = task[u]
    BY <1>0, <1>5 DEF UndoSchedule, AtRest
  <2>2. Creating(t) /\ ~scheduled' /\ reboot_tasks' = reboot_tasks
    BY <1>5 DEF UndoSchedule, At, Creating
  <2>3. reboot_tasks = 0 /\ \A u \in Task : Creating(u) => u = t
    BY <2>2 DEF OneReboot
  <2>4. \A u \in Task : ~Creating(u)'
    BY <2>1, <2>3 DEF Creating
  <2>5. QED
    BY <2>2, <2>3, <2>4 DEF OneReboot
<1>6. QED
  BY <1>1, <1>2, <1>3, <1>4, <1>5 DEF Schedule

LEMMA InitOneReboot == Init => OneReboot
BY DEF Init, OneReboot, Creating, AtRest

LEMMA NextOneReboot == Typed /\ OneReboot /\ [Next]_vars => OneReboot'
<1> SUFFICES ASSUME Typed, OneReboot, [Next]_vars PROVE OneReboot'
  OBVIOUS
<1>1. ASSUME NEW t \in Web, NEW c \in Pair, SaveSsid(t, c)
      PROVE  OneReboot'
  BY <1>1, SaveQuiet, QuietKeeps DEF Task
<1>2. ASSUME NEW t \in Task, RequestReboot(t) \/ BeginReset(t)
      PROVE  OneReboot'
  BY <1>2, BeginQuiet, QuietKeeps
<1>3. ASSUME NEW t \in Task, Save(t)
      PROVE  OneReboot'
  BY <1>3, SaveQuiet, QuietKeeps
<1>4. ASSUME NEW t \in Task, Reset(t)
      PROVE  OneReboot'
  BY <1>4, ResetQuiet, QuietKeeps
<1>5. ASSUME NEW t \in Task, Schedule(t)
      PROVE  OneReboot'
  BY <1>5, ScheduleKeeps
<1>6. CASE Restart
  BY <1>6 DEF Restart, OneReboot, Creating, AtRest
<1>7. CASE UNCHANGED vars
  BY <1>7 DEF vars, OneReboot, Creating
<1>8. QED
  BY <1>1, <1>2, <1>3, <1>4, <1>5, <1>6, <1>7 DEF Next

\* For any number of tasks, the flag stands for exactly one reboot that is on
\* its way, also when xTaskCreate fails.
THEOREM OneRebootAtATime == Spec => []OneReboot
<1>1. Init => Typed /\ OneReboot
  BY InitTyped, InitOneReboot
<1>2. Typed /\ OneReboot /\ [Next]_vars => (Typed /\ OneReboot)'
  BY NextTyped, NextOneReboot
<1>3. QED
  BY <1>1, <1>2, PTL DEF Spec

-----------------------------------------------------------------------------
(***************************************************************************)
(* A promised reboot is on its way, when the reboot task can be created.   *)
(***************************************************************************)

\* With xTaskCreate working no caller undoes the flag, and the flag is set from
\* the promise on.
Promise ==
    /\ promised => scheduled
    /\ \A t \in Task : At(t, "count") => scheduled
    /\ \A t \in Task : ~At(t, "undo")

LEMMA QuietPromise ==
  ASSUME Promise, NEW t \in Task, Quiet(t), promised' = promised,
         task'[t].pc \notin {"count", "undo"}
  PROVE  Promise'
BY DEF Promise, Quiet, At

LEMMA SchedulePromise ==
  ASSUME Typed, OneReboot, Promise, "task" \notin Fault, NEW t \in Task,
         Schedule(t)
  PROVE  Promise'
<1>0. task[t] \in Place /\ task \in [Task -> Place]
  BY DEF Typed, TypeOK
<1>1. CASE ScheduleTwice(t) \/ CountReboot(t)
  <2>1. /\ task'[t].pc \notin {"count", "undo"}
        /\ \A u \in Task \ {t} : task'[u] = task[u]
    BY <1>0, <1>1 DEF ScheduleTwice, CountReboot, ToldOk, AtRest, Place
  <2>2. scheduled /\ scheduled'
    BY <1>1 DEF ScheduleTwice, CountReboot, Promise
  <2>3. QED
    BY <2>1, <2>2 DEF Promise, At
<1>2. CASE ScheduleFirst(t)
  <2>1. /\ task'[t].pc = "create"
        /\ \A u \in Task \ {t} : task'[u] = task[u]
    BY <1>0, <1>2 DEF ScheduleFirst, Goto, Place
  <2>2. QED
    BY <1>2, <2>1 DEF ScheduleFirst, Promise, At
<1>3. CASE CreateTask(t)
  <2>1. /\ task'[t].pc = "count"
        /\ \A u \in Task \ {t} : task'[u] = task[u]
    BY <1>0, <1>3 DEF CreateTask, Goto, Place
  <2>2. scheduled /\ scheduled' = scheduled /\ promised' = promised
    BY <1>3 DEF CreateTask, OneReboot, Creating, At
  <2>3. QED
    BY <2>1, <2>2 DEF Promise, At
<1>4. QED
  BY <1>1, <1>2, <1>3 DEF Schedule, CreateTaskFails, UndoSchedule, Promise

\* The steps outside system_service_schedule_reboot leave the promise alone.
LEMMA OtherPromise ==
  ASSUME Typed, Promise, NEW t \in Task,
         \/ \E c \in Pair : SaveSsid(t, c)
         \/ RequestReboot(t) \/ BeginReset(t) \/ Save(t) \/ Reset(t)
  PROVE  Promise'
<1>0. task[t] \in Place /\ task \in [Task -> Place]
  BY DEF Typed, TypeOK
<1>1. Quiet(t)
  BY SaveQuiet, BeginQuiet, ResetQuiet
<1>2. promised' = promised
  BY DEF SaveSsid, RequestReboot, BeginReset, EraseSsid, EraseSsidFails, Save,
         SavePassword, SavePasswordFails, Reset, ErasePassword, ErasePasswordFails,
         ClearPart, StoreReport, ReadReport, Answer, RebootState
<1>3. task'[t].pc \notin {"count", "undo"}
  <2>1. ASSUME NEW c \in Pair, SaveSsid(t, c) PROVE task'[t].pc = "save_pass"
    BY <1>0, <2>1 DEF SaveSsid, AtRest
  <2>2. CASE RequestReboot(t)
    BY <1>0, <2>2 DEF RequestReboot, Place
  <2>3. CASE BeginReset(t)
    BY <1>0, <2>3, WifiDoneType DEF BeginReset, EraseSsid, EraseSsidFails, AtRest, Status
  <2>4. CASE Save(t)
    BY <1>0, <2>4 DEF Save, SavePassword, SavePasswordFails, AtRest, Place
  <2>5. CASE ErasePassword(t) \/ ErasePasswordFails(t)
    BY <1>0, <2>5, WifiDoneType DEF ErasePassword, ErasePasswordFails, Status
  <2>6. CASE ClearPart(t)
    BY <1>0, <2>6 DEF ClearPart, At, Place
  <2>7. CASE StoreReport(t)
    <3>1. AfterReset(t).pc \notin {"count", "undo"}
      BY <1>0 DEF AfterReset, AtRest, Place
    <3>2. Following(t).pc = "store"
      BY <1>0, <2>7 DEF Following, StoreReport, At, Place
    <3>3. QED
      BY <1>0, <2>7, <3>1, <3>2 DEF StoreReport
  <2>8. CASE ReadReport(t)
    BY <1>0, <2>8 DEF ReadReport, At, Place
  <2>9. CASE Answer(t)
    BY <1>0, <2>9 DEF Answer, AtRest
  <2>10. QED
    BY <2>1, <2>2, <2>3, <2>4, <2>5, <2>6, <2>7, <2>8, <2>9 DEF Reset
<1>4. QED
  BY <1>1, <1>2, <1>3, QuietPromise

LEMMA InitPromise == Init => Promise
BY DEF Init, Promise, At, AtRest

LEMMA NextPromise ==
  ASSUME "task" \notin Fault
  PROVE  Typed /\ OneReboot /\ Promise /\ [Next]_vars => Promise'
<1> SUFFICES ASSUME Typed, OneReboot, Promise, [Next]_vars PROVE Promise'
  OBVIOUS
<1>1. ASSUME NEW t \in Web, NEW c \in Pair, SaveSsid(t, c)
      PROVE  Promise'
  BY <1>1, OtherPromise DEF Task
<1>2. ASSUME NEW t \in Task, RequestReboot(t) \/ BeginReset(t) \/ Save(t) \/ Reset(t)
      PROVE  Promise'
  BY <1>2, OtherPromise
<1>3. ASSUME NEW t \in Task, Schedule(t)
      PROVE  Promise'
  BY <1>3, SchedulePromise
<1>4. CASE Restart
  BY <1>4 DEF Restart, Promise, At, AtRest
<1>5. CASE UNCHANGED vars
  BY <1>5 DEF vars, Promise, At
<1>6. QED
  BY <1>1, <1>2, <1>3, <1>4, <1>5 DEF Next

\* While xTaskCreate works, a caller that was told ESP_OK has a reboot coming,
\* whoever of any number of tasks asked for it first.
THEOREM PromisedRebootComing ==
  ASSUME "task" \notin Fault
  PROVE  Spec => []PromiseKept
<1>1. Init => Typed /\ OneReboot /\ Promise
  BY InitTyped, InitOneReboot, InitPromise
<1>2. Typed /\ OneReboot /\ Promise /\ [Next]_vars
         => (Typed /\ OneReboot /\ Promise)'
  BY NextTyped, NextOneReboot, NextPromise
<1>3. Typed /\ OneReboot /\ Promise => PromiseKept
  BY DEF Typed, TypeOK, OneReboot, Promise, PromiseKept
<1>4. QED
  BY <1>1, <1>2, <1>3, PTL DEF Spec

-----------------------------------------------------------------------------
(***************************************************************************)
(* The credentials that a restart brings back.                             *)
(***************************************************************************)

\* The mutex is held exactly between the two keys, the name on flash is then
\* that of the pair being saved, and otherwise flash loads as what was kept, or
\* as the default where a string that was kept is too long to be loaded.
Holding(t) == At(t, "save_pass") \/ At(t, "erase_pass")
Stored ==
    /\ \A t \in Task : cfg = t <=> Holding(t)
    /\ \A t \in Task : At(t, "save_pass") => nvs.ssid = task[t].pair.ssid
    /\ cfg = Free /\ ~torn => Loaded(nvs) = Outlives(kept)

LEMMA InitStored == Init => Stored
BY SystemAssumption DEF Init, Stored, Holding, At, AtRest, Loaded, Outlives, TooLong

\* A step that does not take or release the mutex.
Aside(t) ==
    /\ ~Holding(t) /\ ~Holding(t)'
    /\ \A u \in Task \ {t} : task'[u] = task[u]
    /\ UNCHANGED <<nvs, cfg, kept, torn>>

LEMMA AsideKeeps ==
  ASSUME Stored, NEW t \in Task, Aside(t)
  PROVE  Stored'
<1>1. \A u \in Task : Holding(u)' <=> Holding(u)
  BY DEF Aside, Holding, At
<1>2. \A u \in Task : At(u, "save_pass")' => At(u, "save_pass") /\ task'[u] = task[u]
  BY DEF Aside, Holding, At
<1>3. QED
  BY <1>1, <1>2 DEF Stored, Aside

\* A step that releases the mutex with flash as it was meant, or torn.
LEMMA ReleaseKeeps ==
  ASSUME Typed, Stored, NEW t \in Task, Holding(t), ~Holding(t)', cfg' = Free,
         \A u \in Task \ {t} : task'[u] = task[u],
         torn' \/ Loaded(nvs') = Outlives(kept')
  PROVE  Stored'
<1>1. cfg = t
  BY DEF Stored
<1>2. \A u \in Task \ {t} : ~Holding(u) /\ ~Holding(u)'
  BY <1>1 DEF Stored, Holding, At
<1>3. \A u \in Task : ~Holding(u)'
  BY <1>2
<1>4. QED
  BY <1>3, SystemAssumption DEF Stored, Holding

\* A step that takes the mutex and changes the name on flash.
LEMMA TakeKeeps ==
  ASSUME Typed, Stored, NEW t \in Task, cfg = Free, cfg' = t, Holding(t)',
         \A u \in Task \ {t} : task'[u] = task[u],
         At(t, "save_pass")' => nvs'.ssid = task'[t].pair.ssid
  PROVE  Stored'
<1>1. \A u \in Task : ~Holding(u)
  BY SystemAssumption DEF Stored
<1>2. \A u \in Task \ {t} : ~Holding(u)'
  BY <1>1 DEF Holding, At
<1>3. QED
  BY <1>2, SystemAssumption DEF Stored, Holding

LEMMA SaveStored ==
  ASSUME Typed, Stored, NEW t \in Task,
         (\E c \in Pair : SaveSsid(t, c)) \/ Save(t)
  PROVE  Stored'
<1>0. task[t] \in Place /\ task \in [Task -> Place] /\ nvs \in Store
  BY DEF Typed, TypeOK
<1>1. ASSUME NEW c \in Pair, SaveSsid(t, c)
      PROVE  Stored'
  <2>1. task'[t].pc = "save_pass" /\ task'[t].pair = c
    BY <1>0, <1>1 DEF SaveSsid, AtRest
  <2>2. nvs'.ssid = c.ssid
    BY <1>0, <1>1 DEF SaveSsid, Store
  <2>3. QED
    BY <1>0, <1>1, <2>1, <2>2, TakeKeeps DEF SaveSsid, Holding, At
<1>2. CASE SavePassword(t)
  <2>1. Holding(t) /\ nvs.ssid = task[t].pair.ssid /\ task[t].pair \in Pair
    BY <1>2 DEF SavePassword, Holding, Stored, Typed, PairKnown, At
  <2>2. nvs' = task[t].pair
    BY <1>0, <1>2, <2>1 DEF SavePassword, Store, Pair
  <2>3. Loaded(nvs') = Outlives(kept')
    BY <1>2, <2>1, <2>2 DEF SavePassword, Loaded, Outlives, TooLong, Pair
  <2>4. task'[t].pc = "schedule"
    BY <1>0, <1>2 DEF SavePassword, Place
  <2>5. ~Holding(t)'
    BY <2>4 DEF Holding, At
  <2>6. cfg' = Free /\ \A u \in Task \ {t} : task'[u] = task[u]
    BY <1>0, <1>2 DEF SavePassword
  <2>7. QED
    BY <2>1, <2>3, <2>5, <2>6, ReleaseKeeps
<1>3. CASE SavePasswordFails(t)
  <2>1. Holding(t) /\ torn' /\ cfg' = Free
    BY <1>3 DEF SavePasswordFails, Holding
  <2>2. ~Holding(t)' /\ \A u \in Task \ {t} : task'[u] = task[u]
    BY <1>0, <1>3 DEF SavePasswordFails, Holding, At, AtRest
  <2>3. QED
    BY <2>1, <2>2, ReleaseKeeps
<1>4. QED
  BY <1>1, <1>2, <1>3 DEF Save

LEMMA BeginStored ==
  ASSUME Typed, Stored, NEW t \in Task, RequestReboot(t) \/ BeginReset(t)
  PROVE  Stored'
<1>0. task[t] \in Place /\ task \in [Task -> Place] /\ nvs \in Store
  BY DEF Typed, TypeOK
<1>1. CASE RequestReboot(t)
  <2>1. Aside(t)
    BY <1>0, <1>1 DEF RequestReboot, Aside, Holding, At, Place
  <2>2. QED
    BY <2>1, AsideKeeps
<1>2. CASE EraseSsid(t)
  <2>1. task'[t].pc = "erase_pass"
    BY <1>0, <1>2 DEF EraseSsid, AtRest
  <2>2. cfg = Free /\ cfg' = t /\ \A u \in Task \ {t} : task'[u] = task[u]
    BY <1>0, <1>2 DEF EraseSsid
  <2>3. QED
    BY <2>1, <2>2, TakeKeeps DEF Holding, At
<1>3. CASE EraseSsidFails(t)
  <2>1. Aside(t)
    BY <1>0, <1>3, WifiDoneType DEF EraseSsidFails, Aside, Holding, At, Status
  <2>2. QED
    BY <2>1, AsideKeeps
<1>4. QED
  BY <1>1, <1>2, <1>3 DEF BeginReset

LEMMA ResetStored ==
  ASSUME Typed, Stored, NEW t \in Task, Reset(t)
  PROVE  Stored'
<1>0. task[t] \in Place /\ task \in [Task -> Place] /\ nvs \in Store
  BY DEF Typed, TypeOK
<1>1. CASE ErasePassword(t) \/ ErasePasswordFails(t)
  <2>1. Holding(t) /\ cfg' = Free
    BY <1>1 DEF ErasePassword, ErasePasswordFails, Holding
  <2>2. ~Holding(t)' /\ \A u \in Task \ {t} : task'[u] = task[u]
    BY <1>0, <1>1, WifiDoneType
       DEF ErasePassword, ErasePasswordFails, Holding, At, Status
  <2>3. torn' \/ Loaded(nvs') = Outlives(kept')
    BY <1>0, <1>1, SystemAssumption
       DEF ErasePassword, ErasePasswordFails, Loaded, Outlives, TooLong, Store
  <2>4. QED
    BY <2>1, <2>2, <2>3, ReleaseKeeps
<1>2. CASE ClearPart(t)
  <2>1. Aside(t)
    BY <1>0, <1>2 DEF ClearPart, Aside, Holding, At, Place
  <2>2. QED
    BY <2>1, AsideKeeps
<1>3. CASE StoreReport(t)
  <2>1. AfterReset(t).pc \notin {"save_pass", "erase_pass"}
    BY <1>0 DEF AfterReset, AtRest, Place
  <2>2. Following(t).pc = task[t].pc
    BY <1>0 DEF Following, Place
  <2>3. Aside(t)
    BY <1>0, <1>3, <2>1, <2>2 DEF StoreReport, Aside, Holding, At
  <2>4. QED
    BY <2>3, AsideKeeps
<1>4. CASE ReadReport(t)
  <2>1. Aside(t)
    BY <1>0, <1>4 DEF ReadReport, Aside, Holding, At, Place
  <2>2. QED
    BY <2>1, AsideKeeps
<1>5. CASE Answer(t)
  <2>1. Aside(t)
    BY <1>0, <1>5 DEF Answer, Aside, Holding, At, AtRest
  <2>2. QED
    BY <2>1, AsideKeeps
<1>6. QED
  BY <1>1, <1>2, <1>3, <1>4, <1>5 DEF Reset

LEMMA ScheduleStored ==
  ASSUME Typed, Stored, NEW t \in Task, Schedule(t)
  PROVE  Stored'
<1>0. task[t] \in Place /\ task \in [Task -> Place]
  BY DEF Typed, TypeOK
<1>1. CASE ScheduleTwice(t) \/ CountReboot(t)
  BY <1>0, <1>1, AsideKeeps DEF ScheduleTwice, CountReboot, ToldOk, Aside, Holding,
                                At, AtRest, Place
<1>2. CASE ScheduleFirst(t) \/ CreateTask(t)
  BY <1>0, <1>2, AsideKeeps DEF ScheduleFirst, CreateTask, Goto, Aside, Holding, At, Place
<1>3. CASE CreateTaskFails(t)
  BY <1>0, <1>3, AsideKeeps DEF CreateTaskFails, Goto, Aside, Holding, At, Place
<1>4. CASE UndoSchedule(t)
  BY <1>0, <1>4, AsideKeeps DEF UndoSchedule, Aside, Holding, At, AtRest
<1>5. QED
  BY <1>1, <1>2, <1>3, <1>4 DEF Schedule

LEMMA NextStored == Typed /\ Stored /\ [Next]_vars => Stored'
<1> SUFFICES ASSUME Typed, Stored, [Next]_vars PROVE Stored'
  OBVIOUS
<1>1. ASSUME NEW t \in Web, NEW c \in Pair, SaveSsid(t, c)
      PROVE  Stored'
  BY <1>1, SaveStored DEF Task
<1>2. ASSUME NEW t \in Task, RequestReboot(t) \/ BeginReset(t)
      PROVE  Stored'
  BY <1>2, BeginStored
<1>3. ASSUME NEW t \in Task, Save(t) \/ Reset(t) \/ Schedule(t)
      PROVE  Stored'
  BY <1>3, SaveStored, ResetStored, ScheduleStored
<1>4. CASE Restart
  BY <1>4, SystemAssumption DEF Restart, Stored, Holding, At, AtRest, Typed, TypeOK
<1>5. CASE UNCHANGED vars
  BY <1>5 DEF vars, Stored, Holding, At
<1>6. QED
  BY <1>1, <1>2, <1>3, <1>4, <1>5 DEF Next

\* A restart that finds no save and no erase half-done starts the station with
\* the credentials kept last, or with the default where the name or the password
\* kept is of the longest accepted length (wifi_sta.c:89), however the saves, the
\* erases and the restarts of any number of tasks interleave.
THEOREM RestartUsesSaved == Spec => SavedCredentialsUsed
<1>1. Init => Typed /\ Stored
  BY InitTyped, InitStored
<1>2. Typed /\ Stored /\ [Next]_vars => (Typed /\ Stored)'
  BY NextTyped, NextStored
<1>3. Stored => [Restart /\ cfg = Free /\ ~torn => using' = Outlives(kept)]_vars
  BY DEF Stored, Restart
<1>4. QED
  BY <1>1, <1>2, <1>3, PTL DEF Spec, SavedCredentialsUsed

-----------------------------------------------------------------------------
(***************************************************************************)
(* A reset through the HTTP server is answered with its reboot under way.  *)
(***************************************************************************)

\* A task that reads the report has been told that the reboot is scheduled.
Answering(t) == At(t, "read") \/ At(t, "answer")
ReadScheduled == \A t \in Web : Answering(t) => scheduled

\* Only a restart or a failed xTaskCreate takes the flag back.
LEMMA FlagStays ==
  ASSUME Typed, Promise, NEW t \in Task, scheduled,
         \/ \E c \in Pair : SaveSsid(t, c)
         \/ RequestReboot(t) \/ BeginReset(t) \/ Save(t) \/ Reset(t) \/ Schedule(t)
  PROVE  scheduled'
<1>1. ~UndoSchedule(t)
  BY DEF UndoSchedule, Promise
<1>2. CASE Schedule(t)
  BY <1>1, <1>2 DEF Schedule, ScheduleTwice, ScheduleFirst, CreateTask,
                    CreateTaskFails, CountReboot, RebootState
<1>3. CASE ~Schedule(t)
  BY <1>3, SaveQuiet, BeginQuiet, ResetQuiet DEF Quiet
<1>4. QED
  BY <1>2, <1>3

\* A task comes to its report from system_service_schedule_reboot, or is there.
LEMMA ReadEntered ==
  ASSUME Typed, NEW t \in Web, Answering(t)',
         \/ \E c \in Pair : SaveSsid(t, c)
         \/ RequestReboot(t) \/ BeginReset(t) \/ Save(t) \/ Reset(t) \/ Schedule(t)
  PROVE  Answering(t) \/ ScheduleTwice(t) \/ CountReboot(t)
<1>0. t \in Task /\ task[t] \in Place /\ task \in [Task -> Place]
  BY DEF Typed, TypeOK, Task
<1>1. ASSUME NEW c \in Pair, SaveSsid(t, c) PROVE FALSE
  BY <1>0, <1>1 DEF SaveSsid, AtRest, Answering, At
<1>2. ~RequestReboot(t)
  BY <1>0 DEF RequestReboot, Place, Answering, At
<1>3. ~BeginReset(t)
  BY <1>0, WifiDoneType
     DEF BeginReset, EraseSsid, EraseSsidFails, AtRest, Status, Answering, At
<1>4. ~Save(t)
  BY <1>0 DEF Save, SavePassword, SavePasswordFails, AtRest, Place, Answering, At
<1>5. CASE Reset(t)
  <2>1. ~(ErasePassword(t) \/ ErasePasswordFails(t))
    BY <1>0, WifiDoneType
       DEF ErasePassword, ErasePasswordFails, Status, Answering, At
  <2>2. ~ClearPart(t)
    <3>1. ClearPart(t) => task'[t].pc \in {"clear", "store"}
      BY <1>0 DEF ClearPart, At, Place
    <3>2. QED
      BY <3>1 DEF Answering, At
  <2>3. ~StoreReport(t)
    <3>1. AfterReset(t).pc \notin {"read", "answer"}
      BY <1>0 DEF AfterReset, AtRest, Place
    <3>2. StoreReport(t) => Following(t).pc = "store"
      BY <1>0 DEF Following, StoreReport, At, Place
    <3>3. QED
      BY <1>0, <3>1, <3>2 DEF StoreReport, Answering, At
  <2>4. QED
    BY <1>5, <2>1, <2>2, <2>3 DEF Reset, ReadReport, Answer, Answering
<1>6. CASE Schedule(t)
  <2>1. ~(ScheduleFirst(t) \/ CreateTask(t))
    BY <1>0 DEF ScheduleFirst, CreateTask, Goto, Answering, At, Place
  <2>2. ~CreateTaskFails(t)
    BY <1>0 DEF CreateTaskFails, Goto, Answering, At, Place
  <2>3. ~UndoSchedule(t)
    BY <1>0 DEF UndoSchedule, AtRest, Answering, At
  <2>4. QED
    BY <1>6, <2>1, <2>2, <2>3 DEF Schedule
<1>7. QED
  BY <1>1, <1>2, <1>3, <1>4, <1>5, <1>6

LEMMA StepReadScheduled ==
  ASSUME Typed, Promise, ReadScheduled, NEW t \in Task,
         \/ \E c \in Pair : SaveSsid(t, c)
         \/ RequestReboot(t) \/ BeginReset(t) \/ Save(t) \/ Reset(t) \/ Schedule(t)
  PROVE  ReadScheduled'
<1>1. \A u \in Task \ {t} : task'[u] = task[u]
  <2>1. task \in [Task -> Place]
    BY DEF Typed, TypeOK
  <2>2. CASE Schedule(t)
    BY <2>1, <2>2 DEF Schedule, ScheduleTwice, ScheduleFirst, CreateTask,
                      CreateTaskFails, UndoSchedule, CountReboot, ToldOk, Goto
  <2>3. CASE ~Schedule(t)
    BY <2>3, SaveQuiet, BeginQuiet, ResetQuiet DEF Quiet
  <2>4. QED
    BY <2>2, <2>3
<1>2. ASSUME NEW u \in Web, Answering(u)' PROVE scheduled'
  <2>1. CASE u # t
    BY <1>1, <1>2, <2>1, FlagStays DEF ReadScheduled, Answering, At, Task
  <2>2. CASE u = t
    <3>1. scheduled
      BY <1>2, <2>2, ReadEntered DEF ReadScheduled, ScheduleTwice, CountReboot, Promise
    <3>2. QED
      BY <3>1, FlagStays
  <2>3. QED
    BY <2>1, <2>2
<1>3. QED
  BY <1>2 DEF ReadScheduled

\* While xTaskCreate works, a factory reset through the HTTP server is answered
\* as done only with a reboot on its way, whatever the job worker does.
THEOREM WebResetReboots ==
  ASSUME "task" \notin Fault
  PROVE  Spec => []ResetSchedulesReboot
<1>1. Init => Typed /\ OneReboot /\ Promise /\ ReadScheduled
  <2>1. Init => ReadScheduled
    BY DEF Init, ReadScheduled, Answering, At, AtRest, Task
  <2>2. QED
    BY <2>1, InitTyped, InitOneReboot, InitPromise
<1>2. Typed /\ Promise /\ ReadScheduled /\ [Next]_vars => ReadScheduled'
  <2> SUFFICES ASSUME Typed, Promise, ReadScheduled, [Next]_vars
               PROVE  ReadScheduled'
    OBVIOUS
  <2>1. ASSUME NEW t \in Web, NEW c \in Pair, SaveSsid(t, c)
        PROVE  ReadScheduled'
    BY <2>1, StepReadScheduled DEF Task
  <2>2. ASSUME NEW t \in Task,
               \/ RequestReboot(t) \/ BeginReset(t)
               \/ Save(t) \/ Reset(t) \/ Schedule(t)
        PROVE  ReadScheduled'
    BY <2>2, StepReadScheduled
  <2>3. CASE Restart
    BY <2>3 DEF Restart, ReadScheduled, Answering, At, AtRest, Task
  <2>4. CASE UNCHANGED vars
    BY <2>4 DEF vars, ReadScheduled, Answering, At
  <2>5. QED
    BY <2>1, <2>2, <2>3, <2>4 DEF Next
<1>3. Typed /\ OneReboot /\ Promise /\ ReadScheduled /\ [Next]_vars
         => (Typed /\ OneReboot /\ Promise /\ ReadScheduled)'
  BY <1>2, NextTyped, NextOneReboot, NextPromise
<1>4. ReadScheduled => ResetSchedulesReboot
  BY DEF ReadScheduled, ResetSchedulesReboot, Answering
<1>5. QED
  BY <1>1, <1>3, <1>4, PTL DEF Spec
=============================================================================
