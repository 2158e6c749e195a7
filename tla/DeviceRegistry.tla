--------------------------- MODULE DeviceRegistry ---------------------------
(***************************************************************************)
(* What the device service promises while flash writes succeed and no      *)
(* restart cuts one short: a table of devices by network address, changed  *)
(* by one atomic operation at a time, and a saved copy of it that a        *)
(* restart brings back.  DeviceService is shown to implement it.           *)
(***************************************************************************)
EXTENDS Naturals, FiniteSets

CONSTANTS Addr, Ieee, Name, DefaultName, MaxDevices

VARIABLES
    devices,  \* the table
    saved,    \* its copy on flash
    leaving   \* removed devices that are still to be asked to leave the network

vars == <<devices, saved, leaving>>

Device == [ieee : Ieee, name : Name]
Table  == UNION {[A -> Device] : A \in SUBSET Addr}
None   == [a \in {} |-> a]

Init == devices = None /\ saved = None /\ leaving = {}

\* Every change of the table is saved with it.
Save(table) == devices' = table /\ saved' = table

\* A device announced itself under an address that is new, or not.
Join(a, i) ==
    \/ /\ a \in DOMAIN devices
       /\ devices[a].ieee # i
       /\ Save([devices EXCEPT ![a].ieee = i])
    \/ /\ a \notin DOMAIN devices
       /\ Cardinality(DOMAIN devices) < MaxDevices
       /\ Save([b \in DOMAIN devices \cup {a} |->
                   IF b = a THEN [ieee |-> i, name |-> DefaultName]
                            ELSE devices[b]])

Rename(a, n) ==
    /\ a \in DOMAIN devices
    /\ devices[a].name # n
    /\ Save([devices EXCEPT ![a].name = n])

Remove(a) ==
    /\ a \in DOMAIN devices
    /\ Save([b \in DOMAIN devices \ {a} |-> devices[b]])
    /\ leaving' = leaving \cup {<<a, devices[a].ieee>>}

\* The device that was removed, and no other, is asked to leave.
AskToLeave(a, i) ==
    /\ <<a, i>> \in leaving
    /\ leaving' = leaving \ {<<a, i>>}
    /\ UNCHANGED <<devices, saved>>

\* A factory reset erases the saved copy and leaves the table in use.
Erase == saved' = None /\ UNCHANGED <<devices, leaving>>

Restart == devices' = saved /\ leaving' = {} /\ UNCHANGED saved

Next ==
    \/ \E a \in Addr, i \in Ieee : Join(a, i) /\ UNCHANGED leaving
    \/ \E a \in Addr, n \in Name : Rename(a, n) /\ UNCHANGED leaving
    \/ \E a \in Addr, i \in Ieee : AskToLeave(a, i)
    \/ \E a \in Addr : Remove(a)
    \/ Erase
    \/ Restart

Spec == Init /\ [][Next]_vars
=============================================================================
