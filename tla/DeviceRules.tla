---------------------------- MODULE DeviceRules ----------------------------
(***************************************************************************)
(* The pure rules of gateway_core on the list of paired devices            *)
(* (device_service_rules.c): a fixed array of MaxDevices records of which  *)
(* the first count are in the list.  Records behind count keep whatever    *)
(* they held, and the whole array is what is written to flash.             *)
(***************************************************************************)
EXTENDS Naturals

CONSTANTS
    Addr,         \* 16-bit network addresses of devices
    Ieee,         \* 64-bit addresses of devices
    Name,         \* names that fit the record
    DefaultName,  \* the name made from the prefix and the address
    Blank,        \* what a zeroed field holds
    MaxDevices    \* MAX_DEVICES

ASSUME DeviceAssumption ==
    /\ DefaultName \in Name
    /\ Blank \notin Addr \cup Ieee \cup Name
    /\ MaxDevices \in Nat \ {0}

Index  == 1 .. MaxDevices
Zero   == [addr |-> Blank, ieee |-> Blank, name |-> Blank]
Record == [addr : Addr, ieee : Ieee, name : Name] \cup {Zero}
List   == [arr : [Index -> Record], count : 0 .. MaxDevices]
Empty  == [arr |-> [k \in Index |-> Zero], count |-> 0]

\* The list holds a record with address a.
Knows(l, a) == \E k \in 1 .. l.count : l.arr[k].addr = a

\* The index device_service_rules_find_index_by_short_addr returns.
Find(l, a) == CHOOSE k \in 1 .. l.count :
                 /\ l.arr[k].addr = a
                 /\ \A j \in 1 .. k - 1 : l.arr[j].addr # a

\* DEVICE_SERVICE_RULES_RESULT_ADDED, _UPDATED, _NO_CHANGE and _LIMIT_REACHED:
\* the last two return the list as it was.
Upsert(l, a, i) ==
    IF Knows(l, a)
    THEN [l EXCEPT !.arr[Find(l, a)].ieee = i]
    ELSE IF l.count < MaxDevices
    THEN [arr   |-> [l.arr EXCEPT ![l.count + 1] =
                        [addr |-> a, ieee |-> i, name |-> DefaultName]],
          count |-> l.count + 1]
    ELSE l

Rename(l, a, n) == [l EXCEPT !.arr[Find(l, a)].name = n]

\* Mutants: the last record is taken off whatever the address; the records move
\* up and the count stays.
DeleteLast(l, a) == [l EXCEPT !.count = @ - 1]

DeleteKeepsCount(l, a) ==
    [l EXCEPT !.arr = [k \in Index |-> IF Find(l, a) <= k /\ k < l.count
                                       THEN l.arr[k + 1] ELSE l.arr[k]]]

\* The records after the deleted one move up; the array keeps its last record.
Delete(l, a) ==
    [arr   |-> [k \in Index |-> IF Find(l, a) <= k /\ k < l.count
                                THEN l.arr[k + 1] ELSE l.arr[k]],
     count |-> l.count - 1]

\* No address is in the list twice.
Distinct(l) ==
    \A j, k \in 1 .. l.count : l.arr[j].addr = l.arr[k].addr => j = k

\* The list as a function from the address to the rest of the record.
AsMap(l) ==
    [a \in {l.arr[k].addr : k \in 1 .. l.count} |->
        [ieee |-> l.arr[Find(l, a)].ieee, name |-> l.arr[Find(l, a)].name]]
=============================================================================
