------------------------------ MODULE MCWebApi ------------------------------
(* A small instance of WebApi: the values around the limits of each field,  *)
(* and in tenths the fractions that are cut to a limit (an address of 0.9,  *)
(* 65535.9 and the whole 65537, an endpoint of 240.5, a command of -0.5 or  *)
(* 1.9); no device, the default number of them with plain names and with    *)
(* names of control characters only, which JSON writes six times as long,   *)
(* and the most devices a build may allow.                                  *)
EXTENDS WebApi

MCLists == {[rows |-> 0, name |-> 0], [rows |-> MaxDevices, name |-> 31]}
             \cup [rows : {DefaultDevices}, name : {31, 186}]
MCSample == [addr |-> {9, 655359, 655370}, ep |-> {2405, 2410}, cmd |-> {-10, -5, 19},
             name |-> {0, 31, 32}, ssid |-> {32, 33}, password |-> {7, 64},
             delay |-> {10000, 600009, 600010}, type |-> {"reboot", "format"}]
=============================================================================
