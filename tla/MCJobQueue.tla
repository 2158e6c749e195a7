----------------------------- MODULE MCJobQueue -----------------------------
(* Small instance of JobQueue: the LQI refresh, which posts an event, and   *)
(* reboots, which differ by their delay.                                    *)
EXTENDS JobQueue

Lqi       == [type |-> "LQI_REFRESH", delay |-> 0]
Reboot(d) == [type |-> "REBOOT", delay |-> d]

MCFewRequests == {Lqi, Reboot(1), Reboot(2)}
=============================================================================
