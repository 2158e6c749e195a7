---------------------------- MODULE MCWsManager ----------------------------
(***************************************************************************)
(* The instance of WsManager that TLC checks: two sockets for one slot.    *)
(***************************************************************************)
EXTENDS WsManager

\* NewestReaches for one client: the specification treats all sockets alike.
NewestReachesClient == \A s \in Told : NewestReaches(CHOOSE f \in Fd : TRUE, s)
=============================================================================
