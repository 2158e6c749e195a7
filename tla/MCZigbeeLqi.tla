---------------------------- MODULE MCZigbeeLqi ----------------------------
(***************************************************************************)
(* The instances of ZigbeeLqi that TLC checks: three devices for a cache   *)
(* of two for its invariants, two devices for its liveness.                *)
(***************************************************************************)
EXTENDS ZigbeeLqi, TLC

\* Network addresses are only compared for equality.
Addresses == Permutations(Addr)
=============================================================================
