-------------------------- MODULE MCSystemService --------------------------
(* Small instances of SystemService: two network names and two passwords    *)
(* that come back after a restart, and one of each of the longest length.   *)
(* Nothing tells the two names apart, nor the two passwords.                *)
EXTENDS SystemService, TLC

CONSTANTS home, office, longest, p1, p2, longest_p

Alike == Permutations({home, office}) \cup Permutations({p1, p2})
=============================================================================
