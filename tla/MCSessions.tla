---------------------------- MODULE MCSessions ----------------------------
(* Two processes, a session of an earlier day and a new one: either may be   *)
(* resumed, forked or compacted while the other process saves.               *)
EXTENDS Sessions, TLC
Same == Permutations(Procs)
=============================================================================
