------------------------------ MODULE MCBgJobs ------------------------------
(***************************************************************************)
(* Model values for BgJobs: two clients are enough for a stale reconcile   *)
(* and a stop to overlap with the submitter and the worker.                *)
(***************************************************************************)
EXTENDS BgJobs

CONSTANTS c1, c2, sub, wrk
=============================================================================
