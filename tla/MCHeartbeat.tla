---------------------------- MODULE MCHeartbeat ----------------------------
(* One block and one wrapped command share current.json. *)
EXTENDS Heartbeat
=============================================================================
