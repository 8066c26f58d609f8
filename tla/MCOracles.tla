----------------------------- MODULE MCOracles -----------------------------
(* Well-behaved programs, and each bad habit with those it needs to matter. *)
EXTENDS Oracles

SomeHabits == {{}, {"daemon"}, {"daemon", "quiet"}, {"apart"}, {"race"}, {"drip"}, {"docker"}}
=============================================================================
