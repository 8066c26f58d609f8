-------------------------- MODULE MCSystemBuilder --------------------------
(* Two file names; a text is `good`, `smoke` (it does not import) or `find`  *)
(* (it fails the check the model proposed).  The minimum of a plan with the  *)
(* module `store` also imports that (`link`), which no single file passes.   *)
(* Three checks are the fewest with which a round can mend two and break the *)
(* third.                                                                    *)
EXTENDS SystemBuilder
CONSTANTS main, store, good, smoke, link, find
MCMinimum(M) == {smoke} \cup (IF store \in M THEN {link} ELSE {})
MCImportable(d) == {n \in Names : d[n] \notin {NoFile, smoke}}
MCFails(d) == {c \in Checks : \/ d[main] = NoFile \/ \E n \in Names : d[n] = c
                              \/ c = link /\ store \notin MCImportable(d)}
=============================================================================
