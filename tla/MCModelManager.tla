--------------------------- MODULE MCModelManager ---------------------------
(* Instances of ModelManager for TLC. *)
EXTENDS ModelManager

CONSTANTS c1, c2, gemma, qwen

\* Clients that wait; and clients that give up or are killed while loads may be late.
Quick == {"exit", "crash", "restart"}
PatientAndNot == {Quick, Quick \cup {"giveup", "killed"}, Faults}
=============================================================================
