----------------------------- MODULE MCFixRepo -----------------------------
(* Instances of FixRepo for TLC. *)
EXTENDS FixRepo

CONSTANTS p1, p2, o, f, x

\* A write is applied; or a rule denies it; or plan mode withholds it; or the user
\* is asked each time.
SessionPolicies == {{"applied"}, {"refused"}, {"withheld"}, {"applied", "refused"}}
Parsed == [Paths -> Contents \ Bad]
\* Every suite over these files, where they parse.
AllSuites == {[d \in Disks |-> IF d \in Parsed THEN s[d] ELSE Uncollected] :
                 s \in [Parsed -> Outcomes]}
=============================================================================
