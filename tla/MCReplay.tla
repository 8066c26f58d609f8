------------------------------ MODULE MCReplay ------------------------------
(* Instances of Replay for TLC. *)
EXTENDS Replay, TLC

CONSTANTS t1, t2, t3, t4, f1, f2, f3, c1, c2

FourCommits == <<t1, t2, t3, t4>>
Changes == (t1 :> <<f1, f2>>) @@ (t2 :> <<f2, f3>>)
           @@ (t3 :> <<f1, f2, f3>>) @@ (t4 :> <<>>)
Layout == (f1 :> "one") @@ (f2 :> "one") @@ (f3 :> "two")
Job(p, o) == [path |-> p, opts |-> o]
AllJobs == {Job("gherkin", {}), Job("gherkin", {"reviews", "ensemble"}), Job("jaros", {}),
            Job("agentic", {}), Job("gen", {}), Job("task", {"shown"}), Job("validate", {})}
=============================================================================
