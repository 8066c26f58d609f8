-------------------------------- MODULE Routing --------------------------------
(***************************************************************************)
(* A routed solve (harness/solve_routed.py): choose models by their        *)
(* measured coverage (model_router, model_tally), rewire to one            *)
(* (model_rewire.rewire: ask the manager what it serves, swap if that is   *)
(* another model, point the client at the model, activate its adaptation), *)
(* solve, test, and go on to the next model when the test fails.           *)
(*                                                                         *)
(* It is one more client of the model manager, composed here with the      *)
(* manager and the escalating clients of ModelManager.                     *)
(***************************************************************************)
EXTENDS ModelManager

CONSTANTS
    Routers,    \* the clients that solve by routing; the others escalate
    Rankings,   \* what ranked_models_for may answer for a class of problems
    MaxModels   \* max_models, the budget of solve_routed_escalating

ASSUME RoutingAssumption ==
    /\ Routers \subseteq Clients
    /\ MaxModels \in Nat \ {0}
    /\ \A rank \in Rankings :
         /\ rank \in Seq(Models)
         /\ \A i, j \in DOMAIN rank : rank[i] = rank[j] => i = j

VARIABLES
    router,   \* each routed solve: its stage, its models yet to try, its kind
    alias,    \* LLAMACPP_MODEL in the environment of each router
    label,    \* the last line of the label store
    company   \* whether the other clients escalate at all in this execution

rvars == <<router, alias, label, company>>
allvars == <<vars, rvars>>

Asleep == [st |-> "idle", todo |-> <<>>, gated |-> FALSE, made |-> NoModel]
NoLabel == [named |-> NoModel, made |-> NoModel]
Candidate(r) == Head(router[r].todo)
Stage(r) == router[r].st
To(r, s) == router' = [router EXCEPT ![r].st = s]

RInit ==
    /\ Init
    /\ router = [r \in Routers |-> Asleep]
    /\ alias = [r \in Routers |-> Default]
    /\ label = NoLabel
    /\ company \in BOOLEAN
-----------------------------------------------------------------------------
\* The model of a routed solve without escalation: the best of its class, or the default.
Best(rank) == IF rank = <<>> THEN Default ELSE Head(rank)

\* The models to try, in order: a default without measured coverage goes first.
Candidates(rank) ==
    LET order == IF \E i \in DOMAIN rank : rank[i] = Default THEN rank ELSE <<Default>> \o rank
    IN  SubSeq(order, 1, IF Len(order) < MaxModels THEN Len(order) ELSE MaxModels)

Route(r) ==
    /\ Stage(r) = "idle"
    /\ \E rank \in Rankings, gated \in BOOLEAN :
         router' = [router EXCEPT ![r] =
             [st |-> "reading", gated |-> gated, made |-> NoModel,
              todo |-> IF gated THEN Candidates(rank) ELSE <<Best(rank)>>]]
    /\ UNCHANGED <<vars, alias, label, company>>

\* Mutant: a manager that does not answer is taken to serve the candidate.
ReadCurrentTrusting(r) ==
    /\ Stage(r) = "reading"
    /\ To(r, IF MgrIdle /\ queue = <<>> /\ current # Candidate(r) THEN "posting" ELSE "activating")
    /\ UNCHANGED <<vars, alias, label, company>>

\* _manager_current: the manager's answer once it is through with what came before,
\* or nothing within 5 s.  A swap is asked for unless the answer is the candidate.
ReadCurrent(r) ==
    /\ Stage(r) = "reading"
    /\ To(r, IF MgrIdle /\ queue = <<>> /\ current = Candidate(r) THEN "activating" ELSE "posting")
    /\ UNCHANGED <<vars, alias, label, company>>

\* _manager_swap: POST /serve.
AskForSwap(r) ==
    /\ Stage(r) = "posting"
    /\ To(r, "swapping")
    /\ Goto(r, "swapping") /\ Post(r, Candidate(r))
    /\ UNCHANGED <<server, current, mgr, faults, alias, label, company>>

\* This candidate is over, whatever went wrong; the next one, if there is one.
NextCandidate(r) == LET rest == Tail(router[r].todo)
            IN  router' = [router EXCEPT ![r] =
                    IF rest = <<>> THEN Asleep
                    ELSE [@ EXCEPT !.st = "reading", !.todo = rest, !.made = NoModel]]

\* Mutant: the swap's failure is not looked at.
SwapAnsweredBlindly(r) ==
    /\ Stage(r) = "swapping" /\ reply[r] # "none"
    /\ To(r, "activating")
    /\ Goto(r, "idle")
    /\ UNCHANGED <<server, current, mgr, queue, reply, faults, alias, label, company>>

\* Mutant: a failed swap is tried again.
SwapAnsweredRetrying(r) ==
    /\ Stage(r) = "swapping" /\ reply[r] # "none"
    /\ To(r, IF reply[r] = "ok" THEN "activating" ELSE "reading")
    /\ Goto(r, "idle")
    /\ UNCHANGED <<server, current, mgr, queue, reply, faults, alias, label, company>>

\* The reply of the swap: activate, or report that the rewire failed.
SwapAnswered(r) ==
    /\ Stage(r) = "swapping" /\ reply[r] # "none"
    /\ IF reply[r] = "ok" THEN To(r, "activating") ELSE NextCandidate(r)
    /\ Goto(r, "idle")
    /\ UNCHANGED <<server, current, mgr, queue, reply, faults, alias, label, company>>

\* Point the client at the candidate, then write active_model.json, which may fail.
Activate(r) ==
    /\ Stage(r) = "activating"
    /\ alias' = [alias EXCEPT ![r] = Candidate(r)]
    /\ \/ To(r, "solving")
       \/ NextCandidate(r)
    /\ UNCHANGED <<vars, label, company>>

\* solve_fn on whatever is served: a result, or an exception.  Without the test gate
\* either is returned.
Solve(r) ==
    /\ Stage(r) = "solving"
    /\ \/ /\ router[r].gated
          /\ router' = [router EXCEPT ![r].st = "testing", ![r].made = server.model]
       \/ NextCandidate(r)
    /\ UNCHANGED <<vars, alias, label, company>>

\* test_fn judges the result, the outcome is recorded, and the first that passes wins.
Test(r) ==
    /\ Stage(r) = "testing"
    /\ label' = [named |-> Candidate(r), made |-> router[r].made]
    /\ router' = [router EXCEPT ![r] = Asleep] \/ NextCandidate(r)
    /\ UNCHANGED <<vars, alias, company>>

\* urlopen's 60 s run out, or the process is killed.
Abandon(r) ==
    \/ GiveUp(r) /\ UNCHANGED rvars
    \/ /\ Stage(r) # "idle" /\ "killed" \in faults
       /\ router' = [router EXCEPT ![r] = Asleep]
       /\ Goto(r, "idle") /\ HangUp(r)
       /\ alias' = [alias EXCEPT ![r] = Default]
       /\ UNCHANGED <<server, current, reply, faults, label, company>>
-----------------------------------------------------------------------------
RouterStep(r) ==
    \/ ReadCurrent(r) \/ AskForSwap(r) \/ SwapAnswered(r)
    \/ Activate(r) \/ Solve(r) \/ Test(r)

\* The manager, its server and the escalating clients.
Others ==
    /\ \/ Load \/ Die \/ Manager \/ Restart
       \/ \E c \in Clients \ Routers :
            (company /\ Escalate(c)) \/ ClientStep(c) \/ GiveUp(c) \/ Killed(c)
    /\ UNCHANGED rvars

RNext == Others \/ \E r \in Routers : Route(r) \/ RouterStep(r) \/ Abandon(r)

RSpec == RInit /\ [][RNext]_allvars

\* As in ModelManager; and a routed solve goes on, since every wait of it (for the
\* manager, the model, the tests) has a timeout.
RFairness ==
    /\ WF_allvars(Load /\ UNCHANGED rvars) /\ WF_allvars(Manager /\ UNCHANGED rvars)
    /\ \A r \in Routers : WF_allvars(RouterStep(r))
RFairSpec == RSpec /\ RFairness
-----------------------------------------------------------------------------
\* Type invariant.
RTypeOK ==
    /\ TypeOK
    /\ router \in [Routers ->
         [st : {"idle", "reading", "posting", "swapping", "activating", "solving", "testing"},
          todo : Seq(Models), gated : BOOLEAN,
          made : Models \cup {NoModel}]]
    /\ \A r \in Routers : (Stage(r) = "idle") = (router[r].todo = <<>>)
    /\ \A r \in Routers : Len(router[r].todo) <= MaxModels
    /\ alias \in [Routers -> Models]
    /\ label \in [named : Models \cup {NoModel}, made : Models \cup {NoModel}]
    /\ company \in BOOLEAN

\* As long as no load fails and no server dies, "already served" is true when it is
\* read, whoever swaps and gives up in between (rewire: "re-rewiring to the already-
\* served model performs no swap").
Reliable == faults \cap {"exit", "crash", "late"} = {}
SkipsOnlyServed ==
    [][Reliable => \A r \in Routers :
         Stage(r) = "reading" /\ router'[r].st = "activating" => Serving(Candidate(r))]_allvars

\* A single routed solve with a reliable server and nobody else: the label store, which
\* decides how classes of problems are split and validated, names the model that made
\* the result that was tested, also after swaps the solve gave up on and after processes
\* killed in the middle of one.
Alone == (\A r, s \in Routers : r = s) /\ ~company /\ Reliable /\ "restart" \notin faults
LabelNamesMaker == Alone => label.named = label.made

\* Every routed solve returns (model_rewire: every failure path is surfaced), whatever
\* fails.
RoutedSolveEnds == \A r \in Routers : Stage(r) # "idle" ~> Stage(r) = "idle"
=============================================================================
