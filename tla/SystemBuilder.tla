--------------------------- MODULE SystemBuilder ---------------------------
(***************************************************************************)
(* system_builder.py: a model is asked for a plan and for the modules of a *)
(* program, the modules are written to a root directory, an acceptance     *)
(* checklist is run there, and a cascade of repairs follows: targeted      *)
(* fixes, a rewrite as one file, modification rounds, a verified template  *)
(* ("leaf").  Every repair writes first and looks afterwards, so each one  *)
(* has a way back, and what is returned must be what the directory holds.  *)
(*                                                                         *)
(* The text of a module is a value of Codes; a checklist is a subset of    *)
(* Checks; Fails(d) are the checks that fail on a directory with content   *)
(* d, a function of the content (a generated check that leaves files       *)
(* behind, or a flaky one, is not modelled).  What a model answers is any  *)
(* code, any subset of checks, or an exception.                            *)
(***************************************************************************)
EXTENDS Integers, FiniteSets

CONSTANTS
  Names,          \* file names a module can have
  Entry,          \* "main.py"
  Codes,          \* module texts that parse
  NoFile,         \* absent from a directory or from a dict
  Checks,         \* the executable checks that can be derived from the spec
  Minimum(_),     \* those of _minimum_acceptance, for the modules of a plan
  SingleMinimum,  \* the same for main.py on its own, whatever was planned
  Unverified,     \* the unmet label of a build that was not checked at all
  Fails(_),       \* the checks that fail on a directory
  Importable(_),  \* the modules of a directory that `python -c import` accepts
  MaxRepair, MaxReplan, MaxImprove,   \* the bounds of the three repair loops
  MaxGoverned,
  MaxAttempts,    \* k of build_system_best_of_k
  MaxFaults       \* bound: writes or deletes refused by the gate or the disk

Files == [Names -> Codes \cup {NoFile}]

ASSUME BuilderAssumption ==
  /\ Entry \in Names /\ NoFile \notin Codes /\ IsFiniteSet(Checks)
  /\ SingleMinimum \subseteq Checks /\ \A M \in SUBSET Names : Minimum(M) \subseteq Checks
  /\ Unverified \notin Checks
  /\ \A d \in Files : Fails(d) \subseteq Checks /\ Importable(d) \subseteq Names
  /\ {MaxRepair, MaxReplan, MaxImprove, MaxGoverned, MaxFaults} \subseteq Nat
  /\ MaxAttempts \in Nat \ {0, 1}

VARIABLES
  pc,       \* the stage build_system, modify_system or their caller is at
  task,     \* the command: which function, with which options
  disk,     \* the root directory
  built,    \* the dict `built`
  mods,     \* the modules of the plan
  checks,   \* the composed checklist, or the requirements of a governed build
  unmet,
  path,     \* build_path
  loop,     \* the repair loop that runs: round, content and unmet before it
  edit,     \* the locals of modify_system
  result,   \* what build_system returned, then what the command returned
  first,    \* the result to beat: the primary's, or the best of the attempts
  floor,    \* ghost: what failed when the loop that runs started
  faults,   \* writes refused so far
  raised,   \* ghost: a model call raised inside a repair round
  lost      \* ghost: a write whose failure the code ignores was refused

vars == <<pc, task, disk, built, mods, checks, unmet, path, loop, edit,
          result, first, floor, faults, raised, lost>>
plan == <<task, mods, checks, path>>
ghosts == <<floor, raised>>

Empty == [n \in Names |-> NoFile]
Only(k) == [Empty EXCEPT ![Entry] = k]
Present(d) == {n \in Names : d[n] # NoFile}
Overlay(d, e) == [n \in Names |-> IF e[n] # NoFile THEN e[n] ELSE d[n]]
Unmet(d, required) == required \cap Fails(d)

NoLoop == [of |-> "none", round |-> 0, built |-> Empty, unmet |-> {}, todo |-> {}]
NoEdit == [before |-> Empty, modules |-> Empty, changed |-> {}, passing |-> {},
           importable |-> {}, wanted |-> {}, round |-> 0, applied |-> FALSE]
Result(shipped, done, u, d, p) ==
  [shipped |-> shipped, done |-> done, unmet |-> u, modules |-> d, path |-> p,
   model |-> "primary", passed |-> 0]
NoResult == Result(FALSE, FALSE, {}, Empty, "none")

Tasks == [mode : {"build", "escalating", "governed", "best", "modify"}, replan : BOOLEAN,
          attempt : 1..MaxAttempts]

-----------------------------------------------------------------------------
(* Writing through the gate: every file of `after` that differs lands, or    *)
(* one is refused and only some of them do.                                  *)
Landed(after, S) == [n \in Names |-> IF n \in S THEN after[n] ELSE disk[n]]
AllLand(after) == disk' = after /\ UNCHANGED <<faults, lost>>
Differing(after) == {n \in Names : after[n] # disk[n]}
Refused(after, S) ==
  /\ faults < MaxFaults
  /\ S \subseteq Differing(after)
  /\ disk' = Landed(after, S)
  /\ faults' = faults + 1
SomeRefused(after, S) == Refused(after, S) /\ S # Differing(after)

\* Undoing: the code ignores what these writes and deletes answer.
RollBack(after) ==
  \/ AllLand(after)
  \/ \E S \in SUBSET Names : SomeRefused(after, S) /\ lost' = TRUE

-----------------------------------------------------------------------------
(* build_system: plan, build, assemble, accept.                              *)
Return(r) ==
  /\ pc' = "returned"
  /\ result' = r

\* No model, no answer, an answer without JSON, or an incoherent plan.
PlanFails ==
  /\ pc = "plan"
  /\ Return(NoResult)
  /\ UNCHANGED <<plan, disk, built, unmet, loop, edit, first, ghosts, faults, lost>>

\* A coherent plan, and every module passes the syntax gate.
Build ==
  /\ pc = "plan"
  /\ \E d \in Files : /\ Entry \in Present(d)
                      /\ built' = d
                      /\ mods' = Present(d)
  /\ path' = "free-form"
  /\ pc' = "assemble"
  /\ UNCHANGED <<task, disk, checks, unmet, loop, edit, result, first, ghosts, faults, lost>>

\* A module never parses; a single file written instead does.
SyntaxRescue ==
  /\ pc = "plan"
  /\ \E k \in Codes : built' = Only(k)
  /\ mods' = {Entry}
  /\ path' = "single-file-syntax-rescue"
  /\ pc' = "assemble"
  /\ UNCHANGED <<task, disk, checks, unmet, loop, edit, result, first, ghosts, faults, lost>>

\* The rescue does not parse either, or a call raised: what was built so far.
BuildFails ==
  /\ pc = "plan"
  /\ \E d \in Files : /\ Return([NoResult EXCEPT !.modules = d])
                      /\ mods' \in {M \in SUBSET Names : Present(d) \subseteq M}
  /\ UNCHANGED <<task, checks, path, disk, built, unmet, loop, edit, first, ghosts, faults, lost>>

Assemble ==
  /\ pc = "assemble"
  /\ AllLand(Overlay(disk, built))
  /\ pc' = "accept"
  /\ UNCHANGED <<plan, built, unmet, loop, edit, result, first, ghosts>>

AssembleRefused ==
  /\ pc = "assemble"
  /\ \E S \in SUBSET Names : Refused(Overlay(disk, built), S)
  /\ Return([NoResult EXCEPT !.modules = built])
  /\ UNCHANGED <<plan, built, unmet, loop, edit, first, ghosts, lost>>

\* The scan refuses the code, a web service has no HTTP check that can be
\* derived, or no checklist can be composed.
NotVerifiable ==
  /\ pc = "accept"
  /\ Return(Result(TRUE, FALSE, {Unverified}, built, path))
  /\ UNCHANGED <<plan, disk, built, unmet, loop, edit, first, ghosts, faults, lost>>

\* A web service: served once and judged by its HTTP checks, no repair.
ServeAndCheck ==
  /\ pc = "accept"
  /\ \E http \in SUBSET Checks \ {{}} :
       /\ checks' = http
       /\ \/ Return(Result(TRUE, Unmet(disk, http) = {}, Unmet(disk, http), built, path))
          \/ Return(Result(TRUE, FALSE, {}, built, path))   \* it does not come up
  /\ UNCHANGED <<task, mods, path, disk, built, unmet, loop, edit, first, ghosts, faults, lost>>

\* The deterministic minimum always gates; the model proposes (and a reviewer
\* corrects, properties and seams add) the rest.
Accept ==
  /\ pc = "accept"
  /\ \E proposed \in SUBSET (Checks \ Minimum(mods)) :
       /\ Minimum(mods) \cup proposed # {}
       /\ checks' = Minimum(mods) \cup proposed
  /\ unmet' = Unmet(disk, checks')
  /\ floor' = unmet'
  /\ loop' = [NoLoop EXCEPT !.of = "acceptance"]
  /\ pc' = IF unmet' = {} THEN "leaf" ELSE "repair"
  /\ UNCHANGED <<task, mods, path, disk, built, edit, result, first, raised, faults, lost>>

-----------------------------------------------------------------------------
(* _repair_system and the repair loop of build_system_governed.              *)
Bound == IF loop.of = "governed" THEN MaxGoverned ELSE MaxRepair
AfterRepair == IF loop.of = "governed" THEN "floor" ELSE "single"
Between == [NoLoop EXCEPT !.of = loop.of, !.round = loop.round]
Left == [NoLoop EXCEPT !.of = loop.of]

StartRound ==
  /\ pc = "repair" /\ unmet # {} /\ loop.round < Bound
  /\ loop' = [loop EXCEPT !.round = @ + 1, !.built = built, !.unmet = unmet, !.todo = unmet]
  /\ pc' = "fix"
  /\ UNCHANGED <<plan, disk, built, unmet, edit, result, first, ghosts, faults, lost>>

StopRepair ==
  /\ pc = "repair" /\ (unmet = {} \/ loop.round >= Bound)
  /\ pc' = AfterRepair /\ loop' = Left
  /\ UNCHANGED <<plan, disk, built, unmet, edit, result, first, ghosts, faults, lost>>

\* A check an earlier fix of the round already resolved, one the model has no
\* usable fix for, or one whose fix is refused.
SkipCheck(c) ==
  /\ pc = "fix" /\ c \in loop.todo
  /\ loop' = [loop EXCEPT !.todo = @ \ {c}]
  /\ UNCHANGED <<pc, plan, disk, built, unmet, edit, result, first, ghosts, faults, lost>>

\* A whole module is rewritten for one failing check.
FixCheck(c, n, k) ==
  /\ pc = "fix" /\ c \in loop.todo /\ c \in Fails(disk)
  /\ built[n] # NoFile
  /\ AllLand([disk EXCEPT ![n] = k])
  /\ built' = [built EXCEPT ![n] = k]
  /\ loop' = [loop EXCEPT !.todo = @ \ {c}]
  /\ UNCHANGED <<pc, plan, unmet, edit, result, first, ghosts>>

\* The call that repairs a fix that does not parse raises: the handler around
\* the whole loop swallows it, with the round's earlier fixes written.
RepairCallRaises ==
  /\ pc = "fix" /\ loop.todo # {}
  /\ raised' = TRUE
  /\ pc' = AfterRepair /\ loop' = Left
  /\ UNCHANGED <<plan, disk, built, unmet, edit, result, first, floor, faults, lost>>

\* Mutant: a round may swap a failing check for another one.
RegressedByCount(now) == Cardinality(now) > Cardinality(loop.unmet)

Regressed(now) == ((checks \ loop.unmet) \cap now) # {}

\* Mutant: the round is undone in the dict only.
RevertRoundInMemory ==
  /\ pc = "fix" /\ loop.todo = {}
  /\ Regressed(Unmet(disk, checks))
  /\ built' = loop.built
  /\ unmet' = loop.unmet
  /\ pc' = AfterRepair /\ loop' = Left
  /\ UNCHANGED <<plan, disk, edit, result, first, ghosts, faults, lost>>

\* The round made a check fail that passed before it: its writes are undone.
RevertRound ==
  /\ pc = "fix" /\ loop.todo = {}
  /\ Regressed(Unmet(disk, checks))
  /\ RollBack(Overlay(disk, loop.built))
  /\ built' = loop.built
  /\ unmet' = loop.unmet
  /\ pc' = AfterRepair /\ loop' = Left
  /\ UNCHANGED <<plan, edit, result, first, ghosts>>

KeepRound ==
  /\ pc = "fix" /\ loop.todo = {}
  /\ ~Regressed(Unmet(disk, checks))
  /\ unmet' = Unmet(disk, checks)
  /\ IF Cardinality(unmet') < Cardinality(loop.unmet)
     THEN pc' = "repair" /\ loop' = Between
     ELSE pc' = AfterRepair /\ loop' = Left
  /\ UNCHANGED <<plan, disk, built, edit, result, first, ghosts, faults, lost>>

-----------------------------------------------------------------------------
(* Adopting a whole replacement (a single file, a leaf): proved in a         *)
(* throwaway directory, written over the entry point, the modules it         *)
(* replaces deleted, proved again on the root, undone if that fails.         *)
Proved(k, required) == Unmet(Only(k), required) = {}
Swapped(k) == [n \in Names |-> IF n = Entry THEN k
                               ELSE IF built[n] # NoFile THEN NoFile ELSE disk[n]]
Unswapped == [n \in Names |-> IF n = Entry \/ built[n] # NoFile THEN built[n] ELSE disk[n]]

\* Mutant: the modules it replaces stay, the root is not judged again.
AdoptBeside(k, required, tag) ==
  /\ Proved(k, required)
  /\ AllLand([disk EXCEPT ![Entry] = k])
  /\ built' = Only(k)
  /\ unmet' = {}
  /\ path' = tag

Adopt(k, required, tag) ==
  /\ Proved(k, required)
  /\ Unmet(Swapped(k), required) = {}
  /\ AllLand(Swapped(k))
  /\ built' = Only(k)
  /\ unmet' = {}
  /\ path' = tag

AdoptFails(k, required) ==
  /\ Proved(k, required)
  /\ \/ Unmet(Swapped(k), required) # {} /\ RollBack(Unswapped)
     \/ /\ faults < MaxFaults           \* a delete was refused
        /\ faults' = faults + 1
        /\ disk' = Unswapped
        /\ UNCHANGED lost
     \/ /\ faults < MaxFaults           \* the first write was refused
        /\ faults' = faults + 1
        /\ UNCHANGED <<disk, lost>>
  /\ UNCHANGED <<built, unmet, path>>

\* What a program rewritten as one file must pass: the minimum of the plan names the
\* modules that were planned, so that of the single file takes its place; the checks
\* that were proposed stay.
SingleChecks == SingleMinimum \cup (checks \ Minimum(mods))

RetryAsSingleFile ==
  /\ pc = "single" /\ unmet # {} /\ Cardinality(mods) > 1
  /\ \E k \in Codes : \/ Adopt(k, SingleChecks, "single-file-retry")
                      \/ AdoptFails(k, SingleChecks)
  /\ pc' = "replan" /\ loop' = [NoLoop EXCEPT !.of = "replan"]
  /\ UNCHANGED <<task, mods, checks, edit, result, first, ghosts>>

\* Not needed, not parsed, or not better than the modules there are.
NoSingleFile ==
  /\ pc = "single"
  /\ pc' = "replan" /\ loop' = [NoLoop EXCEPT !.of = "replan"]
  /\ UNCHANGED <<plan, disk, built, unmet, edit, result, first, ghosts, faults, lost>>

-----------------------------------------------------------------------------
(* _replan_as_modification: the gap as a request to modify_system.           *)
StartReplan ==
  /\ pc = "replan" /\ task.replan /\ unmet # {} /\ loop.round < MaxReplan
  /\ loop' = [loop EXCEPT !.round = @ + 1, !.built = built, !.unmet = unmet]
  /\ edit' = [NoEdit EXCEPT !.before = built, !.modules = built]
  /\ pc' = "modify"
  /\ UNCHANGED <<plan, disk, built, unmet, result, first, ghosts, faults, lost>>

StopReplan ==
  /\ pc = "replan" /\ (~task.replan \/ unmet = {} \/ loop.round >= MaxReplan)
  /\ pc' = "leaf" /\ loop' = NoLoop
  /\ UNCHANGED <<plan, disk, built, unmet, edit, result, first, ghosts, faults, lost>>

Improves(now) == ~Regressed(now) /\ Cardinality(now) < Cardinality(loop.unmet)

KeepReplan ==
  /\ pc = "replanned" /\ Improves(Unmet(disk, checks))
  /\ built' = edit.modules
  /\ unmet' = Unmet(disk, checks)
  /\ pc' = "replan" /\ loop' = Between /\ edit' = NoEdit
  /\ UNCHANGED <<plan, disk, result, first, ghosts, faults, lost>>

\* The modules there were are written back; a module that was added stays.
RejectReplan ==
  /\ pc = "replanned" /\ ~Improves(Unmet(disk, checks))
  /\ RollBack(Overlay(disk, loop.built))
  /\ built' = loop.built
  /\ pc' = "leaf" /\ loop' = NoLoop /\ edit' = NoEdit
  /\ UNCHANGED <<plan, unmet, result, first, ghosts>>

-----------------------------------------------------------------------------
(* The leaf: a verified template for the class of program the spec names,    *)
(* tried when a check is unmet or, on a build that is done, when its output  *)
(* differs from the template's.  Only the deterministic minimum judges it.   *)
RepairWithLeaf ==
  /\ pc = "leaf" /\ SingleMinimum # {}
  /\ \E k \in Codes : Adopt(k, SingleMinimum, "leaf") \/ AdoptFails(k, SingleMinimum)
  /\ pc' = "finish"
  /\ UNCHANGED <<task, mods, checks, loop, edit, result, first, ghosts>>

\* No template for this spec, no difference from it, or one that fails itself.
NoLeaf ==
  /\ pc = "leaf"
  /\ pc' = "finish"
  /\ UNCHANGED <<plan, disk, built, unmet, loop, edit, result, first, ghosts, faults, lost>>

Finish ==
  /\ pc = "finish"
  /\ Return(Result(TRUE, unmet = {}, unmet, built, path))
  /\ UNCHANGED <<plan, disk, built, unmet, loop, edit, first, ghosts, faults, lost>>

-----------------------------------------------------------------------------
(* modify_system: a regression-gated change to an existing program.          *)
AfterEdit == IF task.mode = "modify" THEN "end" ELSE "replanned"
Passing(d) == edit.passing \cap Fails(d) = {}
\* Mutant: the modules the change added stay.
UndoneChanged == [n \in Names |-> IF n \in edit.changed THEN edit.before[n] ELSE disk[n]]
Undone == [n \in Names |-> IF n \in edit.changed \cup Present(edit.modules)
                           THEN edit.before[n] ELSE disk[n]]

\* The current modules are written, then judged: which checks of a derived
\* baseline pass, which modules import.
TakeBaseline ==
  /\ pc = "modify"
  /\ AllLand(Overlay(disk, edit.before))
  /\ \E baseline \in SUBSET Checks :
       edit' = [edit EXCEPT !.passing = baseline \ Fails(disk'),
                            !.importable = Importable(disk') \cap Present(edit.before)]
  /\ pc' = "change"
  /\ UNCHANGED <<plan, built, unmet, loop, result, first, ghosts>>

\* A write may be refused although the file already has that text.
BaselineRefused ==
  /\ pc = "modify"
  /\ \E S \in SUBSET Names : Refused(Overlay(disk, edit.before), S)
  /\ pc' = AfterEdit
  /\ UNCHANGED <<plan, built, unmet, loop, edit, result, first, ghosts, lost>>

\* No target named, or nothing that parses was generated.
NothingToChange ==
  /\ pc = "change"
  /\ pc' = AfterEdit
  /\ UNCHANGED <<plan, disk, built, unmet, loop, edit, result, first, ghosts, faults, lost>>

\* A model's change: some modules rewritten, some added.
Changes == Files \ {Empty}
Change ==
  /\ pc = "change"
  /\ \E d \in Changes :
       /\ edit' = [edit EXCEPT !.modules = Overlay(edit.before, d),
                               !.changed = Present(d) \cap Present(edit.before)]
       /\ AllLand(Overlay(disk, d))
  /\ pc' = "gate"
  /\ UNCHANGED <<plan, built, unmet, loop, result, first, ghosts>>

\* A write of the change is refused: changed modules are written back, added
\* ones unlinked.
ChangeRefused ==
  /\ pc = "change" /\ faults < MaxFaults
  /\ \E d \in Changes :
       disk' = [n \in Names |-> IF d[n] # NoFile THEN edit.before[n] ELSE disk[n]]
  /\ faults' = faults + 1
  /\ pc' = AfterEdit
  /\ UNCHANGED <<plan, built, unmet, loop, edit, result, first, ghosts, lost>>

Regresses == \/ ~Passing(disk)
             \/ ~(edit.importable \subseteq Importable(disk))

RevertChange ==
  /\ pc = "gate" /\ Regresses
  /\ RollBack(Undone)
  /\ edit' = [edit EXCEPT !.modules = edit.before]
  /\ pc' = AfterEdit
  /\ UNCHANGED <<plan, built, unmet, loop, result, first, ghosts>>

\* Accepted; the checks derived from the request decide whether to improve it.
KeepChange ==
  /\ pc = "gate" /\ ~Regresses
  /\ \E wanted \in SUBSET Checks :
       /\ edit' = [edit EXCEPT !.applied = TRUE, !.wanted = wanted]
       /\ pc' = IF Unmet(disk, wanted) # {} /\ edit.changed # {} THEN "improve" ELSE AfterEdit
  /\ UNCHANGED <<plan, disk, built, unmet, loop, result, first, ghosts, faults, lost>>

\* One round of _modify_newbehavior_repair: changed modules are regenerated and
\* kept when no baseline check regresses and more wanted checks pass.
Better(d) == /\ Passing(d)
             /\ Cardinality(Unmet(d, edit.wanted)) < Cardinality(Unmet(disk, edit.wanted))
Regenerated == {d \in Changes : Present(d) \subseteq edit.changed}

KeepImprovement ==
  /\ pc = "improve" /\ edit.round < MaxImprove
  /\ \E d \in Regenerated :
       /\ Better(Overlay(disk, d))
       /\ AllLand(Overlay(disk, d))
       /\ edit' = [edit EXCEPT !.modules = Overlay(@, d), !.round = @ + 1]
  /\ pc' = IF Unmet(disk', edit.wanted) = {} THEN AfterEdit ELSE "improve"
  /\ UNCHANGED <<plan, built, unmet, loop, result, first, ghosts>>

\* The round is worse, or one of its writes is refused: the best so far again.
UndoImprovement ==
  /\ pc = "improve" /\ edit.round < MaxImprove
  /\ \/ /\ \E d \in Regenerated : ~Better(Overlay(disk, d))
        /\ UNCHANGED <<disk, faults, lost>>
     \/ /\ faults < MaxFaults           \* a write of the round was refused
        /\ faults' = faults + 1
        /\ UNCHANGED <<disk, lost>>
     \/ /\ faults < MaxFaults           \* so was a write that undoes it
        /\ faults' = faults + 1
        /\ lost' = TRUE
        /\ \E d \in Regenerated : ~Better(Overlay(disk, d)) /\ disk' = Overlay(disk, d)
  /\ pc' = AfterEdit
  /\ UNCHANGED <<plan, built, unmet, loop, edit, result, first, ghosts>>

\* The bound, or a round in which nothing parses.
StopImproving ==
  /\ pc = "improve"
  /\ pc' = AfterEdit
  /\ UNCHANGED <<plan, disk, built, unmet, loop, edit, result, first, ghosts, faults, lost>>

-----------------------------------------------------------------------------
(* The callers of build_system.                                              *)
End(r) ==
  /\ pc' = "end"
  /\ result' = r

Report ==
  /\ pc = "returned" /\ task.mode = "build"
  /\ End(result)
  /\ UNCHANGED <<plan, disk, built, unmet, loop, edit, first, ghosts, faults, lost>>

\* build_system_escalating: the fallback builds over the same root.
Escalate ==
  /\ pc = "returned" /\ task.mode = "escalating" /\ task.attempt = 1 /\ ~result.done
  /\ first' = result
  /\ task' = [task EXCEPT !.attempt = 2]
  /\ pc' = "plan"
  /\ built' = Empty /\ mods' = {} /\ checks' = {} /\ unmet' = {} /\ path' = "none"
  /\ loop' = NoLoop /\ edit' = NoEdit /\ result' = NoResult /\ floor' = {}
  /\ UNCHANGED <<disk, raised, faults, lost>>

\* The primary is done, there is no fallback, or it cannot be loaded.
StayOnPrimary ==
  /\ pc = "returned" /\ task.mode = "escalating" /\ task.attempt = 1
  /\ End(result)
  /\ UNCHANGED <<plan, disk, built, unmet, loop, edit, first, ghosts, faults, lost>>

\* _better_result: done, then shipped, then fewer unmet; the primary wins a tie.
Outranks(f, p) ==
  \/ f.done /\ ~p.done
  \/ f.done = p.done /\ f.shipped /\ ~p.shipped
  \/ /\ f.done = p.done /\ f.shipped = p.shipped
     /\ Cardinality(f.unmet) < Cardinality(p.unmet)

ChooseBetter ==
  /\ pc = "returned" /\ task.mode = "escalating" /\ task.attempt = 2
  /\ End(IF Outranks(result, first) THEN [result EXCEPT !.model = "fallback"] ELSE first)
  /\ UNCHANGED <<plan, disk, built, unmet, loop, edit, first, ghosts, faults, lost>>

\* build_system_governed: requirements decomposed from the spec judge the build.
NotGoverned ==
  /\ pc = "returned" /\ task.mode = "governed"
  /\ End(result)     \* no requirement, or not shipped: build_system's own result
  /\ UNCHANGED <<plan, disk, built, unmet, loop, edit, first, ghosts, faults, lost>>

Govern ==
  /\ pc = "returned" /\ task.mode = "governed" /\ result.shipped
  /\ \E requirements \in SUBSET Checks \ {{}} : checks' = requirements
  /\ built' = result.modules
  /\ unmet' = Unmet(disk, checks')
  /\ floor' = unmet'
  /\ loop' = [NoLoop EXCEPT !.of = "governed"]
  /\ first' = [result EXCEPT !.unmet = unmet']
  /\ pc' = "repair"
  /\ UNCHANGED <<task, mods, path, disk, edit, result, raised, faults, lost>>

\* Mutant: the loop's own bookkeeping is believed.
KeepGovernedAsRecorded ==
  /\ pc = "floor"
  /\ Cardinality(unmet) <= Cardinality(first.unmet)
  /\ End(Result(TRUE, unmet = {}, unmet, built, path))
  /\ UNCHANGED <<plan, disk, built, unmet, loop, edit, first, ghosts, faults, lost>>

\* The floor: verified again from scratch; a repair that ended worse than the
\* build it started from is written over with that build.
KeepGoverned ==
  /\ pc = "floor"
  /\ Cardinality(Unmet(disk, checks)) <= Cardinality(first.unmet)
  /\ unmet' = Unmet(disk, checks)
  /\ End(Result(TRUE, unmet' = {}, unmet', built, path))
  /\ UNCHANGED <<plan, disk, built, loop, edit, first, ghosts, faults, lost>>

RestoreBaseline ==
  /\ pc = "floor"
  /\ Cardinality(Unmet(disk, checks)) > Cardinality(first.unmet)
  /\ RollBack(Overlay(disk, first.modules))
  /\ built' = first.modules
  /\ unmet' = first.unmet
  /\ End(Result(TRUE, unmet' = {}, unmet', built', path))
  /\ UNCHANGED <<plan, loop, edit, first, ghosts>>

-----------------------------------------------------------------------------
(* build_system_best_of_k: every attempt in a directory of its own, the best *)
(* one written to the root, which is empty.                                  *)

\* What the attempt says of itself does not count: a checklist is composed anew
\* for its plan and run in its directory.  Without modules, or when it cannot be
\* composed, there is none.  An attempt that passes all of it wins, otherwise the first
\* with the highest count.
PlanMinimum == IF path \in {"single-file-retry", "leaf"} THEN SingleMinimum ELSE Minimum(mods)

ScoreAttempt ==
  /\ pc = "returned" /\ task.mode = "best"
  /\ \E proposed \in SUBSET (Checks \ PlanMinimum) :
       checks' \in {{}} \cup (IF result.modules = Empty THEN {} ELSE {PlanMinimum \cup proposed})
  /\ LET failing == Unmet(disk, checks')
         scored == [result EXCEPT !.done = checks' # {} /\ failing = {}, !.unmet = failing,
                                  !.passed = Cardinality(checks' \ failing)]
     IN first' = IF task.attempt = 1 \/ scored.done \/ scored.passed > first.passed
                 THEN scored ELSE first
  /\ pc' = "scored"
  /\ UNCHANGED <<task, mods, path, disk, built, unmet, loop, edit, result, ghosts, faults, lost>>

NextAttempt ==
  /\ pc = "scored" /\ ~first.done /\ task.attempt < MaxAttempts
  /\ task' = [task EXCEPT !.attempt = @ + 1]
  /\ disk' = Empty
  /\ pc' = "plan"
  /\ built' = Empty /\ mods' = {} /\ checks' = {} /\ unmet' = {} /\ path' = "none"
  /\ loop' = NoLoop /\ edit' = NoEdit /\ result' = NoResult /\ floor' = {}
  /\ UNCHANGED <<first, raised, faults, lost>>

\* The answers of these writes are ignored too.
AssembleWinner ==
  /\ pc = "scored" /\ (first.done \/ task.attempt = MaxAttempts)
  /\ \/ disk' = first.modules /\ UNCHANGED <<faults, lost>>
     \/ /\ faults < MaxFaults /\ faults' = faults + 1 /\ lost' = TRUE
        /\ \E S \in SUBSET Present(first.modules) \ {Present(first.modules)} :
             disk' = [n \in Names |-> IF n \in S THEN first.modules[n] ELSE NoFile]
  /\ End([first EXCEPT !.shipped = @ \/ first.modules # Empty, !.path = "none"])
  /\ UNCHANGED <<plan, built, unmet, loop, edit, first, ghosts>>

-----------------------------------------------------------------------------
Init ==
  /\ task \in {t \in Tasks : t.attempt = 1 /\ (t.mode # "build" => ~t.replan)}
  /\ IF task.mode = "modify"
     THEN /\ disk \in Files \ {Empty}
          /\ edit = [NoEdit EXCEPT !.before = disk, !.modules = disk]
          /\ pc = "modify"
     ELSE disk = Empty /\ edit = NoEdit /\ pc = "plan"
  /\ built = Empty /\ mods = {} /\ checks = {} /\ unmet = {} /\ path = "none"
  /\ loop = NoLoop /\ result = NoResult /\ first = NoResult
  /\ floor = {} /\ faults = 0 /\ raised = FALSE /\ lost = FALSE

Building == PlanFails \/ Build \/ SyntaxRescue \/ BuildFails \/ Assemble
            \/ AssembleRefused \/ NotVerifiable \/ ServeAndCheck \/ Accept
Repairing == \/ StartRound \/ StopRepair \/ RepairCallRaises \/ RevertRound \/ KeepRound
             \/ \E c \in Checks : SkipCheck(c) \/ \E n \in Names, k \in Codes : FixCheck(c, n, k)
Replacing == RetryAsSingleFile \/ NoSingleFile \/ StartReplan \/ StopReplan
             \/ KeepReplan \/ RejectReplan \/ RepairWithLeaf \/ NoLeaf \/ Finish
Modifying == TakeBaseline \/ BaselineRefused \/ NothingToChange \/ Change \/ ChangeRefused
             \/ RevertChange \/ KeepChange \/ KeepImprovement \/ UndoImprovement \/ StopImproving
Calling == Report \/ Escalate \/ StayOnPrimary \/ ChooseBetter \/ NotGoverned \/ Govern
           \/ KeepGoverned \/ RestoreBaseline
Choosing == ScoreAttempt \/ NextAttempt \/ AssembleWinner

Next == Building \/ Repairing \/ Replacing \/ Modifying \/ Calling \/ Choosing
Spec == Init /\ [][Next]_vars

-----------------------------------------------------------------------------
(* Every variable has the values the code can give it. *)
Paths == {"none", "free-form", "single-file-syntax-rescue", "single-file-retry", "leaf"}
Results == [shipped : BOOLEAN, done : BOOLEAN, unmet : SUBSET (Checks \cup {Unverified}),
            modules : Files, path : Paths, model : {"primary", "fallback"},
            passed : Nat]
Loops == [of : {"none", "acceptance", "governed", "replan"}, round : Nat, built : Files,
          unmet : SUBSET Checks, todo : SUBSET Checks]
Edits == [before : Files, modules : Files, changed : SUBSET Names, passing : SUBSET Checks,
          importable : SUBSET Names, wanted : SUBSET Checks, round : Nat, applied : BOOLEAN]
Stages == {"plan", "assemble", "accept", "repair", "fix", "single", "replan", "replanned",
           "leaf", "finish", "modify", "change", "gate", "improve", "returned", "floor", "scored", "end"}
TypeOK ==
  /\ pc \in Stages /\ task \in Tasks
  /\ disk \in Files /\ built \in Files /\ mods \subseteq Names
  /\ checks \subseteq Checks /\ unmet \subseteq Checks /\ floor \subseteq Checks
  /\ path \in Paths /\ loop \in Loops /\ edit \in Edits
  /\ result \in Results /\ first \in Results
  /\ faults \in Nat /\ raised \in BOOLEAN /\ lost \in BOOLEAN

(* `done` is a fact about the directory: whatever was repaired, reverted,    *)
(* replaced or rolled back on the way, the checklist that gated the result   *)
(* passes on the files that are there at the end (that of a single file when *)
(* one was adopted, only the minimum when it is the leaf); also when they    *)
(* are those of the best of several attempts, written once more elsewhere,   *)
(* unless the build of that attempt did not even assemble them.              *)
Gating(p) == IF p = "leaf" THEN SingleMinimum
             ELSE IF p = "single-file-retry" THEN SingleChecks ELSE checks
Gate == IF loop.of = "governed" THEN checks ELSE Gating(result.path)
DoneIsVerified ==
  pc \in {"returned", "end"} /\ task.mode # "modify" /\ result.done /\ ~lost
  /\ (pc = "end" /\ task.mode = "best" => first.shipped)
    => Unmet(disk, Gate) = {}

(* The modules a build returns are the files it left, although they were     *)
(* written, reverted, deleted and restored one by one.                       *)
ReturnedIsOnDisk ==
  pc = "returned" /\ result.shipped /\ ~lost => Overlay(disk, result.modules) = disk

(* _repair_system never makes a check fail that passed when the checklist    *)
(* was first run, and what it reports as unmet is what fails on disk; a      *)
(* model call that raises inside a round is excepted.  A single file that    *)
(* replaces the modules passes its own minimum and every check that was      *)
(* proposed: only checks on the modules it replaces may fail on it, also     *)
(* ones that passed before, and they are no longer reported.                 *)
AcceptanceRepaired == pc = "single" \/ (pc = "replan" /\ loop.round = 0)
RepairsNeverRegress ==
  AcceptanceRepaired /\ ~raised /\ ~lost =>
    IF path = "single-file-retry"
    THEN /\ unmet = {} /\ Unmet(disk, SingleChecks) = {}
         /\ Unmet(disk, checks) \subseteq Minimum(mods) \ SingleMinimum
    ELSE unmet = Unmet(disk, checks) /\ unmet \subseteq floor

(* build_system_governed never ends worse than the build it started from,    *)
(* and reports exactly the requirements that fail on disk, even when a call  *)
(* raised in the middle of a round.                                          *)
GovernedFloor ==
  pc = "end" /\ loop.of = "governed" /\ ~lost
    => /\ Cardinality(Unmet(disk, checks)) <= Cardinality(floor)
       /\ result.unmet = Unmet(disk, checks)

(* /modifysystem: a change that is reported applied keeps every baseline     *)
(* check that passed, and one that is not leaves the directory as it was.    *)
ModifyIsGated ==
  pc = "end" /\ task.mode = "modify" /\ ~lost
    => IF edit.applied THEN Passing(disk) ELSE disk = edit.before

(* What _repair_system's docstring says ("never a state where a              *)
(* previously-passing check has regressed vs the pre-repair baseline") and   *)
(* the code does not do when a call raises inside a round.                   *)
RoundsNeverRegress ==
  AcceptanceRepaired /\ ~lost /\ path # "single-file-retry" => Unmet(disk, checks) \subseteq floor
=============================================================================
