----------------------- MODULE SystemBuilderProofs -----------------------
(***************************************************************************)
(* Proofs about SystemBuilder for any set of file names, module texts and  *)
(* checks, any judgement of a directory by the checks, and any bounds.     *)
(***************************************************************************)
EXTENDS SystemBuilder, FiniteSetTheorems, TLAPS

-----------------------------------------------------------------------------
(* The inductive invariant.                                                  *)

\* The files of d are on disk as d has them.
Holds(d) == Overlay(disk, d) = disk

\* modify_system runs on behalf of _replan_as_modification; the loop of build_system_governed
\* runs; a build is on its way.
Replanning == task.mode # "modify" /\ pc \in {"modify", "change", "gate", "improve", "replanned"}
Governing == loop.of = "governed"
Standing == pc \in {"assemble", "accept", "repair", "fix", "single", "replan", "leaf"} /\ ~Governing

\* Which command is at which stage, and with what: only a plain build replans, and only with
\* something unmet; a fallback or a further attempt is made only while nothing is done.
Control ==
  /\ task.replan => task.mode = "build"
  /\ pc \in {"repair", "fix"} => loop.of \in {"acceptance", "governed"}
  /\ pc = "floor" => Governing
  /\ Governing => /\ task.mode = "governed" /\ pc \in {"repair", "fix", "floor", "end"}
                  /\ first.unmet \subseteq Checks
  /\ task.mode = "modify" => pc \in {"modify", "change", "gate", "improve", "end"}
  /\ pc = "scored" => task.mode = "best"
  /\ pc = "fix" => unmet # {} /\ loop.unmet # {}
  /\ Replanning => task.mode = "build" /\ unmet # {} /\ loop.round # 0
  /\ task.mode = "escalating" /\ task.attempt # 1 => ~first.done
  /\ task.mode = "best" /\ pc \notin {"scored", "end"} => ~first.done
  /\ Standing \/ Replanning => path # "leaf"
  /\ Replanning \/ (Standing /\ pc \notin {"replan", "leaf"}) => path # "single-file-retry"
  /\ pc = "replan" /\ path = "single-file-retry" => unmet = {}

\* Every version of the program that can become the current one has an entry point, a round
\* rewrites the modules there are and a change removes none.
Complete ==
  /\ Standing => built[Entry] # NoFile
  /\ (pc = "fix" /\ ~Governing) \/ Replanning => loop.built[Entry] # NoFile
  /\ Replanning => edit.before[Entry] # NoFile /\ edit.modules[Entry] # NoFile
  /\ pc = "fix" => Present(loop.built) = Present(built)
  /\ pc \in {"modify", "change"} => edit.modules = edit.before
  /\ pc = "gate" => Present(edit.before) \subseteq Present(edit.modules)

\* The dict that says what the program is agrees with the directory.
Synced == ~lost =>
  /\ pc \in {"accept", "repair", "fix", "single", "replan", "leaf", "finish"} => Holds(built)
  /\ Replanning => Holds(edit.modules)
  /\ pc = "returned" /\ result.shipped => Holds(result.modules)

\* What is recorded as unmet is what fails; in a round, what failed before it is what fails on
\* the directory with the round's writes undone.
Recorded == ~lost =>
  /\ (pc = "repair" /\ ~Governing) \/ AcceptanceRepaired
       => \/ raised \/ path = "single-file-retry"
          \/ unmet = Unmet(disk, checks) /\ unmet \subseteq floor
  /\ pc = "fix" /\ ~Governing
       => raised \/ (Unmet(Overlay(disk, loop.built), checks) = loop.unmet /\ loop.unmet \subseteq floor)
  /\ pc \in {"repair", "single", "replan", "leaf"} /\ ~Governing /\ unmet = {}
       => Unmet(disk, Gating(path)) = {}
  /\ pc = "finish" /\ unmet = {} => Unmet(disk, Gating(path)) = {}

\* What `done` says when build_system, and when its caller, returns.
Returns == ~lost =>
  /\ pc = "returned" /\ result.done => Unmet(disk, Gate) = {}
  /\ pc = "end" /\ task.mode # "modify" /\ result.done /\ (task.mode = "best" => first.shipped)
       => Unmet(disk, Gate) = {}

\* The build a governed repair started from can be written back over whatever the repair made of
\* it, and would fail then what it failed at first.
Floored == ~lost /\ Governing =>
  /\ pc \in {"repair", "fix", "floor"} =>
       /\ Present(first.modules) = Present(built)
       /\ Unmet(Overlay(disk, first.modules), checks) = first.unmet
       /\ floor = first.unmet
  /\ pc = "end" => /\ Cardinality(Unmet(disk, checks)) <= Cardinality(floor)
                   /\ result.unmet = Unmet(disk, checks)

\* An attempt of build_system_best_of_k has its directory to itself.
Alone == task.mode = "best" /\ ~lost =>
  /\ pc \in {"plan", "assemble"} => disk = Empty
  /\ pc \in {"accept", "repair", "fix", "single", "replan", "leaf", "finish"} => disk = built
  /\ pc = "returned" /\ result.shipped => disk = result.modules
  /\ pc = "scored" /\ first.done /\ first.shipped
       => disk = first.modules /\ Unmet(disk, checks) = {}

\* /modifysystem: the directory is what it was until the gate has accepted the change.
Gated == task.mode = "modify" /\ ~lost =>
  /\ pc \in {"modify", "change"} => disk = edit.before /\ ~edit.applied
  /\ pc = "gate" => disk = edit.modules /\ ~edit.applied
  /\ pc = "improve" => edit.applied /\ Passing(disk)
  /\ pc = "end" => IF edit.applied THEN Passing(disk) ELSE disk = edit.before

IInv == TypeOK /\ Control /\ Complete /\ Synced /\ Recorded /\ Returns /\ Floored /\ Alone /\ Gated

-----------------------------------------------------------------------------
(* The values of every variable have their types.                            *)

LEMMA ContentTyped ==
  /\ Empty \in Files
  /\ \A k \in Codes : Only(k) \in Files
  /\ \A d, e \in Files : Overlay(d, e) \in Files
  /\ \A d \in Files : Present(d) \subseteq Names
  BY BuilderAssumption DEF Empty, Only, Files, Overlay, Present

LEMMA UnmetTyped == \A d \in Files, S \in SUBSET Checks : Unmet(d, S) \subseteq Checks
  BY DEF Unmet

LEMMA CountTyped == \A S \in SUBSET Checks : Cardinality(S) \in Nat
  BY BuilderAssumption, FS_Subset, FS_CardinalityType

LEMMA ResultTyped ==
  \A s, f \in BOOLEAN, u \in SUBSET (Checks \cup {Unverified}), d \in Files, p \in Paths :
    Result(s, f, u, d, p) \in Results
  BY DEF Result, Results

LEMMA RecordsTyped == NoLoop \in Loops /\ NoEdit \in Edits /\ NoResult \in Results
<1>1. NoLoop \in Loops
  BY ContentTyped DEF NoLoop, Loops
<1>2. NoEdit \in Edits
  BY ContentTyped DEF NoEdit, Edits
<1>3. NoResult \in Results
  BY ContentTyped DEF NoResult, Result, Results, Paths
<1> QED
  BY <1>1, <1>2, <1>3

LEMMA NoResultWith == \A d \in Files : [NoResult EXCEPT !.modules = d] \in Results
  BY DEF NoResult, Result, Results, Paths

LEMMA LandedTyped ==
  ASSUME disk \in Files, NEW after \in Files, NEW S \in SUBSET Names
  PROVE  Landed(after, S) \in Files
  BY DEF Files, Landed

LEMMA RefusedTyped ==
  ASSUME disk \in Files, faults \in Nat,
         NEW after \in Files, NEW S \in SUBSET Names, Refused(after, S)
  PROVE  disk' \in Files /\ faults' \in Nat
<1>1. disk' \in Files
  BY LandedTyped DEF Refused
<1>2. faults' \in Nat
  BY DEF Refused
<1> QED
  BY <1>1, <1>2

LEMMA RollBackTyped ==
  ASSUME disk \in Files, faults \in Nat, lost \in BOOLEAN, NEW after \in Files, RollBack(after)
  PROVE  disk' \in Files /\ faults' \in Nat /\ lost' \in BOOLEAN
  BY RefusedTyped DEF RollBack, AllLand, SomeRefused

LEMMA BuildingTyped == TypeOK /\ Building => TypeOK'
<1> SUFFICES ASSUME TypeOK, Building PROVE TypeOK'
  OBVIOUS
<1> USE DEF TypeOK, Return, plan, ghosts, Stages, Paths
<1>1. CASE PlanFails
  BY <1>1, RecordsTyped DEF PlanFails
<1>2. CASE Build
  <2>1. built' \in Files /\ mods' \subseteq Names
    BY <1>2, ContentTyped DEF Build
  <2> QED
    BY <1>2, <2>1 DEF Build
<1>3. CASE SyntaxRescue
  <2>1. built' \in Files /\ mods' \subseteq Names
    BY <1>3, ContentTyped, BuilderAssumption DEF SyntaxRescue
  <2> QED
    BY <1>3, <2>1 DEF SyntaxRescue
<1>4. CASE BuildFails
  <2>1. result' \in Results
    BY <1>4, NoResultWith DEF BuildFails
  <2> QED
    BY <1>4, <2>1 DEF BuildFails
<1>5. CASE Assemble
  BY <1>5, ContentTyped DEF Assemble, AllLand
<1>6. CASE AssembleRefused
  <2>1. disk' \in Files /\ faults' \in Nat
    BY <1>6, RefusedTyped, ContentTyped DEF AssembleRefused
  <2>2. result' \in Results
    BY <1>6, NoResultWith DEF AssembleRefused
  <2> QED
    BY <1>6, <2>1, <2>2 DEF AssembleRefused
<1>7. CASE NotVerifiable
  BY <1>7, ResultTyped DEF NotVerifiable
<1>8. CASE ServeAndCheck
  <2>1. PICK http \in SUBSET Checks : /\ checks' = http
            /\ \/ Return(Result(TRUE, Unmet(disk, http) = {}, Unmet(disk, http), built, path))
               \/ Return(Result(TRUE, FALSE, {}, built, path))
    BY <1>8 DEF ServeAndCheck
  <2>2. result' \in Results
    <3>1. /\ (Unmet(disk, http) = {}) \in BOOLEAN
          /\ Unmet(disk, http) \in SUBSET (Checks \cup {Unverified})
      BY UnmetTyped
    <3>2. Result(TRUE, Unmet(disk, http) = {}, Unmet(disk, http), built, path) \in Results
      BY <3>1, ResultTyped
    <3>3. Result(TRUE, FALSE, {}, built, path) \in Results
      BY ResultTyped
    <3> QED
      BY <2>1, <3>2, <3>3
  <2> QED
    BY <1>8, <2>1, <2>2 DEF ServeAndCheck
<1>9. CASE Accept
  <2>1. checks' \subseteq Checks
    BY <1>9, BuilderAssumption DEF Accept
  <2>2. unmet' \subseteq Checks /\ floor' \subseteq Checks
    BY <1>9, <2>1, UnmetTyped DEF Accept
  <2>3. loop' \in Loops
    BY <1>9, RecordsTyped, ContentTyped DEF Accept, Loops, NoLoop
  <2> QED
    BY <1>9, <2>1, <2>2, <2>3 DEF Accept
<1> QED
  BY <1>1, <1>2, <1>3, <1>4, <1>5, <1>6, <1>7, <1>8, <1>9 DEF Building

LEMMA WriteTyped ==
  \A d \in Files, n \in Names, k \in Codes : [d EXCEPT ![n] = k] \in Files
  BY DEF Files

LEMMA RepairingTyped == TypeOK /\ Repairing => TypeOK'
<1> SUFFICES ASSUME TypeOK, Repairing PROVE TypeOK'
  OBVIOUS
<1> USE DEF TypeOK, plan, ghosts, Stages, AfterRepair
<1>1. Left \in Loops /\ Between \in Loops
  BY RecordsTyped DEF Left, Between, Loops, NoLoop
<1>2. CASE StartRound
  <2>1. PICK r \in Nat : r = loop.round + 1
    BY DEF Loops
  <2>2. loop' = [loop EXCEPT !.round = r, !.built = built, !.unmet = unmet, !.todo = unmet]
    BY <1>2, <2>1 DEF StartRound
  <2>3. loop' \in Loops
    BY <2>2 DEF Loops
  <2> QED
    BY <1>2, <2>3 DEF StartRound
<1>3. CASE StopRepair
  BY <1>1, <1>3 DEF StopRepair
<1>4. CASE RepairCallRaises
  BY <1>1, <1>4 DEF RepairCallRaises
<1>5. CASE RevertRound
  <2>1. loop.built \in Files /\ loop.unmet \subseteq Checks
    BY DEF Loops
  <2>2. disk' \in Files /\ faults' \in Nat /\ lost' \in BOOLEAN
    BY <1>5, <2>1, ContentTyped, RollBackTyped DEF RevertRound
  <2> QED
    BY <1>1, <1>5, <2>1, <2>2 DEF RevertRound
<1>6. CASE KeepRound
  BY <1>1, <1>6, UnmetTyped DEF KeepRound
<1>7. ASSUME NEW c \in Checks, SkipCheck(c) PROVE TypeOK'
  <2>1. loop' \in Loops
    BY <1>7 DEF SkipCheck, Loops
  <2> QED
    BY <1>7, <2>1 DEF SkipCheck
<1>8. ASSUME NEW c \in Checks, NEW n \in Names, NEW k \in Codes, FixCheck(c, n, k)
      PROVE  TypeOK'
  <2>1. loop' \in Loops
    BY <1>8 DEF FixCheck, Loops
  <2>2. disk' \in Files /\ built' \in Files
    BY <1>8, WriteTyped DEF FixCheck, AllLand
  <2> QED
    BY <1>8, <2>1, <2>2 DEF FixCheck, AllLand
<1> QED
  BY <1>2, <1>3, <1>4, <1>5, <1>6, <1>7, <1>8 DEF Repairing

\* What a whole replacement leaves on disk is what was built or written.
LEMMA SwapTyped ==
  ASSUME disk \in Files, built \in Files, built[Entry] # NoFile
  PROVE  Unswapped \in Files /\ \A k \in Codes : Swapped(k) \in Files
  BY BuilderAssumption DEF Files, Swapped, Unswapped

LEMMA AdoptTyped ==
  ASSUME TypeOK, NEW k \in Codes, NEW required, NEW tag \in Paths,
         Adopt(k, required, tag)
  PROVE  /\ disk' \in Files /\ built' \in Files /\ unmet' \subseteq Checks /\ path' \in Paths
         /\ faults' \in Nat /\ lost' \in BOOLEAN
<1>1. Swapped(k) \in Files
  BY BuilderAssumption DEF TypeOK, Files, Swapped
<1> QED
  BY <1>1, ContentTyped DEF TypeOK, Adopt, AllLand

LEMMA AdoptFailsTyped ==
  ASSUME TypeOK, NEW k \in Codes, NEW required, AdoptFails(k, required)
  PROVE  /\ disk' \in Files /\ built' \in Files /\ unmet' \subseteq Checks /\ path' \in Paths
         /\ faults' \in Nat /\ lost' \in BOOLEAN
<1>1. Unswapped \in Files
  BY DEF TypeOK, Files, Unswapped
<1>2. CASE RollBack(Unswapped)
  BY <1>1, <1>2, RollBackTyped DEF TypeOK, AdoptFails
<1>3. CASE ~RollBack(Unswapped)
  BY <1>1, <1>3 DEF TypeOK, AdoptFails
<1> QED
  BY <1>2, <1>3

LEMMA ReplacingTyped == TypeOK /\ Replacing => TypeOK'
<1> SUFFICES ASSUME TypeOK, Replacing PROVE TypeOK'
  OBVIOUS
<1> USE DEF TypeOK, plan, ghosts, Stages
<1>0. /\ [NoLoop EXCEPT !.of = "replan"] \in Loops
      /\ Between \in Loops
      /\ NoLoop \in Loops /\ NoEdit \in Edits
      /\ {"single-file-retry", "leaf"} \subseteq Paths
  BY RecordsTyped DEF Between, Loops, NoLoop, Paths
<1>1. CASE RetryAsSingleFile
  <2>1. /\ disk' \in Files /\ built' \in Files /\ unmet' \subseteq Checks /\ path' \in Paths
        /\ faults' \in Nat /\ lost' \in BOOLEAN
    BY <1>0, <1>1, AdoptTyped, AdoptFailsTyped DEF RetryAsSingleFile
  <2> QED
    BY <1>0, <1>1, <2>1 DEF RetryAsSingleFile
<1>2. CASE NoSingleFile
  BY <1>0, <1>2 DEF NoSingleFile
<1>3. CASE StartReplan
  <2>1. PICK r \in Nat : r = loop.round + 1
    BY DEF Loops
  <2>2. loop' = [loop EXCEPT !.round = r, !.built = built, !.unmet = unmet]
    BY <1>3, <2>1 DEF StartReplan
  <2>3. loop' \in Loops
    BY <2>2 DEF Loops
  <2>4. edit' \in Edits
    BY <1>3, ContentTyped DEF StartReplan, Edits, NoEdit
  <2> QED
    BY <1>3, <2>3, <2>4 DEF StartReplan
<1>4. CASE StopReplan
  BY <1>0, <1>4 DEF StopReplan
<1>5. CASE KeepReplan
  <2>1. edit.modules \in Files
    BY DEF Edits
  <2> QED
    BY <1>0, <1>5, <2>1, UnmetTyped DEF KeepReplan
<1>6. CASE RejectReplan
  <2>1. loop.built \in Files
    BY DEF Loops
  <2>2. disk' \in Files /\ faults' \in Nat /\ lost' \in BOOLEAN
    BY <1>6, <2>1, ContentTyped, RollBackTyped DEF RejectReplan
  <2> QED
    BY <1>0, <1>6, <2>1, <2>2 DEF RejectReplan
<1>7. CASE RepairWithLeaf
  <2>1. /\ disk' \in Files /\ built' \in Files /\ unmet' \subseteq Checks /\ path' \in Paths
        /\ faults' \in Nat /\ lost' \in BOOLEAN
    BY <1>0, <1>7, AdoptTyped, AdoptFailsTyped DEF RepairWithLeaf
  <2> QED
    BY <1>7, <2>1 DEF RepairWithLeaf
<1>8. CASE NoLeaf
  BY <1>8 DEF NoLeaf
<1>9. CASE Finish
  <2>1. result' \in Results
    BY <1>9, ResultTyped DEF Finish, Return
  <2> QED
    BY <1>9, <2>1 DEF Finish, Return
<1> QED
  BY <1>1, <1>2, <1>3, <1>4, <1>5, <1>6, <1>7, <1>8, <1>9 DEF Replacing

LEMMA ModifyingTyped == TypeOK /\ Modifying => TypeOK'
<1> SUFFICES ASSUME TypeOK, Modifying PROVE TypeOK'
  OBVIOUS
<1> USE DEF TypeOK, plan, ghosts, Stages, AfterEdit
<1>0. edit.before \in Files /\ edit.modules \in Files
  BY DEF Edits
<1>1. CASE TakeBaseline
  <2>1. disk' \in Files
    BY <1>0, <1>1, ContentTyped DEF TakeBaseline, AllLand
  <2>2. PICK baseline \in SUBSET Checks :
          edit' = [edit EXCEPT !.passing = baseline \ Fails(disk'),
                               !.importable = Importable(disk') \cap Present(edit.before)]
    BY <1>1 DEF TakeBaseline
  <2>3. edit' \in Edits
    BY <1>0, <2>2, ContentTyped DEF Edits
  <2> QED
    BY <1>1, <2>1, <2>3 DEF TakeBaseline, AllLand
<1>2. CASE BaselineRefused
  <2>1. disk' \in Files /\ faults' \in Nat
    BY <1>0, <1>2, RefusedTyped, ContentTyped DEF BaselineRefused
  <2> QED
    BY <1>2, <2>1 DEF BaselineRefused
<1>3. CASE NothingToChange
  BY <1>3 DEF NothingToChange
<1>4. CASE Change
  <2>1. PICK d \in Changes :
          /\ edit' = [edit EXCEPT !.modules = Overlay(edit.before, d),
                                  !.changed = Present(d) \cap Present(edit.before)]
          /\ AllLand(Overlay(disk, d))
    BY <1>4 DEF Change
  <2>2. d \in Files
    BY DEF Changes
  <2>3. edit' \in Edits
    BY <1>0, <2>1, <2>2, ContentTyped DEF Edits
  <2> QED
    BY <1>4, <2>1, <2>2, <2>3, ContentTyped DEF Change, AllLand
<1>5. CASE ChangeRefused
  <2>1. PICK d \in Changes :
          disk' = [n \in Names |-> IF d[n] # NoFile THEN edit.before[n] ELSE disk[n]]
    BY <1>5 DEF ChangeRefused
  <2>2. disk' \in Files
    BY <1>0, <2>1 DEF Files
  <2> QED
    BY <1>5, <2>2 DEF ChangeRefused
<1>6. CASE RevertChange
  <2>1. Undone \in Files
    BY <1>0 DEF Files, Undone
  <2>2. disk' \in Files /\ faults' \in Nat /\ lost' \in BOOLEAN
    BY <1>6, <2>1, RollBackTyped DEF RevertChange
  <2>3. edit' \in Edits
    BY <1>6 DEF RevertChange, Edits
  <2> QED
    BY <1>6, <2>2, <2>3 DEF RevertChange
<1>7. CASE KeepChange
  <2>1. edit' \in Edits
    BY <1>7 DEF KeepChange, Edits
  <2> QED
    BY <1>7, <2>1 DEF KeepChange
<1>8. CASE KeepImprovement
  <2>1. PICK d \in Regenerated :
          /\ AllLand(Overlay(disk, d))
          /\ edit' = [edit EXCEPT !.modules = Overlay(@, d), !.round = @ + 1]
    BY <1>8 DEF KeepImprovement
  <2>2. d \in Files
    BY DEF Regenerated, Changes
  <2>3. PICK r \in Nat : r = edit.round + 1
    BY DEF Edits
  <2>4. edit' = [edit EXCEPT !.modules = Overlay(edit.modules, d), !.round = r]
    BY <2>1, <2>3
  <2>5. edit' \in Edits
    BY <1>0, <2>2, <2>4, ContentTyped DEF Edits
  <2> QED
    BY <1>8, <2>1, <2>2, <2>5, ContentTyped DEF KeepImprovement, AllLand
<1>9. CASE UndoImprovement
  <2>1. \A d \in Regenerated : Overlay(disk, d) \in Files
    BY ContentTyped DEF Regenerated, Changes
  <2>2. disk' \in Files
    BY <1>9, <2>1 DEF UndoImprovement
  <2>3. faults' \in Nat
    BY <1>9 DEF UndoImprovement
  <2>4. lost' \in BOOLEAN
    BY <1>9, Zenon DEF UndoImprovement
  <2> QED
    BY <1>9, <2>2, <2>3, <2>4 DEF UndoImprovement
<1>10. CASE StopImproving
  BY <1>10 DEF StopImproving
<1> QED
  BY <1>1, <1>2, <1>3, <1>4, <1>5, <1>6, <1>7, <1>8, <1>9, <1>10 DEF Modifying

LEMMA CallingTyped == TypeOK /\ Control /\ Calling => TypeOK'
<1> SUFFICES ASSUME TypeOK, Control, Calling PROVE TypeOK'
  OBVIOUS
<1> USE DEF TypeOK, plan, ghosts, Stages, End
<1>0. first.modules \in Files /\ result.modules \in Files
  BY DEF Results
<1>1. CASE Report
  BY <1>1 DEF Report
<1>2. CASE Escalate
  <2>1. task' \in Tasks
    BY <1>2, BuilderAssumption DEF Escalate, Tasks
  <2> QED
    BY <1>2, <2>1, RecordsTyped, ContentTyped DEF Escalate, Paths
<1>3. CASE StayOnPrimary
  BY <1>3 DEF StayOnPrimary
<1>4. CASE ChooseBetter
  <2>1. [result EXCEPT !.model = "fallback"] \in Results
    BY DEF Results
  <2> QED
    BY <1>4, <2>1 DEF ChooseBetter
<1>5. CASE NotGoverned
  BY <1>5 DEF NotGoverned
<1>6. CASE Govern
  <2>1. checks' \subseteq Checks
    BY <1>6 DEF Govern
  <2>2. unmet' \subseteq Checks /\ floor' \subseteq Checks
    BY <1>6, <2>1, UnmetTyped DEF Govern
  <2>3. first' \in Results
    BY <1>6, <2>2 DEF Govern, Results
  <2>4. loop' \in Loops
    BY <1>6, RecordsTyped, ContentTyped DEF Govern, NoLoop, Loops
  <2> QED
    BY <1>0, <1>6, <2>1, <2>2, <2>3, <2>4 DEF Govern
<1>7. CASE KeepGoverned
  <2>1. unmet' \subseteq Checks
    BY <1>7, UnmetTyped DEF KeepGoverned
  <2>2. result' \in Results
    BY <1>7, <2>1, ResultTyped DEF KeepGoverned
  <2> QED
    BY <1>7, <2>1, <2>2 DEF KeepGoverned
<1>8. CASE RestoreBaseline
  <2>1. disk' \in Files /\ faults' \in Nat /\ lost' \in BOOLEAN
    BY <1>0, <1>8, RollBackTyped, ContentTyped DEF RestoreBaseline
  <2>2. first.unmet \subseteq Checks
    BY <1>8 DEF RestoreBaseline, Control, Governing
  <2>3. result' \in Results
    BY <1>0, <1>8, <2>2, ResultTyped DEF RestoreBaseline
  <2> QED
    BY <1>0, <1>8, <2>1, <2>2, <2>3 DEF RestoreBaseline
<1> QED
  BY <1>1, <1>2, <1>3, <1>4, <1>5, <1>6, <1>7, <1>8 DEF Calling

LEMMA ChoosingTyped == TypeOK /\ Choosing => TypeOK'
<1> SUFFICES ASSUME TypeOK, Choosing PROVE TypeOK'
  OBVIOUS
<1> USE DEF TypeOK, plan, ghosts, Stages, End
<1>1. CASE ScoreAttempt
  <2>1. checks' \subseteq Checks
    <3>1. PlanMinimum \subseteq Checks
      BY BuilderAssumption DEF PlanMinimum
    <3> QED
      BY <1>1, <3>1 DEF ScoreAttempt
  <2> DEFINE failing == Unmet(disk, checks')
             scored == [result EXCEPT !.done = checks' # {} /\ failing = {}, !.unmet = failing,
                                      !.passed = Cardinality(checks' \ failing)]
  <2>2. failing \subseteq Checks
    BY <2>1, UnmetTyped
  <2>3. Cardinality(checks' \ failing) \in Nat
    BY <2>1, CountTyped
  <2>4. (checks' # {} /\ failing = {}) \in BOOLEAN
    OBVIOUS
  <2>5. scored \in Results
    <3> HIDE DEF failing
    <3> QED
      BY <2>2, <2>3, <2>4 DEF Results
  <2>6. first' \in Results
    <3>1. first' \in {first, scored}
      BY <1>1 DEF ScoreAttempt
    <3> HIDE DEF scored
    <3> QED
      BY <2>5, <3>1
  <2> QED
    BY <1>1, <2>1, <2>6 DEF ScoreAttempt
<1>2. CASE NextAttempt
  <2>1. task' \in Tasks
    BY <1>2, BuilderAssumption DEF NextAttempt, Tasks
  <2> QED
    BY <1>2, <2>1, RecordsTyped, ContentTyped DEF NextAttempt, Paths
<1>3. CASE AssembleWinner
  <2>1. disk' \in Files
    BY <1>3 DEF AssembleWinner, Results, Files
  <2>2. faults' \in Nat
    BY <1>3 DEF AssembleWinner
  <2>4. lost' \in BOOLEAN
    BY <1>3, Zenon DEF AssembleWinner
  <2>3. result' \in Results
    BY <1>3 DEF AssembleWinner, Results, Paths
  <2> QED
    BY <1>3, <2>1, <2>2, <2>3, <2>4 DEF AssembleWinner
<1> QED
  BY <1>1, <1>2, <1>3 DEF Choosing

-----------------------------------------------------------------------------
(* Writing one directory over another.                                       *)

\* A text takes its place; a file that was there stays a file.
LEMMA OverlayKeeps ==
  \A d, e \in Files :
    /\ Present(d) \subseteq Present(Overlay(d, e))
    /\ \A n \in Names : d[n] # NoFile => Overlay(d, e)[n] # NoFile
  BY BuilderAssumption DEF Files, Overlay, Present

\* Written twice is written once; what an empty directory gets is what is written.
LEMMA OverlayTwice ==
  \A d, e \in Files : Overlay(Overlay(d, e), e) = Overlay(d, e) /\ Overlay(Empty, e) = e
  BY DEF Files, Overlay, Empty

\* A directory that holds what is written does not change, not even when part of it is refused.
LEMMA OverlayEqual ==
  \A d \in Files : Overlay(d, d) = d
  BY DEF Files, Overlay

\* What replaces all of an earlier writing leaves nothing of it.
LEMMA OverlayCovers ==
  ASSUME NEW d \in Files, NEW e \in Files, NEW f \in Files, Present(e) \subseteq Present(f)
  PROVE  Overlay(Overlay(d, e), f) = Overlay(d, f)
  BY DEF Files, Overlay, Present

LEMMA OverlayForgets ==
  ASSUME NEW d \in Files, NEW e \in Files, NEW n \in Names, e[n] # NoFile, NEW k \in Codes
  PROVE  Overlay([d EXCEPT ![n] = k], e) = Overlay(d, e)
  BY DEF Files, Overlay

\* The same change to the disk and to the dict.
LEMMA ChangedBoth ==
  ASSUME NEW d \in Files, NEW e \in Files, NEW c \in Files, Overlay(d, e) = d
  PROVE  Overlay(Overlay(d, c), Overlay(e, c)) = Overlay(d, c)
<1>1. \A m \in Names : e[m] # NoFile => d[m] = e[m]
  BY DEF Files, Overlay
<1> QED
  BY <1>1 DEF Files, Overlay

LEMMA OnlyEntry == \A k \in Codes : Only(k)[Entry] # NoFile
  BY BuilderAssumption DEF Only, Empty

\* Entry is a file name and no text is NoFile.
LEMMA EntryIsName == Entry \in Names /\ NoFile \notin Codes
  BY BuilderAssumption

\* A fix rewrites a module there is: on disk, in the dict, and nothing else.
LEMMA FixWrites ==
  ASSUME TypeOK, NEW c \in Checks, NEW n \in Names, NEW k \in Codes, FixCheck(c, n, k)
  PROVE  /\ Present(built') = Present(built)
         /\ \A m \in Names : built[m] # NoFile => built'[m] # NoFile
         /\ Holds(built) => Holds(built)'
         /\ disk = built => disk' = built'
         /\ \A e \in Files : Present(e) = Present(built) => Overlay(disk', e) = Overlay(disk, e)
<1>1. /\ disk \in Files /\ built \in Files /\ built[n] # NoFile
      /\ disk' = [disk EXCEPT ![n] = k]
      /\ built' = [built EXCEPT ![n] = k]
  BY DEF TypeOK, FixCheck, AllLand
<1>2. \A m \in Names : built[m] # NoFile => built'[m] # NoFile
  BY <1>1, BuilderAssumption DEF Files
<1>3. Present(built') = Present(built)
  BY <1>1, BuilderAssumption DEF Files, Present
<1>4. Holds(built) => Holds(built)'
  <2>1. disk' \in Files /\ built' \in Files
    BY <1>1, WriteTyped
  <2>2. Holds(built) => \A m \in Names : built[m] # NoFile => disk[m] = built[m]
    BY <1>1 DEF Files, Overlay, Holds
  <2>3. Holds(built) => \A m \in Names : built'[m] # NoFile => disk'[m] = built'[m]
    BY <1>1, <2>2 DEF Files
  <2> QED
    BY <2>1, <2>3 DEF Files, Overlay, Holds
<1>5. ASSUME NEW e \in Files, Present(e) = Present(built)
      PROVE  Overlay(disk', e) = Overlay(disk, e)
  <2>1. e[n] # NoFile
    BY <1>1, <1>5 DEF Present
  <2> QED
    BY <1>1, <2>1, OverlayForgets
<1> QED
  BY <1>1, <1>2, <1>3, <1>4, <1>5

\* A directory is replaced by one with the same files.
LEMMA OverlayReplaces ==
  ASSUME NEW d \in Files, NEW e \in Files, Present(d) \subseteq Present(e)
  PROVE  Overlay(d, e) = e
  BY DEF Files, Overlay, Present

\* What is rolled back is there again, unless a write was lost.
LEMMA RolledBack ==
  ASSUME NEW after, RollBack(after), ~lost'
  PROVE  ~lost /\ disk' = after
  BY DEF RollBack, AllLand

\* Refusing to write what is there already changes nothing.
LEMMA RefusedSame ==
  ASSUME disk \in Files, NEW S \in SUBSET Names, NEW after, after = disk, Refused(after, S)
  PROVE  disk' = disk
  BY DEF Refused, Landed, Files

\* A replacement that is adopted is the program, on disk and in the dict.
LEMMA AdoptSwaps ==
  ASSUME TypeOK, NEW k \in Codes, NEW required, NEW tag, Adopt(k, required, tag)
  PROVE  /\ Holds(built)' /\ built'[Entry] # NoFile
         /\ Unmet(disk', required) = {} /\ unmet' = {} /\ path' = tag /\ lost' = lost
         /\ disk = built => disk' = built'
<1>1. disk' = Swapped(k) /\ built' = Only(k) /\ Unmet(disk', required) = {}
  BY DEF Adopt, AllLand
<1>2. Holds(built)'
  BY <1>1, EntryIsName DEF TypeOK, Files, Holds, Overlay, Only, Empty, Swapped
<1>3. disk = built => disk' = built'
  BY <1>1, EntryIsName DEF TypeOK, Files, Only, Empty, Swapped
<1> QED
  BY <1>1, <1>2, <1>3, OnlyEntry DEF Adopt, AllLand

\* One that is not leaves the modules there were, unless a write was lost.
LEMMA AdoptFailsKeeps ==
  ASSUME TypeOK, NEW k, NEW required, AdoptFails(k, required), ~lost',
         Holds(built), built[Entry] # NoFile
  PROVE  ~lost /\ disk' = disk /\ built' = built /\ unmet' = unmet /\ path' = path
<1>1. Unswapped = disk
  BY EntryIsName DEF TypeOK, Files, Holds, Overlay, Unswapped
<1>2. CASE RollBack(Unswapped)
  BY <1>1, <1>2, RolledBack DEF AdoptFails
<1>3. CASE ~RollBack(Unswapped)
  BY <1>1, <1>3 DEF AdoptFails
<1> QED
  BY <1>2, <1>3

-----------------------------------------------------------------------------
(* Every step keeps every part of it.                                      *)

\* Which command is at which stage.
LEMMA ControlKept == TypeOK /\ Control /\ Next => Control'
<1> SUFFICES ASSUME TypeOK, Control, Next PROVE Control'
  OBVIOUS
<1> USE DEF TypeOK, Control, Governing, Replanning, Standing, Loops, Tasks, Results, plan, ghosts,
        Return, End, NoLoop, Left, Between, AfterRepair, AfterEdit, Adopt, AdoptFails, AllLand,
        NoResult, Result
<1>1. CASE PlanFails \/ Build \/ SyntaxRescue \/ BuildFails \/ Assemble \/ AssembleRefused \/
         NotVerifiable \/ ServeAndCheck \/ Accept
  BY <1>1 DEF PlanFails, Build, SyntaxRescue, BuildFails, Assemble, AssembleRefused,
         NotVerifiable, ServeAndCheck, Accept
<1>2. CASE StartRound \/ StopRepair \/ RepairCallRaises \/ RevertRound \/ KeepRound
  BY <1>2 DEF StartRound, StopRepair, RepairCallRaises, RevertRound, KeepRound
<1>3. ASSUME NEW c \in Checks, SkipCheck(c) PROVE Control'
  BY <1>3 DEF SkipCheck
<1>4. ASSUME NEW c \in Checks, NEW n \in Names, NEW k \in Codes, FixCheck(c, n, k)
      PROVE  Control'
  BY <1>4 DEF FixCheck
<1>5. CASE RetryAsSingleFile
  BY <1>5 DEF RetryAsSingleFile
<1>6. CASE NoSingleFile
  BY <1>6 DEF NoSingleFile
<1>7. CASE StartReplan
  BY <1>7 DEF StartReplan
<1>8. CASE StopReplan
  BY <1>8 DEF StopReplan
<1>9. CASE KeepReplan
  BY <1>9 DEF KeepReplan
<1>10. CASE RejectReplan
  BY <1>10 DEF RejectReplan
<1>11. CASE RepairWithLeaf
  BY <1>11 DEF RepairWithLeaf
<1>12. CASE NoLeaf
  BY <1>12 DEF NoLeaf
<1>13. CASE Finish
  BY <1>13 DEF Finish
<1>14. CASE TakeBaseline \/ BaselineRefused \/ NothingToChange \/ Change \/ ChangeRefused \/
         RevertChange \/ KeepChange \/ KeepImprovement \/ UndoImprovement \/ StopImproving
  BY <1>14 DEF TakeBaseline, BaselineRefused, NothingToChange, Change, ChangeRefused,
         RevertChange, KeepChange, KeepImprovement, UndoImprovement, StopImproving
<1>15. CASE Report \/ Escalate \/ StayOnPrimary \/ ChooseBetter \/ NotGoverned \/ KeepGoverned \/
         RestoreBaseline
  BY <1>15 DEF Report, Escalate, StayOnPrimary, ChooseBetter, NotGoverned, KeepGoverned,
         RestoreBaseline
<1>16. CASE Govern
  <2>1. checks' \subseteq Checks
    BY <1>16 DEF Govern
  <2>2. unmet' \subseteq Checks
    BY <1>16, <2>1, UnmetTyped DEF Govern
  <2>3. first'.unmet = unmet'
    BY <1>16 DEF Govern
  <2> QED
    BY <1>16, <2>2, <2>3 DEF Govern
<1>17. CASE ScoreAttempt \/ NextAttempt \/ AssembleWinner
  BY <1>17 DEF ScoreAttempt, NextAttempt, AssembleWinner
<1> QED
  BY <1>1, <1>2, <1>3, <1>4, <1>5, <1>6, <1>7, <1>8, <1>9, <1>10, <1>11, <1>12, <1>13, <1>14,
     <1>15, <1>16, <1>17
  DEF Next, Building, Repairing, Replacing, Modifying, Calling, Choosing

\* The versions of the program.
LEMMA CompleteKept == TypeOK /\ Control /\ Complete /\ Next => Complete'
<1> SUFFICES ASSUME TypeOK, Control, Complete, Next PROVE Complete'
  OBVIOUS
<1> USE DEF TypeOK, Control, Complete, Governing, Replanning, Standing, Loops, Tasks, Edits,
        NoEdit, plan, ghosts, Return, End, NoLoop, Left, Between, AfterRepair, AfterEdit, Adopt,
        AdoptFails, AllLand, NoResult, Result
<1>1. CASE PlanFails \/ BuildFails \/ Assemble \/ AssembleRefused \/ NotVerifiable \/
         ServeAndCheck \/ Accept
  BY <1>1 DEF PlanFails, BuildFails, Assemble, AssembleRefused, NotVerifiable, ServeAndCheck,
         Accept
<1>2. CASE Build
  BY <1>2 DEF Build, Present
<1>3. CASE SyntaxRescue
  BY <1>3, OnlyEntry DEF SyntaxRescue
<1>4. CASE StartRound \/ StopRepair \/ RepairCallRaises \/ RevertRound \/ KeepRound
  BY <1>4 DEF StartRound, StopRepair, RepairCallRaises, RevertRound, KeepRound
<1>5. ASSUME NEW c \in Checks, SkipCheck(c) PROVE Complete'
  BY <1>5 DEF SkipCheck
<1>6. ASSUME NEW c \in Checks, NEW n \in Names, NEW k \in Codes, FixCheck(c, n, k)
      PROVE  Complete'
  <2>1. /\ Present(built') = Present(built)
        /\ built[Entry] # NoFile => built'[Entry] # NoFile
    BY <1>6, FixWrites, EntryIsName
  <2> QED
    BY <1>6, <2>1 DEF FixCheck
<1>7. CASE NoSingleFile \/ StartReplan \/ StopReplan \/ KeepReplan \/ RejectReplan \/
         RepairWithLeaf \/ NoLeaf \/ Finish
  BY <1>7 DEF NoSingleFile, StartReplan, StopReplan, KeepReplan, RejectReplan, RepairWithLeaf,
         NoLeaf, Finish
<1>8. CASE RetryAsSingleFile
  BY <1>8, OnlyEntry DEF RetryAsSingleFile
<1>9. CASE TakeBaseline \/ BaselineRefused \/ NothingToChange \/ ChangeRefused \/ RevertChange \/
         KeepChange \/ UndoImprovement \/ StopImproving
  BY <1>9 DEF TakeBaseline, BaselineRefused, NothingToChange, ChangeRefused, RevertChange,
         KeepChange, UndoImprovement, StopImproving
<1>10. CASE Change
  <2>1. PICK d \in Files : edit' = [edit EXCEPT !.modules = Overlay(edit.before, d),
                                   !.changed = Present(d) \cap Present(edit.before)]
    BY <1>10 DEF Change, Changes
  <2>2. /\ edit'.before = edit.before
        /\ edit'.modules = Overlay(edit.before, d)
    BY <2>1
  <2> QED
    BY <1>10, <2>2, OverlayKeeps, EntryIsName DEF Change
<1>11. CASE KeepImprovement
  <2>1. PICK d \in Files : edit' = [edit EXCEPT !.modules = Overlay(@, d), !.round = @ + 1]
    BY <1>11 DEF KeepImprovement, Regenerated, Changes
  <2>2. /\ edit'.before = edit.before
        /\ edit'.modules = Overlay(edit.modules, d)
    BY <2>1
  <2> QED
    BY <1>11, <2>2, OverlayKeeps, EntryIsName DEF KeepImprovement
<1>12. CASE Report \/ Escalate \/ StayOnPrimary \/ ChooseBetter \/ NotGoverned \/ Govern \/
         KeepGoverned \/ RestoreBaseline
  BY <1>12 DEF Report, Escalate, StayOnPrimary, ChooseBetter, NotGoverned, Govern, KeepGoverned,
         RestoreBaseline
<1>13. CASE ScoreAttempt \/ NextAttempt \/ AssembleWinner
  BY <1>13 DEF ScoreAttempt, NextAttempt, AssembleWinner
<1> QED
  BY <1>1, <1>2, <1>3, <1>4, <1>5, <1>6, <1>7, <1>8, <1>9, <1>10, <1>11, <1>12, <1>13
  DEF Next, Building, Repairing, Replacing, Modifying, Calling, Choosing

\* The dict and the directory.
LEMMA SyncedKept == TypeOK /\ Control /\ Complete /\ Synced /\ Next => Synced'
<1> SUFFICES ASSUME TypeOK, Control, Complete, Synced, Next PROVE Synced'
  OBVIOUS
<1> USE DEF TypeOK, Control, Complete, Synced, Governing, Replanning, Standing, Loops, Tasks,
        Edits, NoEdit, Holds, AllLand, plan, ghosts, Return, End, NoLoop, Left, Between,
        AfterRepair, AfterEdit, NoResult, Result
<1>1. CASE PlanFails \/ Build \/ SyntaxRescue \/ BuildFails \/ AssembleRefused \/ NotVerifiable \/
         ServeAndCheck \/ Accept
  BY <1>1 DEF PlanFails, Build, SyntaxRescue, BuildFails, AssembleRefused, NotVerifiable,
         ServeAndCheck, Accept
<1>2. CASE Assemble
  BY <1>2, OverlayTwice DEF Assemble
<1>3. CASE StartRound \/ StopRepair \/ RepairCallRaises \/ KeepRound
  BY <1>3 DEF StartRound, StopRepair, RepairCallRaises, KeepRound
<1>4. ASSUME NEW c \in Checks, SkipCheck(c) PROVE Synced'
  BY <1>4 DEF SkipCheck
<1>5. CASE RevertRound
  <2>1. ~lost' => ~lost /\ disk' = Overlay(disk, loop.built)
    BY <1>5, RolledBack DEF RevertRound
  <2> QED
    BY <1>5, <2>1, OverlayTwice DEF RevertRound
<1>6. ASSUME NEW c \in Checks, NEW n \in Names, NEW k \in Codes, FixCheck(c, n, k)
      PROVE  Synced'
  <2>1. Holds(built) => Holds(built)'
    BY <1>6, FixWrites
  <2> QED
    BY <1>6, <2>1 DEF FixCheck
<1>7. CASE NoSingleFile \/ StartReplan
  BY <1>7 DEF NoSingleFile, StartReplan
<1>8. CASE StopReplan \/ KeepReplan
  BY <1>8 DEF StopReplan, KeepReplan
<1>9. CASE NoLeaf \/ Finish
  BY <1>9 DEF NoLeaf, Finish
<1>10. CASE RetryAsSingleFile
  <2>1. PICK k \in Codes : Adopt(k, SingleChecks, "single-file-retry") \/ AdoptFails(k, SingleChecks)
    BY <1>10 DEF RetryAsSingleFile
  <2>2. ~lost /\ ~lost' /\ Holds(built) => Holds(built)'
    BY <1>10, <2>1, AdoptSwaps, AdoptFailsKeeps DEF RetryAsSingleFile
  <2>3. ~lost' => ~lost
    BY <2>1, RolledBack DEF Adopt, AdoptFails
  <2> QED
    BY <1>10, <2>2, <2>3 DEF RetryAsSingleFile
<1>11. CASE RejectReplan
  <2>1. ~lost' => ~lost /\ disk' = Overlay(disk, loop.built)
    BY <1>11, RolledBack DEF RejectReplan
  <2> QED
    BY <1>11, <2>1, OverlayTwice DEF RejectReplan
<1>12. CASE RepairWithLeaf
  <2>1. PICK k \in Codes : Adopt(k, SingleMinimum, "leaf") \/ AdoptFails(k, SingleMinimum)
    BY <1>12 DEF RepairWithLeaf
  <2>2. ~lost /\ ~lost' /\ Holds(built) => Holds(built)'
    BY <1>12, <2>1, AdoptSwaps, AdoptFailsKeeps DEF RepairWithLeaf
  <2>3. ~lost' => ~lost
    BY <2>1, RolledBack DEF Adopt, AdoptFails
  <2> QED
    BY <1>12, <2>2, <2>3 DEF RepairWithLeaf
<1>13. CASE NothingToChange \/ KeepChange \/ UndoImprovement \/ StopImproving
  BY <1>13 DEF NothingToChange, KeepChange, UndoImprovement, StopImproving
<1>14. CASE TakeBaseline
  BY <1>14, OverlayTwice DEF TakeBaseline
<1>15. CASE BaselineRefused
  <2>1. Replanning /\ ~lost => disk' = disk
    BY <1>15, RefusedSame DEF BaselineRefused
  <2> QED
    BY <1>15, <2>1 DEF BaselineRefused
<1>16. CASE Change
  <2>1. PICK d \in Files : /\ disk' = Overlay(disk, d)
                          /\ edit' = [edit EXCEPT !.modules = Overlay(edit.before, d),
                                      !.changed = Present(d) \cap Present(edit.before)]
    BY <1>16 DEF Change, Changes
  <2>2. edit'.modules = Overlay(edit.before, d)
    BY <2>1
  <2>3. Replanning /\ ~lost => Overlay(disk', edit'.modules) = disk'
    BY <1>16, <2>1, <2>2, ChangedBoth DEF Change
  <2> QED
    BY <1>16, <2>3 DEF Change
<1>17. CASE ChangeRefused
  <2>1. PICK d \in Changes :
          disk' = [n \in Names |-> IF d[n] # NoFile THEN edit.before[n] ELSE disk[n]]
    BY <1>17 DEF ChangeRefused
  <2>2. Replanning /\ ~lost => Overlay(disk', edit.before) = disk'
    BY <1>17, <2>1 DEF ChangeRefused, Files, Overlay
  <2> QED
    BY <1>17, <2>2 DEF ChangeRefused
<1>18. CASE RevertChange
  <2>1. ~lost' => ~lost /\ disk' = Undone
    BY <1>18, RolledBack DEF RevertChange
  <2>2. Overlay(Undone, edit.before) = Undone
    BY <1>18 DEF RevertChange, Undone, Files, Overlay, Present
  <2> QED
    BY <1>18, <2>1, <2>2 DEF RevertChange
<1>19. CASE KeepImprovement
  <2>1. PICK d \in Files : /\ disk' = Overlay(disk, d)
                          /\ edit' = [edit EXCEPT !.modules = Overlay(@, d), !.round = @ + 1]
    BY <1>19 DEF KeepImprovement, Regenerated, Changes
  <2>2. edit'.modules = Overlay(edit.modules, d)
    BY <2>1
  <2>3. Replanning /\ ~lost => Overlay(disk', edit'.modules) = disk'
    BY <1>19, <2>1, <2>2, ChangedBoth DEF KeepImprovement
  <2> QED
    BY <1>19, <2>3 DEF KeepImprovement
<1>20. CASE Report \/ Escalate \/ StayOnPrimary \/ ChooseBetter \/ NotGoverned \/ Govern \/
         KeepGoverned \/ RestoreBaseline
  BY <1>20 DEF Report, Escalate, StayOnPrimary, ChooseBetter, NotGoverned, Govern, KeepGoverned,
         RestoreBaseline
<1>21. CASE ScoreAttempt \/ NextAttempt \/ AssembleWinner
  BY <1>21 DEF ScoreAttempt, NextAttempt, AssembleWinner
<1> QED
  BY <1>1, <1>2, <1>3, <1>4, <1>5, <1>6, <1>7, <1>8, <1>9, <1>10, <1>11, <1>12, <1>13, <1>14,
     <1>15, <1>16, <1>17, <1>18, <1>19, <1>20, <1>21
  DEF Next, Building, Repairing, Replacing, Modifying, Calling, Choosing

\* What is recorded as unmet.
LEMMA RecordedKept == TypeOK /\ Control /\ Complete /\ Synced /\ Recorded /\ Next => Recorded'
<1> SUFFICES ASSUME TypeOK, Control, Complete, Synced, Recorded, Next PROVE Recorded'
  OBVIOUS
<1> USE DEF TypeOK, Control, Recorded, Gating, SingleChecks, AcceptanceRepaired, Governing, Replanning, Standing, Loops,
        Tasks, plan, ghosts, Return, End, NoLoop, Left, Between, AfterRepair, AfterEdit, NoResult,
        Result
<1>1. CASE PlanFails \/ Build \/ SyntaxRescue \/ BuildFails \/ Assemble \/ AssembleRefused \/
         NotVerifiable \/ ServeAndCheck \/ Accept
  BY <1>1 DEF PlanFails, Build, SyntaxRescue, BuildFails, Assemble, AssembleRefused,
         NotVerifiable, ServeAndCheck, Accept
<1>2. CASE StopRepair \/ RepairCallRaises
  BY <1>2 DEF StopRepair, RepairCallRaises
<1>3. ASSUME NEW c \in Checks, SkipCheck(c) PROVE Recorded'
  BY <1>3 DEF SkipCheck
<1>4. CASE StartRound
  BY <1>4 DEF StartRound, Synced, Holds
<1>5. CASE RevertRound
  <2>1. ~lost' => ~lost /\ disk' = Overlay(disk, loop.built)
    BY <1>5, RolledBack DEF RevertRound
  <2> QED
    BY <1>5, <2>1 DEF RevertRound
<1>6. CASE KeepRound
  <2>1. unmet' = Unmet(disk, checks) /\ unmet' \subseteq loop.unmet
    BY <1>6 DEF KeepRound, Regressed, Unmet
  <2> QED
    BY <1>6, <2>1 DEF KeepRound
<1>7. ASSUME NEW c \in Checks, NEW n \in Names, NEW k \in Codes, FixCheck(c, n, k)
      PROVE  Recorded'
  <2>1. Overlay(disk', loop.built) = Overlay(disk, loop.built)
    BY <1>7, FixWrites DEF FixCheck, Complete
  <2> QED
    BY <1>7, <2>1 DEF FixCheck, AllLand
<1>8. CASE NoSingleFile \/ StartReplan \/ StopReplan \/ KeepReplan \/ NoLeaf \/ Finish
  BY <1>8 DEF NoSingleFile, StartReplan, StopReplan, KeepReplan, NoLeaf, Finish
<1>9. CASE RetryAsSingleFile
  <2>1. PICK k \in Codes : Adopt(k, SingleChecks, "single-file-retry") \/ AdoptFails(k, SingleChecks)
    BY <1>9 DEF RetryAsSingleFile
  <2>2. CASE Adopt(k, SingleChecks, "single-file-retry")
    <3>1. /\ Unmet(disk', SingleChecks) = {} /\ unmet' = {} /\ lost' = lost
          /\ path' = "single-file-retry"
      BY <2>2, AdoptSwaps
    <3>2. checks' = checks /\ mods' = mods /\ pc' = "replan"
      BY <1>9 DEF RetryAsSingleFile
    <3> QED
      BY <1>9, <3>1, <3>2
  <2>3. CASE AdoptFails(k, SingleChecks)
    <3>1. ~lost' => ~lost
      BY <2>3, RolledBack DEF AdoptFails
    <3>2. ~lost' => disk' = disk /\ unmet' = unmet /\ path' = path
      BY <1>9, <2>3, <3>1, AdoptFailsKeeps DEF RetryAsSingleFile, Complete, Synced
    <3> QED
      BY <1>9, <3>1, <3>2 DEF RetryAsSingleFile
  <2> QED
    BY <2>1, <2>2, <2>3
<1>10. CASE RejectReplan
  <2>1. ~lost' => ~lost
    BY <1>10, RolledBack DEF RejectReplan
  <2> QED
    BY <1>10, <2>1 DEF RejectReplan
<1>11. CASE RepairWithLeaf
  <2>1. PICK k \in Codes : Adopt(k, SingleMinimum, "leaf") \/ AdoptFails(k, SingleMinimum)
    BY <1>11 DEF RepairWithLeaf
  <2>2. CASE Adopt(k, SingleMinimum, "leaf")
    <3>1. Unmet(disk', SingleMinimum) = {} /\ path' = "leaf"
      BY <2>2, AdoptSwaps
    <3> QED
      BY <1>11, <3>1 DEF RepairWithLeaf
  <2>3. CASE AdoptFails(k, SingleMinimum)
    <3>1. ~lost' => ~lost
      BY <2>3, RolledBack DEF AdoptFails
    <3>2. ~lost' => disk' = disk /\ unmet' = unmet /\ path' = path
      BY <1>11, <2>3, <3>1, AdoptFailsKeeps DEF RepairWithLeaf, Complete, Synced
    <3> QED
      BY <1>11, <3>1, <3>2 DEF RepairWithLeaf
  <2> QED
    BY <2>1, <2>2, <2>3
<1>12. CASE TakeBaseline \/ BaselineRefused \/ NothingToChange \/ Change \/ ChangeRefused \/
         RevertChange \/ KeepChange \/ KeepImprovement \/ UndoImprovement \/ StopImproving
  BY <1>12 DEF TakeBaseline, BaselineRefused, NothingToChange, Change, ChangeRefused,
         RevertChange, KeepChange, KeepImprovement, UndoImprovement, StopImproving
<1>13. CASE Report \/ Escalate \/ StayOnPrimary \/ ChooseBetter \/ NotGoverned \/ Govern \/
         KeepGoverned \/ RestoreBaseline
  BY <1>13 DEF Report, Escalate, StayOnPrimary, ChooseBetter, NotGoverned, Govern, KeepGoverned,
         RestoreBaseline
<1>14. CASE ScoreAttempt \/ NextAttempt \/ AssembleWinner
  BY <1>14 DEF ScoreAttempt, NextAttempt, AssembleWinner
<1> QED
  BY <1>1, <1>2, <1>3, <1>4, <1>5, <1>6, <1>7, <1>8, <1>9, <1>10, <1>11, <1>12, <1>13, <1>14
  DEF Next, Building, Repairing, Replacing, Modifying, Calling, Choosing

\* The floor of a governed repair.
LEMMA FlooredKept == TypeOK /\ Control /\ Complete /\ Synced /\ Floored /\ Next => Floored'
<1> SUFFICES ASSUME TypeOK, Control, Complete, Synced, Floored, Next PROVE Floored'
  OBVIOUS
<1> USE DEF TypeOK, Control, Floored, Governing, Loops, Results, Tasks, plan, ghosts, Return, End,
        NoLoop, Left, Between, AfterRepair, AfterEdit, NoResult, Result
<1>1. CASE PlanFails \/ Build \/ SyntaxRescue \/ BuildFails \/ Assemble \/ AssembleRefused \/
         NotVerifiable \/ ServeAndCheck \/ Accept
  BY <1>1 DEF PlanFails, Build, SyntaxRescue, BuildFails, Assemble, AssembleRefused,
         NotVerifiable, ServeAndCheck, Accept
<1>2. CASE StartRound \/ StopRepair \/ RepairCallRaises \/ KeepRound
  BY <1>2 DEF StartRound, StopRepair, RepairCallRaises, KeepRound
<1>3. ASSUME NEW c \in Checks, SkipCheck(c) PROVE Floored'
  BY <1>3 DEF SkipCheck
<1>4. CASE RevertRound
  <2>1. ~lost' => ~lost /\ disk' = Overlay(disk, loop.built)
    BY <1>4, RolledBack DEF RevertRound
  <2>2. Governing /\ ~lost => Overlay(Overlay(disk, loop.built), first.modules) = Overlay(disk, first.modules)
    BY <1>4, OverlayCovers DEF RevertRound, Complete
  <2> QED
    BY <1>4, <2>1, <2>2 DEF RevertRound, Complete
<1>5. ASSUME NEW c \in Checks, NEW n \in Names, NEW k \in Codes, FixCheck(c, n, k)
      PROVE  Floored'
  <2>1. /\ Present(built') = Present(built)
        /\ Governing /\ ~lost => Overlay(disk', first.modules) = Overlay(disk, first.modules)
    BY <1>5, FixWrites DEF FixCheck
  <2> QED
    BY <1>5, <2>1 DEF FixCheck, AllLand
<1>6. CASE RetryAsSingleFile \/ NoSingleFile \/ StartReplan \/ StopReplan \/ KeepReplan \/
         RejectReplan \/ RepairWithLeaf \/ NoLeaf \/ Finish
  BY <1>6 DEF RetryAsSingleFile, NoSingleFile, StartReplan, StopReplan, KeepReplan, RejectReplan,
         RepairWithLeaf, NoLeaf, Finish
<1>7. CASE TakeBaseline \/ BaselineRefused \/ NothingToChange \/ Change \/ ChangeRefused \/
         RevertChange \/ KeepChange \/ KeepImprovement \/ UndoImprovement \/ StopImproving
  BY <1>7 DEF TakeBaseline, BaselineRefused, NothingToChange, Change, ChangeRefused, RevertChange,
         KeepChange, KeepImprovement, UndoImprovement, StopImproving
<1>8. CASE Report \/ Escalate \/ StayOnPrimary \/ ChooseBetter \/ NotGoverned \/ KeepGoverned
  BY <1>8 DEF Report, Escalate, StayOnPrimary, ChooseBetter, NotGoverned, KeepGoverned
<1>9. CASE Govern
  <2>1. /\ first'.modules = result.modules /\ first'.unmet = unmet'
        /\ pc' = "repair" /\ disk' = disk /\ lost' = lost
        /\ built' = result.modules /\ floor' = unmet' /\ unmet' = Unmet(disk, checks')
    BY <1>9 DEF Govern
  <2>2. ~lost => Overlay(disk, result.modules) = disk
    BY <1>9 DEF Govern, Synced, Holds
  <2> QED
    BY <2>1, <2>2
<1>10. CASE RestoreBaseline
  <2>1. ~lost' => ~lost /\ disk' = Overlay(disk, first.modules)
    BY <1>10, RolledBack DEF RestoreBaseline
  <2>2. Governing /\ ~lost' => /\ Unmet(disk', checks) = first.unmet /\ floor = first.unmet
                             /\ first.unmet \subseteq Checks
    BY <1>10, <2>1 DEF RestoreBaseline
  <2>3. Governing /\ ~lost' => Cardinality(first.unmet) \in Nat
    BY <2>2, CountTyped
  <2> QED
    BY <1>10, <2>2, <2>3 DEF RestoreBaseline
<1>11. CASE ScoreAttempt \/ NextAttempt \/ AssembleWinner
  BY <1>11 DEF ScoreAttempt, NextAttempt, AssembleWinner
<1> QED
  BY <1>1, <1>2, <1>3, <1>4, <1>5, <1>6, <1>7, <1>8, <1>9, <1>10, <1>11
  DEF Next, Building, Repairing, Replacing, Modifying, Calling, Choosing

\* The attempts of build_system_best_of_k.
LEMMA AloneKept == TypeOK /\ Control /\ Complete /\ Alone /\ Next => Alone'
<1> SUFFICES ASSUME TypeOK, Control, Complete, Alone, Next PROVE Alone'
  OBVIOUS
<1> USE DEF TypeOK, Control, Alone, Governing, Replanning, Loops, Results, Tasks, plan, ghosts,
        Return, End, NoLoop, Left, Between, AfterRepair, AfterEdit, NoResult, Result
<1>1. CASE PlanFails \/ Build \/ SyntaxRescue \/ BuildFails \/ AssembleRefused \/ NotVerifiable \/
         ServeAndCheck \/ Accept
  BY <1>1 DEF PlanFails, Build, SyntaxRescue, BuildFails, AssembleRefused, NotVerifiable,
         ServeAndCheck, Accept
<1>2. CASE Assemble
  BY <1>2, OverlayTwice DEF Assemble, AllLand
<1>3. CASE StartRound \/ StopRepair \/ RepairCallRaises \/ KeepRound
  BY <1>3 DEF StartRound, StopRepair, RepairCallRaises, KeepRound
<1>4. ASSUME NEW c \in Checks, SkipCheck(c) PROVE Alone'
  BY <1>4 DEF SkipCheck
<1>5. CASE RevertRound
  <2>1. ~lost' => ~lost /\ disk' = Overlay(disk, loop.built)
    BY <1>5, RolledBack DEF RevertRound
  <2>2. disk = built => Overlay(disk, loop.built) = loop.built
    BY <1>5, OverlayReplaces DEF RevertRound, Complete
  <2> QED
    BY <1>5, <2>1, <2>2 DEF RevertRound
<1>6. ASSUME NEW c \in Checks, NEW n \in Names, NEW k \in Codes, FixCheck(c, n, k)
      PROVE  Alone'
  <2>1. disk = built => disk' = built'
    BY <1>6, FixWrites
  <2> QED
    BY <1>6, <2>1 DEF FixCheck, AllLand
<1>7. CASE NoSingleFile \/ StartReplan \/ StopReplan \/ KeepReplan \/ RejectReplan \/ NoLeaf \/
         Finish
  BY <1>7 DEF NoSingleFile, StartReplan, StopReplan, KeepReplan, RejectReplan, NoLeaf, Finish
<1>8. CASE RetryAsSingleFile
  <2>1. PICK k \in Codes : Adopt(k, SingleChecks, "single-file-retry") \/ AdoptFails(k, SingleChecks)
    BY <1>8 DEF RetryAsSingleFile
  <2>2. CASE Adopt(k, SingleChecks, "single-file-retry")
    <3>1. lost' = lost /\ (disk = built => disk' = built')
      BY <2>2, AdoptSwaps
    <3> QED
      BY <1>8, <3>1 DEF RetryAsSingleFile
  <2>3. CASE AdoptFails(k, SingleChecks)
    <3>1. ~lost' => ~lost
      BY <2>3, RolledBack DEF AdoptFails
    <3>2. disk = built => Holds(built)
      BY OverlayEqual DEF Holds
    <3>3. ~lost' /\ disk = built => disk' = disk /\ built' = built
      BY <1>8, <2>3, <3>2, AdoptFailsKeeps DEF RetryAsSingleFile, Complete, Standing
    <3> QED
      BY <1>8, <3>1, <3>3 DEF RetryAsSingleFile
  <2> QED
    BY <2>1, <2>2, <2>3
<1>9. CASE RepairWithLeaf
  <2>1. PICK k \in Codes : Adopt(k, SingleMinimum, "leaf") \/ AdoptFails(k, SingleMinimum)
    BY <1>9 DEF RepairWithLeaf
  <2>2. CASE Adopt(k, SingleMinimum, "leaf")
    <3>1. lost' = lost /\ (disk = built => disk' = built')
      BY <2>2, AdoptSwaps
    <3> QED
      BY <1>9, <3>1 DEF RepairWithLeaf
  <2>3. CASE AdoptFails(k, SingleMinimum)
    <3>1. ~lost' => ~lost
      BY <2>3, RolledBack DEF AdoptFails
    <3>2. disk = built => Holds(built)
      BY OverlayEqual DEF Holds
    <3>3. ~lost' /\ disk = built => disk' = disk /\ built' = built
      BY <1>9, <2>3, <3>2, AdoptFailsKeeps DEF RepairWithLeaf, Complete, Standing
    <3> QED
      BY <1>9, <3>1, <3>3 DEF RepairWithLeaf
  <2> QED
    BY <2>1, <2>2, <2>3
<1>10. CASE TakeBaseline \/ BaselineRefused \/ NothingToChange \/ Change \/ ChangeRefused \/
         RevertChange \/ KeepChange \/ KeepImprovement \/ UndoImprovement \/ StopImproving
  BY <1>10 DEF TakeBaseline, BaselineRefused, NothingToChange, Change, ChangeRefused,
         RevertChange, KeepChange, KeepImprovement, UndoImprovement, StopImproving
<1>11. CASE Report \/ Escalate \/ StayOnPrimary \/ ChooseBetter \/ NotGoverned \/ Govern \/
         KeepGoverned \/ RestoreBaseline
  BY <1>11 DEF Report, Escalate, StayOnPrimary, ChooseBetter, NotGoverned, Govern, KeepGoverned,
         RestoreBaseline
<1>12. CASE ScoreAttempt \/ NextAttempt \/ AssembleWinner
  BY <1>12 DEF ScoreAttempt, NextAttempt, AssembleWinner
<1> QED
  BY <1>1, <1>2, <1>3, <1>4, <1>5, <1>6, <1>7, <1>8, <1>9, <1>10, <1>11, <1>12
  DEF Next, Building, Repairing, Replacing, Modifying, Calling, Choosing

\* /modifysystem.
LEMMA GatedKept == TypeOK /\ Control /\ Complete /\ Gated /\ Next => Gated'
<1> SUFFICES ASSUME TypeOK, Control, Complete, Gated, Next PROVE Gated'
  OBVIOUS
<1> USE DEF TypeOK, Control, Gated, Edits, NoEdit, Passing, Tasks, plan, ghosts, Return, End,
        NoLoop, Left, Between, AfterRepair, AfterEdit, NoResult, Result
<1>1. CASE PlanFails \/ Build \/ SyntaxRescue \/ BuildFails \/ Assemble \/ AssembleRefused \/
         NotVerifiable \/ ServeAndCheck \/ Accept
  BY <1>1 DEF PlanFails, Build, SyntaxRescue, BuildFails, Assemble, AssembleRefused,
         NotVerifiable, ServeAndCheck, Accept
<1>2. CASE StartRound \/ StopRepair \/ RepairCallRaises \/ RevertRound \/ KeepRound
  BY <1>2 DEF StartRound, StopRepair, RepairCallRaises, RevertRound, KeepRound
<1>3. ASSUME NEW c \in Checks, SkipCheck(c) PROVE Gated'
  BY <1>3 DEF SkipCheck
<1>4. ASSUME NEW c \in Checks, NEW n \in Names, NEW k \in Codes, FixCheck(c, n, k)
      PROVE  Gated'
  BY <1>4 DEF FixCheck
<1>5. CASE RetryAsSingleFile \/ NoSingleFile \/ StartReplan \/ StopReplan \/ KeepReplan \/
         RejectReplan \/ RepairWithLeaf \/ NoLeaf \/ Finish
  BY <1>5 DEF RetryAsSingleFile, NoSingleFile, StartReplan, StopReplan, KeepReplan, RejectReplan,
         RepairWithLeaf, NoLeaf, Finish
<1>6. CASE NothingToChange \/ UndoImprovement \/ StopImproving
  BY <1>6 DEF NothingToChange, UndoImprovement, StopImproving
<1>7. CASE TakeBaseline
  <2>1. Overlay(edit.before, edit.before) = edit.before
    BY OverlayEqual
  <2>2. edit'.before = edit.before /\ edit'.applied = edit.applied
    BY <1>7 DEF TakeBaseline
  <2> QED
    BY <1>7, <2>1, <2>2 DEF TakeBaseline, AllLand
<1>8. CASE BaselineRefused
  <2>1. Overlay(edit.before, edit.before) = edit.before
    BY OverlayEqual
  <2>2. disk = edit.before => disk' = disk
    BY <1>8, <2>1, RefusedSame DEF BaselineRefused
  <2> QED
    BY <1>8, <2>2 DEF BaselineRefused
<1>9. CASE Change
  <2>1. PICK d \in Files : /\ disk' = Overlay(disk, d)
                          /\ edit' = [edit EXCEPT !.modules = Overlay(edit.before, d),
                                      !.changed = Present(d) \cap Present(edit.before)]
    BY <1>9 DEF Change, Changes, AllLand
  <2>2. edit'.modules = Overlay(edit.before, d) /\ edit'.applied = edit.applied
    BY <2>1
  <2> QED
    BY <1>9, <2>1, <2>2 DEF Change, AllLand
<1>10. CASE ChangeRefused
  <2>1. PICK d \in Changes :
          disk' = [n \in Names |-> IF d[n] # NoFile THEN edit.before[n] ELSE disk[n]]
    BY <1>10 DEF ChangeRefused
  <2>2. disk = edit.before => disk' = edit.before
    BY <2>1 DEF Files
  <2> QED
    BY <1>10, <2>2 DEF ChangeRefused
<1>11. CASE RevertChange
  <2>1. ~lost' => ~lost /\ disk' = Undone
    BY <1>11, RolledBack DEF RevertChange
  <2>2. disk = edit.modules => Undone = edit.before
    BY <1>11 DEF RevertChange, Complete, Undone, Files, Present
  <2> QED
    BY <1>11, <2>1, <2>2 DEF RevertChange
<1>12. CASE KeepChange
  <2>1. /\ edit'.passing = edit.passing /\ edit'.applied
        /\ edit.passing \cap Fails(disk) = {} /\ disk' = disk /\ lost' = lost
        /\ pc' \in {"improve", AfterEdit}
    BY <1>12 DEF KeepChange, Regresses
  <2> QED
    BY <1>12, <2>1 DEF KeepChange
<1>13. CASE KeepImprovement
  <2>1. PICK d \in Files : /\ disk' = Overlay(disk, d) /\ Better(Overlay(disk, d))
                          /\ edit' = [edit EXCEPT !.modules = Overlay(@, d), !.round = @ + 1]
    BY <1>13 DEF KeepImprovement, Regenerated, Changes, AllLand
  <2>2. edit'.passing = edit.passing /\ edit'.applied = edit.applied
    BY <2>1
  <2>3. edit'.passing \cap Fails(disk') = {}
    BY <2>1, <2>2 DEF Better
  <2> QED
    BY <1>13, <2>2, <2>3 DEF KeepImprovement, AllLand
<1>14. CASE Report \/ Escalate \/ StayOnPrimary \/ ChooseBetter \/ NotGoverned \/ Govern \/
         KeepGoverned \/ RestoreBaseline
  BY <1>14 DEF Report, Escalate, StayOnPrimary, ChooseBetter, NotGoverned, Govern, KeepGoverned,
         RestoreBaseline
<1>15. CASE ScoreAttempt \/ NextAttempt \/ AssembleWinner
  BY <1>15 DEF ScoreAttempt, NextAttempt, AssembleWinner
<1> QED
  BY <1>1, <1>2, <1>3, <1>4, <1>5, <1>6, <1>7, <1>8, <1>9, <1>10, <1>11, <1>12, <1>13, <1>14,
     <1>15
  DEF Next, Building, Repairing, Replacing, Modifying, Calling, Choosing

\* What is returned.
LEMMA ReturnsKept == TypeOK /\ Control /\ Recorded /\ Floored /\ Alone /\ Returns /\ Next => Returns'
<1> SUFFICES ASSUME TypeOK, Control, Recorded, Floored, Alone, Returns, Next PROVE Returns'
  OBVIOUS
<1> USE DEF TypeOK, Control, Returns, Gate, Gating, SingleChecks, Results, Loops, Governing, Tasks, plan, ghosts,
        Return, End, NoLoop, Left, Between, AfterRepair, AfterEdit, NoResult, Result
<1>1. CASE PlanFails \/ Build \/ SyntaxRescue \/ BuildFails \/ Assemble \/ AssembleRefused \/
         NotVerifiable \/ Accept
  BY <1>1 DEF PlanFails, Build, SyntaxRescue, BuildFails, Assemble, AssembleRefused,
         NotVerifiable, Accept
<1>2. CASE ServeAndCheck
  BY <1>2 DEF ServeAndCheck, Standing
<1>3. CASE StartRound \/ StopRepair \/ RepairCallRaises \/ RevertRound \/ KeepRound
  BY <1>3 DEF StartRound, StopRepair, RepairCallRaises, RevertRound, KeepRound
<1>4. ASSUME NEW c \in Checks, SkipCheck(c) PROVE Returns'
  BY <1>4 DEF SkipCheck
<1>5. ASSUME NEW c \in Checks, NEW n \in Names, NEW k \in Codes, FixCheck(c, n, k)
      PROVE  Returns'
  BY <1>5 DEF FixCheck
<1>6. CASE RetryAsSingleFile \/ NoSingleFile \/ StartReplan \/ StopReplan \/ KeepReplan \/
         RejectReplan \/ RepairWithLeaf \/ NoLeaf
  BY <1>6 DEF RetryAsSingleFile, NoSingleFile, StartReplan, StopReplan, KeepReplan, RejectReplan,
         RepairWithLeaf, NoLeaf
<1>7. CASE Finish
  BY <1>7 DEF Finish, Recorded
<1>8. CASE TakeBaseline \/ BaselineRefused \/ NothingToChange \/ Change \/ ChangeRefused \/
         RevertChange \/ KeepChange \/ KeepImprovement \/ UndoImprovement \/ StopImproving
  BY <1>8 DEF TakeBaseline, BaselineRefused, NothingToChange, Change, ChangeRefused, RevertChange,
         KeepChange, KeepImprovement, UndoImprovement, StopImproving
<1>9. CASE Report \/ Escalate \/ StayOnPrimary \/ ChooseBetter \/ NotGoverned \/ Govern \/
         KeepGoverned
  <2>1. CASE Report \/ StayOnPrimary \/ NotGoverned
    BY <2>1 DEF Report, StayOnPrimary, NotGoverned
  <2>2. CASE Escalate \/ Govern
    BY <2>2 DEF Escalate, Govern
  <2>3. CASE ChooseBetter
    <3>1. result'.done => result'.path = result.path /\ result.done
      BY <2>3 DEF ChooseBetter
    <3> QED
      BY <2>3, <3>1 DEF ChooseBetter
  <2>4. CASE KeepGoverned
    BY <2>4 DEF KeepGoverned
  <2> QED
    BY <1>9, <2>1, <2>2, <2>3, <2>4
<1>10. CASE RestoreBaseline
  <2>1. ~lost' => ~lost /\ disk' = Overlay(disk, first.modules)
    BY <1>10, RolledBack DEF RestoreBaseline
  <2>2. Governing /\ ~lost' => Unmet(disk', checks) = first.unmet
    BY <1>10, <2>1 DEF RestoreBaseline, Floored
  <2> QED
    BY <1>10, <2>2 DEF RestoreBaseline
<1>11. CASE ScoreAttempt \/ NextAttempt
  BY <1>11 DEF ScoreAttempt, NextAttempt
<1>12. CASE AssembleWinner
  <2>1. ~lost' => ~lost /\ disk' = first.modules
    BY <1>12 DEF AssembleWinner
  <2>2. result'.path = "none" /\ result'.done = first.done
    BY <1>12 DEF AssembleWinner
  <2> QED
    BY <1>12, <2>1, <2>2 DEF AssembleWinner, Alone
<1> QED
  BY <1>1, <1>2, <1>3, <1>4, <1>5, <1>6, <1>7, <1>8, <1>9, <1>10, <1>11, <1>12
  DEF Next, Building, Repairing, Replacing, Modifying, Calling, Choosing

-----------------------------------------------------------------------------
LEMMA Initially == Init => IInv
<1> SUFFICES ASSUME Init PROVE IInv
  OBVIOUS
<1>1. task \in Tasks /\ task.attempt = 1 /\ (task.mode # "build" => ~task.replan)
  BY DEF Init
<1>2. /\ built = Empty /\ mods = {} /\ checks = {} /\ unmet = {} /\ path = "none"
      /\ loop = NoLoop /\ result = NoResult /\ first = NoResult
      /\ floor = {} /\ faults = 0 /\ raised = FALSE /\ lost = FALSE
  BY DEF Init
<1>3. CASE task.mode = "modify"
  <2>1. disk \in Files /\ pc = "modify" /\ edit = [NoEdit EXCEPT !.before = disk, !.modules = disk]
    BY <1>3 DEF Init
  <2>2. edit \in Edits /\ edit.before = disk /\ edit.modules = disk /\ ~edit.applied
    BY <2>1, ContentTyped DEF NoEdit, Edits
  <2> QED
    BY <1>1, <1>2, <1>3, <2>1, <2>2, ContentTyped, RecordsTyped
    DEF IInv, TypeOK, Control, Complete, Synced, Recorded, Returns, Floored, Alone, Gated,
        Stages, Paths, Governing, Replanning, Standing, AcceptanceRepaired, NoLoop, NoResult, Result
<1>4. CASE task.mode # "modify"
  <2>1. disk = Empty /\ pc = "plan" /\ edit = NoEdit
    BY <1>4 DEF Init
  <2> QED
    BY <1>1, <1>2, <1>4, <2>1, ContentTyped, RecordsTyped
    DEF IInv, TypeOK, Control, Complete, Synced, Recorded, Returns, Floored, Alone, Gated,
        Stages, Paths, Governing, Replanning, Standing, AcceptanceRepaired, NoLoop, NoResult, Result
<1> QED
  BY <1>3, <1>4

LEMMA Inductive == IInv /\ [Next]_vars => IInv'
<1>1. IInv /\ Next => IInv'
  <2>1. TypeOK /\ Control /\ Next => TypeOK'
    BY BuildingTyped, RepairingTyped, ReplacingTyped, ModifyingTyped, CallingTyped, ChoosingTyped
    DEF Next
  <2> QED
    BY <2>1, ControlKept, CompleteKept, SyncedKept, RecordedKept, FlooredKept, AloneKept, GatedKept,
       ReturnsKept DEF IInv
<1>2. IInv /\ UNCHANGED vars => IInv'
  <2> SUFFICES ASSUME IInv, UNCHANGED vars PROVE IInv'
    OBVIOUS
  <2>1. TypeOK' /\ Control' /\ Complete' /\ Synced'
    BY DEF vars, IInv, TypeOK, Control, Complete, Synced, Governing, Replanning, Standing, Holds
  <2>2. Recorded' /\ Returns'
    BY DEF vars, IInv, Recorded, Returns, Governing, AcceptanceRepaired, Gate, Gating, SingleChecks
  <2>3. Floored' /\ Alone' /\ Gated'
    BY DEF vars, IInv, Floored, Alone, Gated, Governing, Passing
  <2> QED
    BY <2>1, <2>2, <2>3 DEF IInv
<1> QED
  BY <1>1, <1>2

LEMMA Invariant == Spec => []IInv
  BY Initially, Inductive, PTL DEF Spec

\* system_builder.py: every local of a build, a repair, a modification and their callers has the
\* values the code can give it.
THEOREM TypeCorrect == Spec => []TypeOK
<1>1. IInv => TypeOK
  BY DEF IInv
<1> QED
  BY Invariant, <1>1, PTL

\* build_system, its callers and their repairs: whatever was fixed, reverted, replaced and rolled
\* back on the way, a result that says `done` passes the checklist that gated it on the files that
\* are there when it is returned.
THEOREM DoneVerified == Spec => []DoneIsVerified
<1>1. IInv => DoneIsVerified
  BY DEF IInv, Returns, DoneIsVerified
<1> QED
  BY Invariant, <1>1, PTL

\* build_system: the modules a result names are the files of the root, although they were written,
\* reverted, deleted and restored one by one.
THEOREM ReturnedOnDisk == Spec => []ReturnedIsOnDisk
<1>1. IInv => ReturnedIsOnDisk
  BY DEF IInv, Synced, Holds, ReturnedIsOnDisk
<1> QED
  BY Invariant, <1>1, PTL

\* _repair_system: what passed when the checklist was first run still passes, and what is
\* recorded as unmet is what fails, unless a call raised inside a round; and a single file that
\* replaced the modules (build_system) passes its own minimum and every check that was proposed.
THEOREM RepairsKeep == Spec => []RepairsNeverRegress
<1>1. IInv => RepairsNeverRegress
  <2> SUFFICES ASSUME IInv, AcceptanceRepaired, ~raised, ~lost
               PROVE  IF path = "single-file-retry"
                      THEN /\ unmet = {} /\ Unmet(disk, SingleChecks) = {}
                           /\ Unmet(disk, checks) \subseteq Minimum(mods) \ SingleMinimum
                      ELSE unmet = Unmet(disk, checks) /\ unmet \subseteq floor
    BY DEF RepairsNeverRegress
  <2>1. CASE path = "single-file-retry"
    <3>1. ~Governing /\ pc = "replan" /\ unmet = {}
      BY <2>1 DEF IInv, Control, AcceptanceRepaired, Governing, Standing
    <3>2. Unmet(disk, SingleChecks) = {}
      BY <2>1, <3>1 DEF IInv, Recorded, Gating
    <3>3. Unmet(disk, checks) \subseteq Minimum(mods) \ SingleMinimum
      BY <3>2 DEF Unmet, SingleChecks
    <3> QED
      BY <2>1, <3>1, <3>2, <3>3
  <2>2. CASE path # "single-file-retry"
    BY <2>2 DEF IInv, Recorded
  <2> QED
    BY <2>1, <2>2
<1> QED
  BY Invariant, <1>1, PTL

\* build_system_governed: a repair that ends worse than the build it started from is not kept, not
\* even when a call raised in the middle of a round, and the report is what fails on disk.
THEOREM FloorHolds == Spec => []GovernedFloor
<1>1. IInv => GovernedFloor
  BY DEF IInv, Floored, Governing, GovernedFloor
<1> QED
  BY Invariant, <1>1, PTL

\* modify_system: an applied change fails no baseline check that passed, one that is not applied
\* leaves the directory as it was.
THEOREM ModifyGated == Spec => []ModifyIsGated
<1>1. IInv => ModifyIsGated
  BY DEF IInv, Gated, ModifyIsGated
<1> QED
  BY Invariant, <1>1, PTL
=============================================================================
