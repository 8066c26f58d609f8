------------------------------ MODULE FixRepo ------------------------------
(***************************************************************************)
(* The multi-file repair of harness/multi_file.py (multi_file_fix and      *)
(* _minimize_edits) and the keep_partial fix_loop of                       *)
(* harness/coding_loop.py it tries each candidate file with.               *)
(*                                                                         *)
(* The model's edits are arbitrary; what the program decides from is the   *)
(* test run.  The suite is a function of the workspace, and a run's output *)
(* is read as a number of failures, also when it shows none: a suite that  *)
(* timed out counts as one failure, and one that could not be collected as *)
(* however many errors the collection prints.  Reverts and probes are      *)
(* written through a Runtime, which may refuse a write or, in plan mode,   *)
(* withhold it.                                                            *)
(***************************************************************************)
EXTENDS Naturals, Sequences, FiniteSets

CONSTANTS
    Paths,        \* the candidate files
    Contents,     \* what a file can hold
    Bad,          \* contents that are not valid Python
    Originals,    \* the contents files have at the start
    Suites,       \* the test suites: workspace -> how its run ends
    MaxFails,     \* the most tests a suite can fail
    Silent,       \* a run that shows no count: a timeout, a crash of the test command
    Uncollected,  \* a run that could not import the code: no test ran
    BrokenCount,  \* the errors an uncollected run shows
    MaxIters,     \* attempts per candidate
    Policies      \* what may become of the Runtime's writes, each a set of
                  \* "applied", "refused" (a rule, the gate, the user), "withheld"

Disks == [Paths -> Contents]
\* A run ends with a number of failing tests, or without running them all.
Outcomes == 0..MaxFails \cup {Silent, Uncollected}

ASSUME FixRepoAssumption ==
    /\ IsFiniteSet(Paths)
    /\ Bad \subseteq Contents
    /\ Originals \subseteq Contents \ Bad /\ Originals # {}
    /\ Suites \subseteq [Disks -> Outcomes]
    /\ Silent \notin Nat /\ Uncollected \notin Nat /\ Silent # Uncollected
    /\ MaxFails \in Nat /\ BrokenCount \in Nat \ {0} /\ MaxIters \in Nat
    /\ Policies \subseteq SUBSET {"applied", "refused", "withheld"}

VARIABLES
    disk,     \* the workspace
    orig,     \* multi_file_fix's first _snapshot
    suite,    \* the test suite
    policy,   \* the session's policy for the Runtime's writes
    pc,       \* where multi_file_fix is
    cands,    \* the candidates still to try
    snap,     \* the snapshot taken before the current candidate
    round,    \* attempts made on the current candidate
    best,     \* fix_loop's best_partial, or None
    base,     \* the failure count to beat
    kept,     \* kept_paths, in the order they were kept
    probes,   \* the kept edits still to be probed
    dropped,  \* the edits dropped: what is reported is kept without them
    result    \* what multi_file_fix returned

vars == <<disk, orig, suite, policy, pc, cands, snap, round, best, base, kept, probes, dropped, result>>
-----------------------------------------------------------------------------
Broken(d) == \E p \in Paths : d[p] \in Bad
Outcome(d) == IF Broken(d) THEN Uncollected ELSE suite[d]
Green(d) == Outcome(d) = 0
Counted(d) == Outcome(d) \notin {Silent, Uncollected}
\* How many tests do not pass, and how many failures multi_file_fix reads in the output.
Failing(d) == IF Counted(d) THEN Outcome(d) ELSE MaxFails + 1
FailCount(d) == IF Counted(d) THEN Outcome(d) ELSE IF Outcome(d) = Silent THEN 1 ELSE BrokenCount
\* fix_loop ranks a run without a count worst.
LoopCount(d) == IF Outcome(d) = Silent THEN 999 ELSE FailCount(d)

None == [fails |-> 0]
Elems(s) == {s[i] : i \in DOMAIN s}
Listings(S) == {s \in [1..Cardinality(S) -> S] : \A i, j \in DOMAIN s : s[i] = s[j] => i = j}

\* The first run; a suite that passes is left alone.  The candidates are the files
\* of the traceback and of the import closure, in that order.
Init ==
    /\ disk \in [Paths -> Originals]
    /\ orig = disk /\ snap = disk
    /\ suite \in Suites
    /\ policy \in Policies
    /\ base = FailCount(disk)
    /\ cands \in UNION {Listings(S) : S \in SUBSET Paths}
    /\ pc = IF Green(disk) THEN "returned" ELSE "candidate"
    /\ result = IF Green(disk) THEN "solved" ELSE "none"
    /\ round = 0 /\ best = None
    /\ kept = <<>> /\ probes = <<>> /\ dropped = {}
-----------------------------------------------------------------------------
Return(r) == pc' = "returned" /\ result' = r

\* The top of the candidate loop: an interrupt is only noticed here.
NextCandidate ==
    /\ pc = "candidate" /\ cands # <<>>
    /\ \/ Return("interrupted") /\ UNCHANGED <<snap, round, best>>
       \/ /\ snap' = disk
          /\ round' = 0 /\ best' = None
          /\ pc' = "attempt"
          /\ UNCHANGED result
    /\ UNCHANGED <<disk, orig, suite, policy, cands, base, kept, probes, dropped>>

NoCandidateFixedIt ==
    /\ pc = "candidate" /\ cands = <<>>
    /\ Return("unsolved")
    /\ UNCHANGED <<disk, orig, suite, policy, cands, snap, round, best, base, kept, probes, dropped>>

File == Head(cands)

\* One round of fix_loop: the editor's edit is refused by the gate, or written.  A
\* syntax error costs the round; else the suite runs, and the attempt with the
\* fewest failures is remembered.
Refused ==
    /\ pc = "attempt" /\ round < MaxIters
    /\ round' = round + 1
    /\ UNCHANGED <<disk, orig, suite, policy, pc, cands, snap, best, base, kept, probes, dropped, result>>

Attempt(c) ==
    /\ pc = "attempt" /\ round < MaxIters
    /\ disk' = [disk EXCEPT ![File] = c]
    /\ round' = round + 1
    /\ pc' = IF Green(disk') THEN "judge" ELSE pc
    /\ best' = IF c \notin Bad /\ ~Green(disk') /\ (best = None \/ LoopCount(disk') < best.fails)
               THEN [fails |-> LoopCount(disk'), content |-> c] ELSE best
    /\ UNCHANGED <<orig, suite, policy, cands, snap, base, kept, probes, dropped, result>>

\* The rounds are spent: the best attempt, if one was testable, is put back with a
\* plain write_text; otherwise the last one stays.
GiveUp ==
    /\ pc = "attempt" /\ round = MaxIters
    /\ disk' = IF best = None THEN disk ELSE [disk EXCEPT ![File] = best.content]
    /\ pc' = "judge"
    /\ UNCHANGED <<orig, suite, policy, cands, snap, round, best, base, kept, probes, dropped, result>>

\* A write of _restore or of a probe goes through the Runtime.
Written(d, fate) == IF fate = "applied" THEN d ELSE disk
-----------------------------------------------------------------------------
\* multi_file_fix judges what fix_loop left.
Solve ==
    /\ pc = "judge" /\ Green(disk)
    /\ kept' = Append(kept, File) /\ probes' = kept'
    /\ pc' = "minimize"
    /\ UNCHANGED <<disk, orig, suite, policy, cands, snap, round, best, base, dropped, result>>

KeepPartial ==
    /\ pc = "judge" /\ ~Green(disk) /\ FailCount(disk) < base
    /\ base' = FailCount(disk)
    /\ kept' = Append(kept, File)
    /\ cands' = Tail(cands) /\ pc' = "candidate"
    /\ UNCHANGED <<disk, orig, suite, policy, snap, round, best, probes, dropped, result>>

\* Mutant: a candidate without progress is not reverted.
RevertForgotten ==
    /\ pc = "judge" /\ ~Green(disk) /\ FailCount(disk) >= base
    /\ cands' = Tail(cands) /\ pc' = "candidate"
    /\ UNCHANGED <<disk, orig, suite, policy, snap, round, best, base, kept, probes, dropped, result>>

\* _restore; that it failed is not looked at.
Revert ==
    /\ pc = "judge" /\ ~Green(disk) /\ FailCount(disk) >= base
    /\ \E fate \in policy : disk' = Written(snap, fate)
    /\ cands' = Tail(cands) /\ pc' = "candidate"
    /\ UNCHANGED <<orig, suite, policy, snap, round, best, base, kept, probes, dropped, result>>
-----------------------------------------------------------------------------
Probe == probes[Len(probes)]
Reverted == [disk EXCEPT ![Probe] = orig[Probe]]
ProbeDone == probes' = SubSeq(probes, 1, Len(probes) - 1)

\* _minimize_edits probes the kept edits, the latest first, with the original
\* text: green drops the edit, red puts it back, and a refused write leaves it.
ProbeRefused ==
    /\ pc = "minimize" /\ probes # <<>> /\ "refused" \in policy
    /\ ProbeDone
    /\ UNCHANGED <<disk, orig, suite, policy, pc, cands, snap, round, best, base, kept, dropped, result>>

ProbeGreen(fate) ==
    /\ pc = "minimize" /\ probes # <<>> /\ fate # "refused"
    /\ Green(Written(Reverted, fate))
    /\ disk' = Written(Reverted, fate)
    /\ dropped' = dropped \cup {Probe}
    /\ ProbeDone
    /\ UNCHANGED <<orig, suite, policy, pc, cands, snap, round, best, base, kept, result>>

\* Mutant: the edit the suite needs is not put back.
ProbeRedNotUndone(fate) ==
    /\ pc = "minimize" /\ probes # <<>> /\ fate # "refused"
    /\ ~Green(Written(Reverted, fate))
    /\ disk' = Written(Reverted, fate)
    /\ ProbeDone
    /\ UNCHANGED <<orig, suite, policy, pc, cands, snap, round, best, base, kept, dropped, result>>

\* Putting the edit back is one more write, whose refusal is not looked at.
ProbeRed(fate) ==
    /\ pc = "minimize" /\ probes # <<>> /\ fate # "refused"
    /\ ~Green(Written(Reverted, fate))
    /\ \E again \in policy :
         disk' = IF again = "applied" THEN disk ELSE Written(Reverted, fate)
    /\ ProbeDone
    /\ UNCHANGED <<orig, suite, policy, pc, cands, snap, round, best, base, kept, dropped, result>>

Minimized ==
    /\ pc = "minimize" /\ probes = <<>>
    /\ Return("solved")
    /\ UNCHANGED <<disk, orig, suite, policy, cands, snap, round, best, base, kept, probes, dropped>>

Returned == pc = "returned" /\ UNCHANGED vars

Next ==
    \/ NextCandidate \/ NoCandidateFixedIt
    \/ Refused \/ GiveUp
    \/ \E c \in Contents : Attempt(c)
    \/ Solve \/ KeepPartial \/ Revert
    \/ ProbeRefused \/ Minimized
    \/ \E fate \in policy : ProbeGreen(fate) \/ ProbeRed(fate)
    \/ Returned

\* The caller runs the repair to its end.
Spec == Init /\ [][Next]_vars /\ WF_vars(Next)
-----------------------------------------------------------------------------
\* Type invariant.
TypeOK ==
    /\ disk \in Disks /\ orig \in Disks /\ snap \in Disks
    /\ suite \in [Disks -> Outcomes]
    /\ policy \in Policies
    /\ pc \in {"candidate", "attempt", "judge", "minimize", "returned"}
    /\ cands \in Seq(Paths) /\ kept \in Seq(Paths) /\ probes \in Seq(Paths)
    /\ pc \in {"attempt", "judge"} => cands # <<>>
    /\ round \in 0..MaxIters
    /\ best \in [fails : Nat, content : Contents] \cup {None}
    /\ base \in Nat
    /\ dropped \subseteq Paths
    /\ result \in {"none", "solved", "unsolved", "interrupted"}

\* A repair that says "fixed" leaves a green suite, whatever the minimization
\* tried on the way (_minimize_edits: "this can never leave the repo failing"),
\* when all its writes meet the same fate: a user who allows the probe of an edit
\* and then denies putting the edit back ends with a red "solved".
Steadfast == \A a, b \in policy : a = b
SolvedIsGreen == result = "solved" /\ Steadfast => Green(disk)

\* When the reverts go through, every file that differs from its original text is
\* one the repair reports as fixed, and every edit it reports as dropped is gone:
\* what was tried and did not help leaves no trace in the workspace.
DiffIsReported ==
    pc = "returned" /\ policy = {"applied"} =>
        /\ {p \in Paths : disk[p] # orig[p]} \subseteq Elems(kept) \ dropped
        /\ \A p \in dropped : disk[p] = orig[p]

\* When the reverts go through, every edit a repair keeps lowered the number of
\* failures its test runs show (multi_file_fix: a partial edit is kept "only if it
\* strictly REDUCES the failing-test count"): candidate after candidate, and where
\* it gives up or is interrupted, the workspace shows at least one failure less
\* than at the start for each edit kept; and where its last run does show a count,
\* no more tests fail than at the start.  A run without a count shows 1 failure:
\* a workspace whose suite no longer ends is kept over one that fails two tests.
NeverWorse ==
    pc \in {"candidate", "returned"} /\ policy = {"applied"} =>
        /\ FailCount(disk) + Len(kept) <= FailCount(orig)
        /\ Counted(disk) => Failing(disk) <= Failing(orig)

\* The repair ends.
Ends == <>(pc = "returned")
=============================================================================
