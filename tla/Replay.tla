------------------------------- MODULE Replay -------------------------------
(***************************************************************************)
(* The commit-replay evaluation (harness/commit_replay.py).  Each task is  *)
(* a commit of a cloned repository: the checkout is put on the commit's    *)
(* parent with the commit's tests, every changed function is written by    *)
(* the model and tried against tests the model wrote too, and what was     *)
(* kept is scored by the commit's own tests.  One evaluation works on the  *)
(* checkout at a time; it may be killed, and another started on what it    *)
(* left.  Code is a candidate per function, the docker runs are containers *)
(* that mount the checkout.  git commands are taken to succeed.            *)
(***************************************************************************)
EXTENDS Integers, Sequences

CONSTANTS
    Corpus,     \* the tasks, in the order they are attempted
    Funcs,      \* the functions of the repository
    Targets,    \* Targets[t]: the functions task t changes, in order
    FileOf,     \* FileOf[f]: the file that defines f
    Cands,      \* what the model may write for a function
    Empty,      \* no code: the reply held none
    Base,       \* a function as the checked-out commit has it
    None,       \* no self-test file
    Home,       \* the branch the repository was cloned on
    HEAD,       \* what rev-parse calls a detached checkout
    Jobs,       \* how an evaluation may be run: a path and its options
    Cap,        \* a task with more functions is not attempted
    MaxFix,     \* repairs of a candidate
    MaxRounds,  \* rounds of the agentic solve
    NGen,       \* candidates of generate-and-test
    MaxIter,    \* iterations of attempt_task when the test is shown
    MaxKills    \* bound: evaluations killed

Tasks == {Corpus[i] : i \in DOMAIN Corpus}

ASSUME ReplayAssumption ==
    /\ MaxFix \in Nat /\ {MaxRounds, NGen, MaxIter} \subseteq Nat \ {0}
    /\ Empty \notin Cands /\ Base \notin Cands \cup {Empty}
    /\ None \notin Funcs /\ Home # HEAD
    /\ Corpus \in Seq(Tasks)
    /\ \A t \in Tasks :
         /\ Targets[t] \in Seq(Funcs)
         /\ \A i, j \in DOMAIN Targets[t] : Targets[t][i] = Targets[t][j] => i = j

VARIABLES
    tree,    \* the checkout: commit, code of each function, tests, self-test file
    box,     \* the containers that exist; left: docker did not remove it, lost: in a kill
    job,     \* how the running evaluation solves
    branch,  \* where it thinks the repository belongs
    todo,    \* its tasks still to do, the current one first
    pc,      \* where the current attempt is
    fi,      \* the function of the task being solved, by number
    orig,    \* the code read after the checkout
    kept,    \* the code settled on for each function so far
    cand,    \* the code being tried
    alt,     \* its rival: a revision, the baseline's, or the best so far
    n,       \* tries so far
    top,     \* the best count of passing self-tests
    good,    \* ghost: the codes of each function that passed its self-tests
    cut,     \* ghost: the last attempt was killed
    kills

repo == <<tree, box>>
run == <<job, branch, todo>>
solve == <<cand, alt, n, top>>
ghosts == <<cut, kills>>
vars == <<repo, run, pc, fi, orig, kept, solve, good, ghosts>>

Code == Cands \cup {Empty}
Parent(t) == <<"parent", t>>
Sha(t) == <<"sha", t>>
Commits == {Home} \cup {Parent(t) : t \in Tasks} \cup {Sha(t) : t \in Tasks}

Task == Head(todo)
Fs == Targets[Task]
F == Fs[fi]
Files == {FileOf[Fs[i]] : i \in DOMAIN Fs}
Path == job.path
Opt(o) == o \in job.opts

-----------------------------------------------------------------------------
(* The checkout *)

Untouched == [f \in Funcs |-> Base]

\* git checkout -f c.  The self-test file is not tracked and stays.
Checkout(c) == [tree EXCEPT !.at = c, !.code = Untouched, !.tests = c]

\* A file is written as it was read, with the code k has for its functions.
Written(k, files) ==
    [f \in Funcs |-> IF FileOf[f] \notin files THEN tree.code[f]
                     ELSE IF k[f] # Empty THEN k[f] ELSE orig[f]]

\* Mutant: the functions settled before are left out.
AppliedAlone(c) == Written([f \in Funcs |-> IF f = F THEN c ELSE Empty], {FileOf[F]})

Applied(c) == Written([kept EXCEPT ![F] = c], {FileOf[F]})

\* The locals of an attempt end with it.
Fresh ==
    /\ fi' = 1 /\ orig' = Untouched /\ kept' = [f \in Funcs |-> Empty]
    /\ cand' = Empty /\ alt' = Empty /\ n' = 0 /\ top' = -1
    /\ good' = [f \in Funcs |-> {}]

-----------------------------------------------------------------------------
(* An evaluation and its attempts *)
\* The branch to come back to is whatever is checked out now.
StartEval(j) ==
    /\ pc = "rest" /\ todo = <<>>
    /\ job' = j /\ todo' = Corpus
    /\ branch' = IF tree.at = Home THEN Home ELSE HEAD
    /\ UNCHANGED <<repo, pc, fi, orig, kept, solve, good, ghosts>>

\* A task that changes no function, or too many, leaves the checkout alone; so
\* does, in validation, a commit that changes no test.
SkipTask ==
    /\ pc = "rest" /\ todo # <<>>
    /\ Path = "validate" \/ Fs = <<>> \/ (Len(Fs) > Cap /\ Path # "task")
    /\ todo' = Tail(todo)
    /\ UNCHANGED <<repo, job, branch, pc, fi, orig, kept, solve, good, ghosts>>

NextTask ==
    /\ pc = "rest" /\ todo # <<>>
    /\ Path = "validate" \/ (Fs # <<>> /\ (Len(Fs) <= Cap \/ Path = "task"))
    /\ pc' = "parent"
    /\ UNCHANGED <<repo, run, fi, orig, kept, solve, good, ghosts>>

CheckoutParent ==
    /\ pc = "parent"
    /\ tree' = Checkout(Parent(Task))
    /\ pc' = "tests"
    /\ UNCHANGED <<box, run, fi, orig, kept, solve, good, ghosts>>

\* The commit's tests over the parent's code, and the code as it then reads.
CheckoutTests ==
    /\ pc = "tests"
    /\ tree' = [tree EXCEPT !.tests = Sha(Task)]
    /\ orig' = tree.code
    /\ IF Path = "validate"
       THEN pc' = "red" /\ box' = box \cup {"oracle"}
       ELSE pc' = "author" /\ box' = box
    /\ UNCHANGED <<run, fi, kept, solve, good, ghosts>>

\* The function's spec, self-tests and first code.  The jaros path writes the
\* self-tests now, the others each time they run them.
Author ==
    /\ pc = "author" /\ Path # "task"
    /\ cand' \in Code /\ alt' = Empty /\ n' = 0 /\ top' = -1
    /\ tree' = IF Path = "jaros" THEN [tree EXCEPT !.own = F] ELSE tree
    /\ pc' = "try"
    /\ UNCHANGED <<box, run, fi, orig, kept, good, ghosts>>

-----------------------------------------------------------------------------
(* Self-tests *)

\* The code under test is written into its file, the self-tests beside the
\* repository's tests, and pytest started in a container that mounts both.
\* The jaros path has one container name for all the runs of a function: while
\* a container of that name is still there, docker starts no other.
SelfTest(c) ==
    /\ tree' = [tree EXCEPT !.code = Applied(c),
                            !.own = IF Path = "jaros" THEN @ ELSE F]
    /\ box' = IF "stuck" \in box THEN box ELSE box \cup {"self"}

\* docker is told to kill and remove containers, and may do neither in time,
\* which is swallowed.
Removed(cs) == box' \in {box \ cs, (box \ cs) \cup {"left" : c \in box \cap cs}}

\* A container goes with its run.  That of a late one is force-removed; on the
\* jaros path shell.exec kills the docker client alone, and it lives on.
Ended(late) ==
    IF ~late THEN box' = box \ {"self"}
    ELSE IF Path = "jaros" THEN box' = (box \ {"self"}) \cup {"stuck" : c \in box \cap {"self"}}
    ELSE Removed({"self"})

Passes(c) ==
    /\ "self" \in box
    /\ good' = [good EXCEPT ![F] = @ \cup {c}]
    /\ Ended(FALSE)

Fails ==
    /\ \E late \in BOOLEAN : Ended(late)
    /\ good' = good

\* A container that was only slow ends by itself.
StuckEnds ==
    /\ \E c \in box \cap {"stuck", "left", "lost"} : box' = box \ {c}
    /\ UNCHANGED <<tree, run, pc, fi, orig, kept, solve, good, ghosts>>

Try ==
    /\ pc = "try" /\ (cand # Empty \/ Path = "agentic")
    /\ SelfTest(cand)
    /\ pc' = "run"
    /\ UNCHANGED <<run, fi, orig, kept, solve, good, ghosts>>

\* No code to try: the fix loop is over.
NothingToTry ==
    /\ pc = "try" /\ cand = Empty /\ Path \in {"gherkin", "jaros"}
    /\ pc' = IF Path = "gherkin" THEN "review" ELSE "settle"
    /\ UNCHANGED <<repo, run, fi, orig, kept, solve, good, ghosts>>

\* Mutant: a repair is not counted.
GherkinVerdictUncounted ==
    /\ pc = "run" /\ Path = "gherkin"
    /\ \/ Passes(cand) /\ pc' = "review" /\ UNCHANGED cand
       \/ Fails /\ cand' \in Code /\ pc' = "try"
    /\ UNCHANGED <<tree, run, fi, orig, kept, alt, n, top, ghosts>>

\* attempt_gherkin: a failing candidate is rewritten, the last one too.
GherkinVerdict ==
    /\ pc = "run" /\ Path = "gherkin"
    /\ \/ /\ Passes(cand)
          /\ pc' = "review" /\ UNCHANGED <<cand, n>>
       \/ /\ Fails
          /\ cand' \in Code /\ n' = n + 1
          /\ pc' = IF n + 1 > MaxFix THEN "review" ELSE "try"
    /\ UNCHANGED <<tree, run, fi, orig, kept, alt, top, ghosts>>

\* behavioral_solve_jaros: the last candidate is kept as it failed.
JarosVerdict ==
    /\ pc = "run" /\ Path = "jaros"
    /\ \/ /\ Passes(cand)
          /\ pc' = "settle" /\ UNCHANGED <<cand, n>>
       \/ /\ Fails /\ n >= MaxFix
          /\ pc' = "settle" /\ UNCHANGED <<cand, n>>
       \/ /\ Fails /\ n < MaxFix
          /\ cand' \in Code /\ n' = n + 1
          /\ pc' = "try"
    /\ UNCHANGED <<tree, run, fi, orig, kept, alt, top, ghosts>>

\* behavioral_solve_agentic: the model may give up, or rewrite a layer.
AgenticVerdict ==
    /\ pc = "run" /\ Path = "agentic"
    /\ \/ /\ Passes(cand)
          /\ pc' = "settle" /\ UNCHANGED <<cand, n>>
       \/ /\ Fails
          /\ pc' = "settle" /\ UNCHANGED <<cand, n>>
       \/ /\ Fails
          /\ cand' \in Code /\ n' = n + 1
          /\ pc' = IF n + 1 = MaxRounds THEN "settle" ELSE "try"
    /\ UNCHANGED <<tree, run, fi, orig, kept, alt, top, ghosts>>

\* generate_and_test_solve: the first of the NGen candidates with the highest
\* count of passing tests; 2 stands for all of them, and no code counts 0.
Counted(c) ==
    /\ alt' = IF c > top THEN cand ELSE alt
    /\ top' = IF c > top THEN c ELSE top
    /\ n' = n + 1
    /\ IF n + 1 = NGen THEN cand' = alt' /\ pc' = "settle"
                       ELSE cand' \in Code /\ pc' = "try"

GenVerdict ==
    /\ Path = "gen"
    /\ \/ /\ pc = "run" /\ Passes(cand) /\ Counted(2)
       \/ /\ pc = "run" /\ Fails /\ \E c \in 0..1 : Counted(c)
       \/ /\ pc = "try" /\ cand = Empty /\ Counted(0)
          /\ UNCHANGED <<box, good>>
    /\ UNCHANGED <<tree, run, fi, orig, kept, ghosts>>

-----------------------------------------------------------------------------
(* attempt_gherkin after the fix loop: sign-off, then the ensemble *)

\* The sign-off asks for a revision, which the self-tests have to pass again.
SignOff ==
    /\ pc = "review" /\ Opt("reviews") /\ cand # Empty
    /\ \/ pc' = "ensemble" /\ UNCHANGED <<tree, box, alt>>
       \/ /\ alt' \in Cands /\ SelfTest(alt')
          /\ pc' = "signed"
    /\ UNCHANGED <<run, fi, orig, kept, cand, n, top, good, ghosts>>

NoReview ==
    /\ pc = "review" /\ (~Opt("reviews") \/ cand = Empty)
    /\ pc' = "ensemble"
    /\ UNCHANGED <<repo, run, fi, orig, kept, solve, good, ghosts>>

\* Mutant: a revision that fails the self-tests is taken.
SignedAnyway ==
    /\ pc = "signed"
    /\ Passes(alt) \/ Fails
    /\ cand' = alt /\ pc' = "ensemble"
    /\ UNCHANGED <<tree, run, fi, orig, kept, alt, n, top, ghosts>>

Signed ==
    /\ pc = "signed"
    /\ \/ Passes(alt) /\ cand' = alt
       \/ Fails /\ cand' = cand
    /\ pc' = "ensemble"
    /\ UNCHANGED <<tree, run, fi, orig, kept, alt, n, top, ghosts>>

\* The baseline's code is taken when it passes where the candidate does not.
Ensemble ==
    /\ pc = "ensemble" /\ Opt("ensemble")
    /\ alt' \in Code
    /\ IF cand # Empty THEN SelfTest(cand) /\ pc' = "mine"
       ELSE IF alt' # Empty THEN SelfTest(alt') /\ pc' = "theirs"
       ELSE pc' = "settle" /\ UNCHANGED <<tree, box>>
    /\ UNCHANGED <<run, fi, orig, kept, cand, n, top, good, ghosts>>

NoEnsemble ==
    /\ pc = "ensemble" /\ ~Opt("ensemble")
    /\ pc' = "settle"
    /\ UNCHANGED <<repo, run, fi, orig, kept, solve, good, ghosts>>

Mine ==
    /\ pc = "mine"
    /\ \/ /\ Passes(cand)
          /\ pc' = "settle"
       \/ /\ Fails
          /\ pc' = IF alt = Empty THEN "settle" ELSE "other"
    /\ UNCHANGED <<tree, run, fi, orig, kept, solve, ghosts>>

TryOther ==
    /\ pc = "other"
    /\ SelfTest(alt)
    /\ pc' = "theirs"
    /\ UNCHANGED <<run, fi, orig, kept, solve, good, ghosts>>

Theirs ==
    /\ pc = "theirs"
    /\ \/ Passes(alt) /\ cand' = alt
       \/ Fails /\ cand' = cand
    /\ pc' = "settle"
    /\ UNCHANGED <<tree, run, fi, orig, kept, alt, n, top, ghosts>>

-----------------------------------------------------------------------------
(* The score, and back *)

\* Mutant: the container is not removed.
SettleOnly ==
    /\ pc = "settle"
    /\ kept' = [kept EXCEPT ![F] = cand] /\ fi' = fi + 1
    /\ pc' = IF fi = Len(Fs) THEN "consolidate" ELSE "author"
    /\ UNCHANGED <<repo, run, orig, solve, good, ghosts>>

\* One function is settled; a container of its name is to be removed.
Settle ==
    /\ pc = "settle"
    /\ kept' = [kept EXCEPT ![F] = cand]
    /\ Removed({"stuck"})
    /\ fi' = fi + 1
    /\ pc' = IF fi = Len(Fs) THEN "consolidate" ELSE "author"
    /\ UNCHANGED <<tree, run, orig, solve, good, ghosts>>

\* Mutant: the files stay as the last try wrote them.
ConsolidateAsTried ==
    /\ pc = "consolidate"
    /\ tree' = [tree EXCEPT !.own = None] /\ box' = box \cup {"oracle"}
    /\ pc' = "oracle"
    /\ UNCHANGED <<run, fi, orig, kept, solve, good, ghosts>>

\* Every file once more with all that was kept, the self-tests removed, and the
\* commit's tests run.
Consolidate ==
    /\ pc = "consolidate"
    /\ tree' = [tree EXCEPT !.code = Written(kept, Files), !.own = None]
    /\ box' = box \cup {"oracle"}
    /\ pc' = "oracle"
    /\ UNCHANGED <<run, fi, orig, kept, solve, good, ghosts>>

Score ==
    /\ pc = "oracle" /\ ~(Path = "task" /\ Opt("shown") /\ n + 1 < MaxIter)
    /\ Removed({"oracle"})
    /\ pc' = "reset"
    /\ UNCHANGED <<tree, run, fi, orig, kept, solve, good, ghosts>>

\* attempt_task: one code per function, no self-tests; only files with an edit
\* are written.
SolveTask ==
    /\ pc = "author" /\ Path = "task"
    /\ \E c \in Code : kept' = [kept EXCEPT ![F] = c]
    /\ fi' = fi + 1
    /\ IF fi < Len(Fs) THEN pc' = "author" /\ UNCHANGED <<tree, box>>
       ELSE LET edited == {FileOf[Fs[i]] : i \in {j \in DOMAIN Fs : kept'[Fs[j]] # Empty}}
            IN IF edited = {} THEN pc' = "reset" /\ UNCHANGED <<tree, box>>
               ELSE /\ tree' = [tree EXCEPT !.code = Written(kept', edited)]
                    /\ box' = box \cup {"oracle"}
                    /\ pc' = "oracle"
    /\ UNCHANGED <<run, orig, solve, good, ghosts>>

\* With the test shown, a failing attempt starts over with its output.
ScoreTask ==
    /\ pc = "oracle" /\ Path = "task" /\ Opt("shown") /\ n + 1 < MaxIter
    /\ Removed({"oracle"})
    /\ \/ pc' = "reset" /\ UNCHANGED <<fi, kept, n>>
       \/ /\ kept' = [f \in Funcs |-> Empty] /\ fi' = 1 /\ n' = n + 1
          /\ pc' = "author"
    /\ UNCHANGED <<tree, run, orig, cand, alt, top, good, ghosts>>

\* validate_redgreen: the tests on the parent's code, then on the commit.
RedRun ==
    /\ pc = "red"
    /\ Removed({"oracle"})
    /\ pc' = "commit"
    /\ UNCHANGED <<tree, run, fi, orig, kept, solve, good, ghosts>>

CheckoutCommit ==
    /\ pc = "commit"
    /\ tree' = Checkout(Sha(Task))
    /\ box' = box \cup {"oracle"}
    /\ pc' = "green"
    /\ UNCHANGED <<run, fi, orig, kept, solve, good, ghosts>>

GreenRun ==
    /\ pc = "green"
    /\ Removed({"oracle"})
    /\ pc' = "reset"
    /\ UNCHANGED <<tree, run, fi, orig, kept, solve, good, ghosts>>

Reset ==
    /\ pc = "reset"
    /\ tree' = Checkout(IF branch = HEAD THEN tree.at ELSE branch)
    /\ pc' = "clean"
    /\ Fresh
    /\ UNCHANGED <<box, run, ghosts>>

\* Mutant: no git clean.
CleanNothing ==
    /\ pc = "clean"
    /\ todo' = Tail(todo) /\ pc' = "rest" /\ cut' = FALSE
    /\ UNCHANGED <<repo, job, branch, fi, orig, kept, solve, good, kills>>

Clean ==
    /\ pc = "clean"
    /\ tree' = [tree EXCEPT !.own = None]
    /\ todo' = Tail(todo)
    /\ pc' = "rest" /\ cut' = FALSE
    /\ UNCHANGED <<box, job, branch, fi, orig, kept, solve, good, kills>>

-----------------------------------------------------------------------------
(* What goes wrong *)

\* The model, the gate, a file or docker raises, or the user interrupts, which
\* ends the evaluation too: both leave through the finally clauses.
Raise ==
    /\ pc \notin {"rest", "parent", "reset", "clean"}
    /\ todo' \in {todo, <<Task>>}
    /\ Removed({"self", "stuck", "oracle"})
    /\ pc' = "reset"
    /\ UNCHANGED <<tree, job, branch, fi, orig, kept, solve, good, ghosts>>

\* A killed evaluation cleans nothing up.
Kill ==
    /\ pc # "rest" /\ kills < MaxKills
    /\ box' = {"lost" : c \in box}
    /\ todo' = <<>> /\ pc' = "rest"
    /\ cut' = TRUE /\ kills' = kills + 1
    /\ Fresh
    /\ UNCHANGED <<tree, job, branch>>

Work ==
    \/ SkipTask \/ NextTask \/ CheckoutParent \/ CheckoutTests \/ Author
    \/ Try \/ NothingToTry \/ GherkinVerdict \/ JarosVerdict \/ AgenticVerdict \/ GenVerdict
    \/ SignOff \/ NoReview \/ Signed \/ Ensemble \/ NoEnsemble \/ Mine \/ TryOther \/ Theirs
    \/ Settle \/ Consolidate \/ Score \/ SolveTask \/ ScoreTask
    \/ RedRun \/ CheckoutCommit \/ GreenRun \/ Reset \/ Clean

Next == Work \/ StuckEnds \/ Raise \/ Kill \/ \E j \in Jobs : StartEval(j)

Init ==
    /\ tree = [at |-> Home, code |-> Untouched, tests |-> Home, own |-> None]
    /\ box = {}
    /\ job \in Jobs /\ branch = Home /\ todo = <<>>
    /\ pc = "rest" /\ fi = 1 /\ orig = Untouched
    /\ kept = [f \in Funcs |-> Empty]
    /\ cand = Empty /\ alt = Empty /\ n = 0 /\ top = -1
    /\ good = [f \in Funcs |-> {}]
    /\ cut = FALSE /\ kills = 0

\* Every wait for the model or a container ends: both have a timeout.
Spec == Init /\ [][Next]_vars /\ WF_vars(Work)

-----------------------------------------------------------------------------
(* What the evaluation promises *)

TypeOK ==
    /\ tree \in [at : Commits, code : [Funcs -> Code \cup {Base}], tests : Commits,
                 own : Funcs \cup {None}]
    /\ cut \in BOOLEAN
    /\ box \subseteq {"self", "stuck", "oracle", "left", "lost"}
    /\ job \in Jobs /\ branch \in {Home, HEAD} /\ todo \in Seq(Tasks)
    /\ pc \in {"rest", "parent", "tests", "author", "try", "run", "review", "signed", "ensemble",
               "mine", "other", "theirs", "settle", "consolidate", "oracle", "red", "commit",
               "green", "reset", "clean"}
    /\ fi \in Nat /\ n \in Nat /\ top \in -1..2
    /\ orig \in [Funcs -> Code \cup {Base}]
    /\ kept \in [Funcs -> Code] /\ cand \in Code /\ alt \in Code
    /\ good \in [Funcs -> SUBSET Code]
    /\ kills \in Nat

Replayed(k) == [f \in Funcs |-> IF k[f] # Empty THEN k[f] ELSE Base]

\* The commit's tests score the parent's code with exactly what was kept for
\* each function, whatever was written while trying, and with no self-test file
\* beside them.  (attempt_task leaves a file its later iteration has no edit
\* for as the iteration before wrote it.)  Validation runs them on the parent's
\* code, then on the commit itself.
ScoredAsKept ==
    /\ pc \in {"oracle", "red"} => tree.at = Parent(Task) /\ tree.tests = Sha(Task)
    /\ pc = "oracle" =>
         IF Path = "task"
         THEN n = 0 => tree.code = Replayed(kept)
         ELSE tree.code = Replayed(kept) /\ tree.own = None
    /\ pc = "red" => tree.code = Untouched
    /\ pc = "green" => tree.at = Sha(Task) /\ tree.tests = Sha(Task) /\ tree.code = Untouched

UnderTest == IF pc \in {"signed", "theirs"} THEN alt ELSE cand

\* A self-test run sees the candidate it judges, over the functions settled
\* before it and the parent for the rest of its file, and the tests written for
\* this function.
TriedAsWritten ==
    pc \in {"run", "signed", "mine", "theirs"} =>
    /\ tree.at = Parent(Task) /\ tree.own = F
    /\ \A f \in Funcs : FileOf[f] = FileOf[F] =>
          tree.code[f] = Replayed([kept EXCEPT ![F] = UnderTest])[f]

\* Keep or improve: when some code for a function passed its self-tests, the
\* code kept for it is one that did, whatever revision, baseline or later
\* candidate came after.
NeverDegraded ==
    pc \notin {"rest", "reset", "clean"} =>
    \A i \in DOMAIN Fs : i < fi /\ good[Fs[i]] # {} => kept[Fs[i]] \in good[Fs[i]]

\* No path forgets a container: one that is still there while the next function
\* is written or the score taken, or after the score, was lost in a kill, or
\* docker was told to remove it and did not.  (commit_replay.py:456 says that
\* every container is force-removed, "BULLETPROOF", and :122 "never orphaned".)
NoneForgotten ==
    pc \in {"rest", "author", "consolidate", "oracle", "red", "commit", "green", "reset", "clean"} =>
        box \subseteq {"left", "lost"} \cup
                      (IF pc \in {"oracle", "red", "green"} THEN {"oracle"} ELSE {})

\* An attempt that was not killed leaves the checkout clean, on the branch it
\* was found on if no evaluation ever was killed.
CleanAtRest ==
    pc = "rest" /\ ~cut =>
    /\ tree.code = Untouched /\ tree.tests = tree.at /\ tree.own = None
    /\ kills = 0 => tree.at = Home

\* Every evaluation comes to its end.
EvalEnds == todo # <<>> ~> todo = <<>>
=============================================================================
