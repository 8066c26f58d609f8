-------------------------- MODULE EvaluationProofs --------------------------
(***************************************************************************)
(* What holds of the evaluation, for every value of the constants.  Of the *)
(* commit-replay evaluation (Replay): types, what the oracle and the       *)
(* self-tests are run on, which code is kept, and which containers are     *)
(* left.  Of the behavioural oracles (Oracles): types, what outlives a     *)
(* check, and what a verdict rests on.                                     *)
(***************************************************************************)
EXTENDS Replay, Oracles, TLAPS, FiniteSetTheorems

Solving == {"author", "try", "run", "review", "signed", "ensemble", "mine", "other", "theirs",
            "settle"}

(* An attempt has a task, a solve has a function, and the locals of an      *)
(* attempt are fresh until its solve begins.                                *)
Placed ==
    /\ pc # "rest" => todo # <<>>
    /\ pc \in {"parent", "tests"} => Path = "validate" \/ Fs # <<>>
    /\ pc \in Solving => Path # "validate" /\ fi \in DOMAIN Fs
    /\ pc \in {"consolidate", "oracle"} => Path # "validate" /\ Fs # <<>>
    /\ pc \in {"rest", "parent", "tests", "red", "commit", "green", "clean"} =>
         /\ fi = 1 /\ n = 0
         /\ kept = [f \in Funcs |-> Empty] /\ good = [f \in Funcs |-> {}]

TInv == TypeOK /\ Placed

LEMMA TInit == Init => TInv
<1> SUFFICES ASSUME Init PROVE TInv
  OBVIOUS
<1>1. tree \in [at : Commits, code : [Funcs -> Code \cup {Base}], tests : Commits,
                own : Funcs \cup {None}]
  BY DEF Init, Untouched, Commits
<1>2. todo \in Seq(Tasks)
  BY DEF Init
<1>a. /\ kept \in [Funcs -> Code] /\ good \in [Funcs -> SUBSET Code]
      /\ orig \in [Funcs -> Code \cup {Base}]
      /\ cand \in Code /\ alt \in Code
  BY DEF Init, Untouched, Code
<1>b. fi \in Nat /\ n \in Nat /\ top \in -1..2 /\ kills \in Nat
  BY DEF Init
<1>c. cut \in BOOLEAN /\ box \subseteq {"self", "stuck", "oracle", "left", "lost"} /\ job \in Jobs
  BY DEF Init
<1>3. TypeOK
  BY <1>1, <1>2, <1>a, <1>b, <1>c DEF Init, TypeOK
<1>4. Placed
  BY DEF Init, Placed, Solving
<1> QED
  BY <1>3, <1>4 DEF TInv

LEMMA TaskFacts ==
    ASSUME TInv, todo # <<>>
    PROVE  /\ Task \in Tasks /\ Tail(todo) \in Seq(Tasks) /\ <<Task>> \in Seq(Tasks)
           /\ Fs \in Seq(Funcs)
           /\ \A i, j \in DOMAIN Fs : Fs[i] = Fs[j] => i = j
<1>1. todo \in Seq(Tasks) /\ todo # <<>>
  BY DEF TInv, TypeOK
<1>2. Head(todo) \in Tasks /\ Tail(todo) \in Seq(Tasks)
  BY <1>1
<1> QED
  BY <1>2, ReplayAssumption DEF Task, Fs

LEMMA FuncFacts ==
    ASSUME TInv, pc \in Solving
    PROVE  F \in Funcs /\ fi \in 1..Len(Fs) /\ todo # <<>>
<1>1. todo # <<>> /\ fi \in DOMAIN Fs
  BY DEF TInv, Placed, Solving
<1> QED
  BY <1>1, TaskFacts DEF F

LEMMA WrittenType ==
    ASSUME TInv, NEW k \in [Funcs -> Code], NEW files
    PROVE  Written(k, files) \in [Funcs -> Code \cup {Base}]
BY DEF Written, TInv, TypeOK

LEMMA SelfTestType ==
    ASSUME TInv, pc \in Solving, NEW c \in Code, SelfTest(c)
    PROVE  tree' \in [at : Commits, code : [Funcs -> Code \cup {Base}], tests : Commits,
                      own : Funcs \cup {None}]
<1>1. F \in Funcs /\ tree \in [at : Commits, code : [Funcs -> Code \cup {Base}],
                               tests : Commits, own : Funcs \cup {None}]
  BY FuncFacts DEF TInv, TypeOK
<1>2. [kept EXCEPT ![F] = c] \in [Funcs -> Code]
  BY <1>1 DEF TInv, TypeOK
<1>3. Applied(c) \in [Funcs -> Code \cup {Base}]
  BY <1>2, WrittenType DEF Applied
<1> QED
  BY <1>1, <1>3 DEF SelfTest

LEMMA CheckoutType ==
    ASSUME TInv, NEW c \in Commits
    PROVE  Checkout(c) \in [at : Commits, code : [Funcs -> Code \cup {Base}],
                            tests : Commits, own : Funcs \cup {None}]
BY DEF Checkout, TInv, TypeOK, Untouched

LEMMA CommitFacts ==
    ASSUME TInv, todo # <<>>
    PROVE  Parent(Task) \in Commits /\ Sha(Task) \in Commits
BY TaskFacts DEF Commits

(* A removal leaves nothing new, but for what docker did not remove. *)
LEMMA RemovedLess ==
    ASSUME NEW cs, "left" \notin cs, Removed(cs)
    PROVE  box' \subseteq (box \ cs) \cup {"left"}
BY DEF Removed

LEMMA RemovedType ==
    ASSUME TInv, NEW cs, "left" \notin cs, Removed(cs)
    PROVE  box' \subseteq {"self", "stuck", "oracle", "left", "lost"}
BY RemovedLess DEF TInv, TypeOK

LEMMA EndedLess ==
    ASSUME NEW late \in BOOLEAN, Ended(late)
    PROVE  box' \subseteq (box \ {"self"}) \cup {"left"} \cup {"stuck" : c \in box \cap {"self"}}
BY RemovedLess DEF Ended

LEMMA BoxType ==
    ASSUME TInv, \/ \E late \in BOOLEAN : Ended(late)
                 \/ \E c : SelfTest(c)
    PROVE  box' \subseteq {"self", "stuck", "oracle", "left", "lost"}
BY EndedLess DEF TInv, TypeOK, SelfTest

LEMMA PassesType ==
    ASSUME TInv, pc \in Solving, NEW c \in Code, Passes(c)
    PROVE  /\ good' \in [Funcs -> SUBSET Code]
           /\ box' \subseteq {"self", "stuck", "oracle", "left", "lost"}
BY FuncFacts, BoxType DEF Passes, TInv, TypeOK

LEMMA FailsType ==
    ASSUME TInv, Fails
    PROVE  /\ good' \in [Funcs -> SUBSET Code]
           /\ box' \subseteq {"self", "stuck", "oracle", "left", "lost"}
BY BoxType DEF Fails, TInv, TypeOK

(* The evaluation stands still where it is: same task, same function. *)
Stays == todo' = todo /\ job' = job /\ fi' = fi

LEMMA StaysPlaced ==
    ASSUME TInv, Stays, pc \in Solving, pc' \in Solving
    PROVE  Placed'
BY DEF TInv, Stays, Placed, Solving, Path, Fs, Task

LEMMA TRest ==
    ASSUME TInv, (\E j \in Jobs : StartEval(j)) \/ SkipTask \/ NextTask
    PROVE  TInv'
<1>1. CASE \E j \in Jobs : StartEval(j)
  <2>1. PICK j \in Jobs : StartEval(j)
    BY <1>1
  <2>2. Corpus \in Seq(Tasks)
    BY ReplayAssumption
  <2>3. TypeOK'
    BY <2>1, <2>2 DEF StartEval, TInv, TypeOK, repo, solve, ghosts
  <2>4. Placed'
    BY <2>1 DEF StartEval, TInv, Placed, solve, Solving
  <2> QED
    BY <2>3, <2>4 DEF TInv
<1>2. CASE SkipTask
  <2>1. Tail(todo) \in Seq(Tasks)
    BY <1>2, TaskFacts DEF SkipTask
  <2>2. TypeOK'
    BY <1>2, <2>1 DEF SkipTask, TInv, TypeOK, repo, solve, ghosts
  <2>3. Placed'
    BY <1>2 DEF SkipTask, TInv, Placed, solve, Solving
  <2> QED
    BY <2>2, <2>3 DEF TInv
<1>3. CASE NextTask
  <2>1. TypeOK'
    BY <1>3 DEF NextTask, TInv, TypeOK, repo, run, solve, ghosts
  <2>2. Placed'
    BY <1>3 DEF NextTask, TInv, Placed, run, solve, Solving, Path, Fs, Task
  <2> QED
    BY <2>1, <2>2 DEF TInv
<1> QED
  BY <1>1, <1>2, <1>3

LEMMA TCheckout ==
    ASSUME TInv, CheckoutParent \/ CheckoutTests \/ RedRun \/ CheckoutCommit \/ GreenRun
    PROVE  TInv'
<1>1. CASE CheckoutParent
  <2>1. tree' \in [at : Commits, code : [Funcs -> Code \cup {Base}], tests : Commits,
                   own : Funcs \cup {None}]
    BY <1>1, CheckoutType, CommitFacts DEF CheckoutParent, TInv, Placed
  <2>2. TypeOK'
    BY <1>1, <2>1 DEF CheckoutParent, TInv, TypeOK, run, solve, ghosts
  <2>3. Placed'
    BY <1>1 DEF CheckoutParent, TInv, Placed, run, solve, Solving, Path, Fs, Task
  <2> QED
    BY <2>2, <2>3 DEF TInv
<1>2. CASE CheckoutTests
  <2>1. /\ todo # <<>> /\ Sha(Task) \in Commits
        /\ Path # "validate" => fi \in DOMAIN Fs
    <3>1. todo # <<>> /\ fi = 1 /\ (Path # "validate" => Fs # <<>>)
      BY <1>2 DEF CheckoutTests, TInv, Placed
    <3> QED
      BY <3>1, CommitFacts, TaskFacts
  <2>2. tree' \in [at : Commits, code : [Funcs -> Code \cup {Base}], tests : Commits,
                   own : Funcs \cup {None}]
    BY <1>2, <2>1 DEF CheckoutTests, TInv, TypeOK
  <2>3. TypeOK'
    BY <1>2, <2>2 DEF CheckoutTests, TInv, TypeOK, run, solve, ghosts
  <2>4. Placed'
    BY <1>2, <2>1 DEF CheckoutTests, TInv, Placed, run, solve, Solving, Path, Fs, Task
  <2> QED
    BY <2>3, <2>4 DEF TInv
<1>3. CASE RedRun \/ GreenRun
  <2>r. box' \subseteq {"self", "stuck", "oracle", "left", "lost"}
    BY <1>3, RemovedType DEF RedRun, GreenRun
  <2>1. TypeOK'
    BY <2>r, <1>3 DEF RedRun, GreenRun, TInv, TypeOK, run, solve, ghosts
  <2>2. Placed'
    BY <1>3 DEF RedRun, GreenRun, TInv, Placed, run, solve, Solving
  <2> QED
    BY <2>1, <2>2 DEF TInv
<1>4. CASE CheckoutCommit
  <2>1. tree' \in [at : Commits, code : [Funcs -> Code \cup {Base}], tests : Commits,
                   own : Funcs \cup {None}]
    BY <1>4, CheckoutType, CommitFacts DEF CheckoutCommit, TInv, Placed
  <2>2. TypeOK'
    BY <1>4, <2>1 DEF CheckoutCommit, TInv, TypeOK, run, solve, ghosts
  <2>3. Placed'
    BY <1>4 DEF CheckoutCommit, TInv, Placed, run, solve, Solving
  <2> QED
    BY <2>2, <2>3 DEF TInv
<1> QED
  BY <1>1, <1>2, <1>3, <1>4

LEMMA TTry ==
    ASSUME TInv, Author \/ Try \/ NothingToTry \/ StuckEnds
    PROVE  TInv'
<1>1. CASE Author
  <2>1. F \in Funcs
    BY <1>1, FuncFacts DEF Author, Solving
  <2>2. tree' \in [at : Commits, code : [Funcs -> Code \cup {Base}], tests : Commits,
                   own : Funcs \cup {None}]
    BY <1>1, <2>1 DEF Author, TInv, TypeOK
  <2>3. alt' \in Code /\ top' \in -1..2 /\ n' \in Nat
    BY <1>1 DEF Author, Code
  <2>a. TypeOK'
    BY <1>1, <2>2, <2>3 DEF Author, TInv, TypeOK, run, ghosts
  <2>4. Placed'
    BY <1>1, StaysPlaced DEF Author, Stays, Solving, run
  <2> QED
    BY <2>a, <2>4 DEF TInv
<1>2. CASE Try
  <2>1. cand \in Code
    BY DEF TInv, TypeOK
  <2>2. tree' \in [at : Commits, code : [Funcs -> Code \cup {Base}], tests : Commits,
                   own : Funcs \cup {None}]
    BY <1>2, <2>1, SelfTestType DEF Try, Solving
  <2>3. box' \subseteq {"self", "stuck", "oracle", "left", "lost"}
    BY <1>2, BoxType DEF Try
  <2>4. TypeOK'
    BY <1>2, <2>2, <2>3 DEF Try, TInv, TypeOK, run, solve, ghosts
  <2>5. Placed'
    BY <1>2, StaysPlaced DEF Try, Stays, Solving, run
  <2> QED
    BY <2>4, <2>5 DEF TInv
<1>3. CASE NothingToTry
  <2>1. TypeOK'
    BY <1>3 DEF NothingToTry, TInv, TypeOK, repo, run, solve, ghosts
  <2>2. Placed'
    BY <1>3, StaysPlaced DEF NothingToTry, Stays, Solving, run
  <2> QED
    BY <2>1, <2>2 DEF TInv
<1>4. CASE StuckEnds
  <2>1. TypeOK'
    BY <1>4 DEF StuckEnds, TInv, TypeOK, run, solve, ghosts
  <2>2. Placed'
    BY <1>4 DEF StuckEnds, TInv, Placed, run, solve, Path, Fs, Task
  <2> QED
    BY <2>1, <2>2 DEF TInv
<1> QED
  BY <1>1, <1>2, <1>3, <1>4

Verdict == GherkinVerdict \/ JarosVerdict \/ AgenticVerdict \/ GenVerdict

LEMMA TVerdict ==
    ASSUME TInv, Verdict
    PROVE  TInv'
<1>1. /\ pc \in Solving /\ pc' \in Solving /\ Stays
  BY DEF Verdict, GherkinVerdict, JarosVerdict, AgenticVerdict, GenVerdict, Counted, Solving,
         Stays, run
<1>2. Placed'
  BY <1>1, StaysPlaced
<1>3. /\ good' \in [Funcs -> SUBSET Code]
      /\ box' \subseteq {"self", "stuck", "oracle", "left", "lost"}
  <2>1. cand \in Code /\ good \in [Funcs -> SUBSET Code]
        /\ box \subseteq {"self", "stuck", "oracle", "left", "lost"}
    BY DEF TInv, TypeOK
  <2>2. Passes(cand) \/ Fails \/ UNCHANGED <<box, good>>
    BY DEF Verdict, GherkinVerdict, JarosVerdict, AgenticVerdict, GenVerdict
  <2> QED
    BY <1>1, <2>1, <2>2, PassesType, FailsType
<1>4. cand' \in Code /\ alt' \in Code /\ n' \in Nat /\ top' \in -1..2
  <2>1. cand \in Code /\ alt \in Code /\ n \in Nat /\ top \in -1..2
    BY DEF TInv, TypeOK
  <2>2. CASE GenVerdict
    <3>1. PICK c \in 0..2 : Counted(c)
      BY <2>2 DEF GenVerdict
    <3> QED
      BY <2>1, <3>1 DEF Counted
  <2>3. CASE ~GenVerdict
    BY <2>1, <2>3 DEF Verdict, GherkinVerdict, JarosVerdict, AgenticVerdict
  <2> QED
    BY <2>2, <2>3
<1>5. TypeOK'
  <2>1. UNCHANGED <<tree, run, fi, orig, kept, ghosts>>
    BY DEF Verdict, GherkinVerdict, JarosVerdict, AgenticVerdict, GenVerdict
  <2> QED
    BY <1>1, <1>3, <1>4, <2>1 DEF TInv, TypeOK, run, ghosts, Solving
<1> QED
  BY <1>2, <1>5 DEF TInv

Review == SignOff \/ NoReview \/ Signed \/ Ensemble \/ NoEnsemble \/ Mine \/ TryOther \/ Theirs

LEMMA TReview ==
    ASSUME TInv, Review
    PROVE  TInv'
<1>1. /\ pc \in Solving /\ pc' \in Solving /\ Stays
  BY DEF Review, SignOff, NoReview, Signed, Ensemble, NoEnsemble, Mine, TryOther, Theirs, Solving,
         Stays, run
<1>2. Placed'
  BY <1>1, StaysPlaced
<1>3. cand \in Code /\ alt \in Code
  BY DEF TInv, TypeOK
<1>4. cand' \in Code /\ alt' \in Code
  BY <1>3 DEF Review, SignOff, NoReview, Signed, Ensemble, NoEnsemble, Mine, TryOther, Theirs, solve,
              Code
<1>5. tree' \in [at : Commits, code : [Funcs -> Code \cup {Base}], tests : Commits,
                 own : Funcs \cup {None}]
  <2>1. UNCHANGED tree \/ \E c \in Code : SelfTest(c)
    BY <1>3, <1>4 DEF Review, SignOff, NoReview, Signed, Ensemble, NoEnsemble, Mine, TryOther,
                      Theirs, repo
  <2> QED
    BY <1>1, <2>1, SelfTestType DEF TInv, TypeOK
<1>6. /\ good' \in [Funcs -> SUBSET Code]
      /\ box' \subseteq {"self", "stuck", "oracle", "left", "lost"}
  <2>1. \/ UNCHANGED <<box, good>> \/ \E c \in Code : Passes(c)
        \/ Fails \/ (UNCHANGED good /\ \E c : SelfTest(c))
    BY <1>3, <1>4 DEF Review, SignOff, NoReview, Signed, Ensemble, NoEnsemble, Mine, TryOther,
                      Theirs, repo
  <2> QED
    BY <1>1, <2>1, PassesType, FailsType, BoxType DEF TInv, TypeOK
<1>7. UNCHANGED <<run, fi, orig, kept, n, top, ghosts>>
  BY DEF Review, SignOff, NoReview, Signed, Ensemble, NoEnsemble, Mine, TryOther, Theirs, solve
<1>8. TypeOK'
  BY <1>1, <1>4, <1>5, <1>6, <1>7 DEF TInv, TypeOK, run, ghosts, Solving
<1> QED
  BY <1>2, <1>8 DEF TInv

LEMMA NextIndex ==
    ASSUME NEW len \in Nat, NEW i \in 1..len, i # len
    PROVE  i < len /\ i + 1 \in 1..len
OBVIOUS

LEMMA FreshIsTyped ==
    Fresh => /\ kept' \in [Funcs -> Code] /\ good' \in [Funcs -> SUBSET Code]
             /\ orig' \in [Funcs -> Code \cup {Base}]
             /\ cand' \in Code /\ alt' \in Code
             /\ fi' \in Nat /\ n' \in Nat /\ top' \in -1..2
BY DEF Fresh, Untouched, Code

LEMMA TScore ==
    ASSUME TInv, Settle \/ Consolidate \/ Score \/ SolveTask \/ ScoreTask
    PROVE  TInv'
<1>1. CASE Settle
  <2>1. F \in Funcs /\ fi \in 1..Len(Fs) /\ Len(Fs) \in Nat /\ DOMAIN Fs = 1..Len(Fs)
    BY <1>1, FuncFacts, TaskFacts DEF Settle, Solving
  <2>a. kept \in [Funcs -> Code] /\ cand \in Code /\ fi \in Nat
    BY DEF TInv, TypeOK
  <2>b. kept' = [kept EXCEPT ![F] = cand] /\ fi' = fi + 1
    BY <1>1 DEF Settle
  <2>2. kept' \in [Funcs -> Code] /\ fi' \in Nat
    BY <2>1, <2>a, <2>b
  <2>r. box' \subseteq {"self", "stuck", "oracle", "left", "lost"}
    BY <1>1, RemovedType DEF Settle
  <2>3. TypeOK'
    BY <2>r, <1>1, <2>2 DEF Settle, TInv, TypeOK, run, solve, ghosts
  <2>c. pc' = IF fi = Len(Fs) THEN "consolidate" ELSE "author"
    BY <1>1 DEF Settle
  <2>4. fi' \in DOMAIN Fs \/ pc' = "consolidate"
    <3>1. CASE fi = Len(Fs)
      BY <2>c, <3>1
    <3>2. CASE fi # Len(Fs)
      <4>1. fi + 1 \in 1..Len(Fs)
        BY <2>1, <3>2, NextIndex
      <4> QED
        BY <2>1, <2>b, <4>1
    <3> QED
      BY <3>1, <3>2
  <2>5. Placed'
    BY <1>1, <2>1, <2>4 DEF Settle, TInv, Placed, run, Path, Fs, Task, Solving
  <2> QED
    BY <2>3, <2>5 DEF TInv
<1>2. CASE Consolidate
  <2>1. Written(kept, Files) \in [Funcs -> Code \cup {Base}]
    BY WrittenType DEF TInv, TypeOK
  <2>2. TypeOK'
    BY <1>2, <2>1 DEF Consolidate, TInv, TypeOK, run, solve, ghosts
  <2>3. Placed'
    BY <1>2 DEF Consolidate, TInv, Placed, run, Path, Fs, Task, Solving
  <2> QED
    BY <2>2, <2>3 DEF TInv
<1>3. CASE Score
  <2>r. box' \subseteq {"self", "stuck", "oracle", "left", "lost"}
    BY <1>3, RemovedType DEF Score
  <2>1. TypeOK'
    BY <2>r, <1>3 DEF Score, TInv, TypeOK, run, solve, ghosts
  <2>2. Placed'
    BY <1>3 DEF Score, TInv, Placed, run, Solving
  <2> QED
    BY <2>1, <2>2 DEF TInv
<1>4. CASE SolveTask
  <2>1. F \in Funcs /\ fi \in 1..Len(Fs) /\ Len(Fs) \in Nat /\ DOMAIN Fs = 1..Len(Fs)
        /\ todo # <<>>
    BY <1>4, FuncFacts, TaskFacts DEF SolveTask, Solving
  <2>a. kept \in [Funcs -> Code] /\ fi \in Nat
    BY DEF TInv, TypeOK
  <2>b. (\E c \in Code : kept' = [kept EXCEPT ![F] = c]) /\ fi' = fi + 1
    BY <1>4 DEF SolveTask
  <2>2. kept' \in [Funcs -> Code] /\ fi' \in Nat
    BY <2>1, <2>a, <2>b
  <2>3. tree' \in [at : Commits, code : [Funcs -> Code \cup {Base}], tests : Commits,
                   own : Funcs \cup {None}]
    <3>1. \A files : Written(kept', files) \in [Funcs -> Code \cup {Base}]
      BY <2>2, WrittenType
    <3>2. UNCHANGED tree \/ \E files : tree' = [tree EXCEPT !.code = Written(kept', files)]
      BY <1>4 DEF SolveTask
    <3> QED
      BY <3>1, <3>2 DEF TInv, TypeOK
  <2>c. /\ fi < Len(Fs) => pc' = "author"
        /\ ~(fi < Len(Fs)) => pc' \in {"reset", "oracle"}
        /\ UNCHANGED box \/ box' = box \cup {"oracle"}
    BY <1>4 DEF SolveTask
  <2>4. /\ pc' \in {"author", "reset", "oracle"} /\ (pc' = "author" => fi' \in DOMAIN Fs)
        /\ box' \subseteq {"self", "stuck", "oracle", "left", "lost"}
    <3>1. box' \subseteq {"self", "stuck", "oracle", "left", "lost"}
      BY <2>c DEF TInv, TypeOK
    <3>2. CASE fi = Len(Fs)
      BY <2>1, <2>c, <3>1, <3>2
    <3>3. CASE fi # Len(Fs)
      <4>1. fi < Len(Fs) /\ fi + 1 \in 1..Len(Fs)
        BY <2>1, <3>3, NextIndex
      <4> QED
        BY <2>1, <2>b, <2>c, <3>1, <4>1
    <3> QED
      BY <3>2, <3>3
  <2>5. TypeOK'
    BY <1>4, <2>2, <2>3, <2>4 DEF SolveTask, TInv, TypeOK, run, solve, ghosts
  <2>6. Placed'
    BY <1>4, <2>1, <2>4 DEF SolveTask, TInv, Placed, run, Path, Fs, Task, Solving
  <2> QED
    BY <2>5, <2>6 DEF TInv
<1>5. CASE ScoreTask
  <2>r. box' \subseteq {"self", "stuck", "oracle", "left", "lost"}
    BY <1>5, RemovedType DEF ScoreTask
  <2>1. TypeOK'
    BY <2>r, <1>5 DEF ScoreTask, TInv, TypeOK, run, ghosts, Code
  <2>a. todo # <<>> /\ Fs # <<>>
    BY <1>5 DEF ScoreTask, TInv, Placed
  <2>b. 1 \in DOMAIN Fs
    BY <2>a, TaskFacts
  <2>2. Placed'
    BY <1>5, <2>a, <2>b DEF ScoreTask, TInv, Placed, run, Path, Fs, Task, Solving
  <2> QED
    BY <2>1, <2>2 DEF TInv
<1> QED
  BY <1>1, <1>2, <1>3, <1>4, <1>5

LEMMA TReset ==
    ASSUME TInv, Reset \/ Clean
    PROVE  TInv'
<1>1. CASE Reset
  <2>1. tree.at \in Commits /\ branch \in {Home, HEAD} /\ Home \in Commits
    BY DEF TInv, TypeOK, Commits
  <2>2. tree' \in [at : Commits, code : [Funcs -> Code \cup {Base}], tests : Commits,
                   own : Funcs \cup {None}]
    BY <1>1, <2>1, CheckoutType DEF Reset
  <2>3. Fresh
    BY <1>1 DEF Reset
  <2>4. TypeOK'
    BY <1>1, <2>2, <2>3, FreshIsTyped DEF Reset, TInv, TypeOK, run, ghosts
  <2>5. Placed'
    BY <1>1, <2>3 DEF Reset, Fresh, TInv, Placed, run, Solving
  <2> QED
    BY <2>4, <2>5 DEF TInv
<1>2. CASE Clean
  <2>1. Tail(todo) \in Seq(Tasks)
    BY <1>2, TaskFacts DEF Clean, TInv, Placed
  <2>2. TypeOK'
    BY <1>2, <2>1 DEF Clean, TInv, TypeOK, solve
  <2>3. Placed'
    BY <1>2 DEF Clean, TInv, Placed, solve, Solving
  <2> QED
    BY <2>2, <2>3 DEF TInv
<1> QED
  BY <1>1, <1>2

LEMMA TFault ==
    ASSUME TInv, Raise \/ Kill
    PROVE  TInv'
<1>1. CASE Raise
  <2>1. todo # <<>>
    BY <1>1 DEF Raise, TInv, Placed
  <2>a. todo' \in {todo, <<Task>>} /\ <<Task>> # <<>> /\ todo \in Seq(Tasks)
    BY <1>1 DEF Raise, TInv, TypeOK
  <2>2. todo' \in Seq(Tasks) /\ todo' # <<>>
    BY <2>1, <2>a, TaskFacts
  <2>r. box' \subseteq {"self", "stuck", "oracle", "left", "lost"}
    BY <1>1, RemovedType DEF Raise
  <2>3. TypeOK'
    BY <2>r, <1>1, <2>2 DEF Raise, TInv, TypeOK, solve, ghosts
  <2>4. Placed'
    BY <1>1, <2>2 DEF Raise, TInv, Placed, Solving
  <2> QED
    BY <2>3, <2>4 DEF TInv
<1>2. CASE Kill
  <2>1. Fresh /\ todo' \in Seq(Tasks)
    BY <1>2 DEF Kill
  <2>2. TypeOK'
    BY <1>2, <2>1, FreshIsTyped DEF Kill, TInv, TypeOK
  <2>3. Placed'
    BY <1>2, <2>1 DEF Kill, Fresh, Placed, Solving
  <2> QED
    BY <2>2, <2>3 DEF TInv
<1> QED
  BY <1>1, <1>2

LEMMA TStep == TInv /\ [Next]_vars => TInv'
<1> SUFFICES ASSUME TInv, [Next]_vars PROVE TInv'
  OBVIOUS
<1>1. CASE UNCHANGED vars
  <2>1. TypeOK'
    BY <1>1 DEF TInv, TypeOK, vars, repo, run, solve, ghosts
  <2>2. Placed'
    BY <1>1 DEF TInv, Placed, vars, repo, run, solve, ghosts, Path, Fs, Task
  <2> QED
    BY <2>1, <2>2 DEF TInv
<1>2. CASE Next
  BY <1>2, TRest, TCheckout, TTry, TVerdict, TReview, TScore, TReset, TFault
     DEF Next, Work, Verdict, Review
<1> QED
  BY <1>1, <1>2

LEMMA TAlways == Spec => []TInv
<1> QED
  BY TInit, TStep, PTL DEF Spec

(* Every variable keeps its type. *)
THEOREM TypesHold == Spec => []TypeOK
<1>1. TInv => TypeOK
  BY DEF TInv
<1> QED
  BY <1>1, TAlways, PTL

-----------------------------------------------------------------------------
(* Containers *)

Running == {"run", "signed", "mine", "theirs"}
Between == {"try", "review", "ensemble", "other", "settle"}

BoxInv ==
    /\ "oracle" \in box => pc \in {"oracle", "red", "green"}
    /\ "self" \in box => pc \in Running
    /\ "stuck" \in box => pc \in Running \cup Between

LEMMA BoxStep == TInv /\ BoxInv /\ [Next]_vars => BoxInv'
<1> SUFFICES ASSUME TInv, BoxInv, [Next]_vars PROVE BoxInv'
  OBVIOUS
<1> USE DEF BoxInv, Running, Between
<1>1. CASE UNCHANGED vars
  BY <1>1 DEF vars, repo
<1>2. CASE (\E j \in Jobs : StartEval(j)) \/ SkipTask \/ NextTask \/ CheckoutParent \/ CheckoutTests
  BY <1>2 DEF StartEval, SkipTask, NextTask, CheckoutParent, CheckoutTests, repo
<1>3. CASE Author \/ NothingToTry \/ NoReview \/ NoEnsemble \/ StuckEnds
  BY <1>3 DEF Author, NothingToTry, NoReview, NoEnsemble, StuckEnds, repo
<1>4. CASE Try \/ SignOff \/ Ensemble \/ TryOther
  BY <1>4 DEF Try, SignOff, Ensemble, TryOther, SelfTest
<1>5. CASE Verdict
  <2>1. \/ pc = "run" /\ pc' \in Between
        \/ pc = "try" /\ pc' \in Between /\ UNCHANGED box
    BY <1>5 DEF Verdict, GherkinVerdict, JarosVerdict, AgenticVerdict, GenVerdict, Counted
  <2>a. Passes(cand) \/ Fails \/ (UNCHANGED box /\ pc = "try")
    BY <1>5 DEF Verdict, GherkinVerdict, JarosVerdict, AgenticVerdict, GenVerdict
  <2>2. (\E late \in BOOLEAN : Ended(late)) \/ (UNCHANGED box /\ pc = "try")
    BY <2>a DEF Passes, Fails
  <2> QED
    BY <2>1, <2>2, EndedLess
<1>6. CASE Signed \/ Mine \/ Theirs
  <2>1. pc \in Running /\ pc' \in Between \cup Running
    BY <1>6 DEF Signed, Mine, Theirs
  <2>2. pc' \in Between \/ pc' = "settle"
    BY <1>6 DEF Signed, Mine, Theirs
  <2>3. \E late \in BOOLEAN : Ended(late)
    BY <1>6 DEF Signed, Mine, Theirs, Passes, Fails
  <2> QED
    BY <2>1, <2>2, <2>3, EndedLess
<1>7. CASE Settle \/ Consolidate \/ Score \/ SolveTask \/ ScoreTask
  <2>1. CASE Settle
    BY <2>1, RemovedLess DEF Settle
  <2>2. CASE Score \/ ScoreTask
    BY <2>2, RemovedLess DEF Score, ScoreTask
  <2> QED
    BY <1>7, <2>1, <2>2 DEF Consolidate, SolveTask
<1>8. CASE RedRun \/ CheckoutCommit \/ GreenRun \/ Reset \/ Clean
  BY <1>8, RemovedLess DEF RedRun, CheckoutCommit, GreenRun, Reset, Clean
<1>9. CASE Raise \/ Kill
  BY <1>9, RemovedLess DEF Raise, Kill
<1> QED
  BY <1>1, <1>2, <1>3, <1>4, <1>5, <1>6, <1>7, <1>8, <1>9 DEF Next, Work, Verdict

(* A container that outlives what it was started for was lost in a kill, or  *)
(* docker was told to remove it and did not: every way out of a run, a       *)
(* function and an attempt tells it (the finally clauses of _run_selftests,  *)
(* _run_nodes and the jaros attempt).                                        *)
THEOREM ContainersAreToEnd == Spec => []NoneForgotten
<1>1. Init => BoxInv
  BY DEF Init, BoxInv
<1>2. TInv /\ BoxInv => NoneForgotten
  BY DEF TInv, TypeOK, BoxInv, NoneForgotten, Running, Between
<1> QED
  BY <1>1, <1>2, BoxStep, TAlways, PTL DEF Spec

-----------------------------------------------------------------------------
(* What the tests are run on *)

IsTarget(f) == \E i \in DOMAIN Fs : f = Fs[i]

(* Within an attempt the checkout is the parent with the commit's tests, and *)
(* nothing but the files of its functions is written.                       *)
AtWork ==
    pc \in Solving \cup {"consolidate", "oracle"} =>
    /\ tree.at = Parent(Task) /\ tree.tests = Sha(Task) /\ orig = Untouched
    /\ \A f \in Funcs : kept[f] # Empty => IsTarget(f)
    /\ \A f \in Funcs : FileOf[f] \notin Files => tree.code[f] = Base

(* attempt_task tries nothing before it has solved every function; only      *)
(* attempt_gherkin goes on after the fix loop.                              *)
AfterFix == {"review", "signed", "ensemble", "mine", "other", "theirs"}

TaskAlone ==
    /\ pc \in AfterFix => Path = "gherkin"
    /\ Path = "task" => pc \notin (Solving \ {"author"}) \cup {"consolidate"}
    /\ Path = "task" /\ pc = "author" /\ n = 0 => tree.code = Untouched

OwnTests ==
    /\ Path = "jaros" /\ pc = "try" => tree.own = F
    /\ pc = "tests" => tree.at = Parent(Task) /\ tree.code = Untouched

TreeInv == AtWork /\ TaskAlone /\ OwnTests /\ ScoredAsKept /\ TriedAsWritten

LEMMA TreeAway ==
    ASSUME TInv, pc' \in {"rest", "parent", "reset", "clean", "commit"}
    PROVE  TreeInv'
BY DEF TreeInv, AtWork, TaskAlone, OwnTests, ScoredAsKept, TriedAsWritten, Solving, AfterFix

(* Steps of a solve that write no file. *)
LEMMA TreeStill ==
    ASSUME TInv, TreeInv, pc \in Solving, pc' \in Solving \ Running,
           Stays, UNCHANGED <<tree, orig, kept>>, Path # "task",
           Path = "jaros" /\ pc' = "try" => tree.own = F,
           pc' \in AfterFix => Path = "gherkin"
    PROVE  TreeInv'
<1>1. /\ Task' = Task /\ Fs' = Fs /\ F' = F /\ Path' = Path /\ Files' = Files
  BY DEF Stays, Task, Fs, F, Path, Files
<1>2. AtWork'
  BY <1>1 DEF TreeInv, AtWork, IsTarget
<1>3. TaskAlone' /\ OwnTests'
  BY <1>1 DEF TaskAlone, OwnTests, Solving, AfterFix
<1>4. ScoredAsKept' /\ TriedAsWritten'
  BY DEF ScoredAsKept, TriedAsWritten, Solving, Running
<1> QED
  BY <1>2, <1>3, <1>4 DEF TreeInv

LEMMA WrittenFacts ==
    ASSUME TInv, AtWork, pc \in Solving \cup {"consolidate"},
           NEW k, NEW files, files \subseteq Files
    PROVE  /\ \A f \in Funcs : FileOf[f] \in files => Written(k, files)[f] = Replayed(k)[f]
           /\ \A f \in Funcs : FileOf[f] \notin files => Written(k, files)[f] = tree.code[f]
           /\ \A f \in Funcs : FileOf[f] \notin Files => Written(k, files)[f] = Base
BY DEF AtWork, Written, Replayed, Untouched

(* Steps that start a self-test. *)
LEMMA TreeSelfTest ==
    ASSUME TInv, TreeInv, pc \in Solving, pc' \in Running, Path # "task",
           NEW c \in Code, SelfTest(c), c = UnderTest',
           Stays, UNCHANGED <<orig, kept>>,
           Path = "jaros" => tree.own = F,
           pc' \in AfterFix => Path = "gherkin"
    PROVE  TreeInv'
<1>1. /\ Task' = Task /\ Fs' = Fs /\ F' = F /\ Path' = Path /\ Files' = Files
  BY DEF Stays, Task, Fs, F, Path, Files
<1>2. F \in Funcs /\ FileOf[F] \in Files
  <2>1. F \in Funcs /\ fi \in DOMAIN Fs
    BY FuncFacts DEF TInv, Placed
  <2> QED
    BY <2>1 DEF F, Files
<1>3. /\ tree.at \in Commits
      /\ tree'.at = tree.at /\ tree'.tests = tree.tests /\ tree'.code = Applied(c) /\ tree'.own = F
  BY DEF SelfTest, TInv, TypeOK
<1>4. /\ \A f \in Funcs : FileOf[f] = FileOf[F] =>
               Applied(c)[f] = Replayed([kept EXCEPT ![F] = c])[f]
      /\ \A f \in Funcs : FileOf[f] \notin Files => Applied(c)[f] = Base
  BY <1>2, WrittenFacts DEF Applied, TreeInv
<1>5. AtWork'
  BY <1>1, <1>3, <1>4 DEF TreeInv, AtWork, IsTarget
<1>6. TaskAlone' /\ OwnTests' /\ ScoredAsKept'
  BY <1>1 DEF TaskAlone, OwnTests, ScoredAsKept, Running, Solving, AfterFix
<1>7. TriedAsWritten'
  <2>1. tree'.at = Parent(Task)' /\ tree'.own = F'
    BY <1>1, <1>3 DEF TreeInv, AtWork, Parent
  <2>2. \A f \in Funcs : FileOf[f] = FileOf[F'] =>
            tree'.code[f] = Replayed([kept' EXCEPT ![F'] = UnderTest'])[f]
    BY <1>1, <1>3, <1>4
  <2> QED
    BY <2>1, <2>2 DEF TriedAsWritten, Replayed
<1> QED
  BY <1>5, <1>6, <1>7 DEF TreeInv

LEMMA TreeAtRest ==
    ASSUME TInv, TreeInv, \/ (\E j \in Jobs : StartEval(j)) \/ SkipTask \/ NextTask
                          \/ RedRun \/ GreenRun \/ Reset \/ Clean \/ Raise \/ Kill \/ Score
    PROVE  TreeInv'
<1>1. pc' \in {"rest", "parent", "reset", "clean", "commit"}
  BY DEF StartEval, SkipTask, NextTask, RedRun, GreenRun, Reset, Clean, Raise, Kill, Score
<1> QED
  BY <1>1, TreeAway

LEMMA TreeCheckout ==
    ASSUME TInv, TreeInv, CheckoutParent \/ CheckoutTests \/ CheckoutCommit
    PROVE  TreeInv'
<1>1. todo # <<>> /\ tree \in [at : Commits, code : [Funcs -> Code \cup {Base}],
                              tests : Commits, own : Funcs \cup {None}]
  BY DEF CheckoutParent, CheckoutTests, CheckoutCommit, TInv, TypeOK, Placed
<1>2. CASE CheckoutParent
  <2>1. tree'.at = Parent(Task) /\ tree'.code = Untouched /\ UNCHANGED run /\ pc' = "tests"
    BY <1>1, <1>2 DEF CheckoutParent, Checkout
  <2> QED
    BY <2>1 DEF TreeInv, AtWork, TaskAlone, OwnTests, ScoredAsKept, TriedAsWritten, Solving,
                AfterFix, run, Task, Parent, Untouched
<1>3. CASE CheckoutTests
  <2>1. /\ tree'.at = Parent(Task) /\ tree'.code = Untouched /\ tree'.tests = Sha(Task)
        /\ orig' = Untouched /\ UNCHANGED <<run, kept, n>>
        /\ kept = [f \in Funcs |-> Empty]
        /\ pc' = IF Path = "validate" THEN "red" ELSE "author"
    BY <1>1, <1>3 DEF CheckoutTests, TreeInv, OwnTests, solve, TInv, Placed
  <2>2. Task' = Task /\ Path' = Path /\ Parent(Task)' = Parent(Task) /\ Sha(Task)' = Sha(Task)
    BY <2>1 DEF run, Task, Path, Parent, Sha
  <2>3. AtWork'
    BY <2>1, <2>2 DEF AtWork, Untouched
  <2>4. TaskAlone' /\ OwnTests'
    BY <2>1, <2>2 DEF TaskAlone, OwnTests, Solving, AfterFix, Untouched
  <2>5. ScoredAsKept' /\ TriedAsWritten'
    BY <2>1, <2>2 DEF ScoredAsKept, TriedAsWritten, Untouched
  <2> QED
    BY <2>3, <2>4, <2>5 DEF TreeInv
<1>4. CASE CheckoutCommit
  <2>1. /\ tree'.at = Sha(Task) /\ tree'.code = Untouched /\ tree'.tests = Sha(Task)
        /\ UNCHANGED run /\ pc' = "green"
    BY <1>1, <1>4 DEF CheckoutCommit, Checkout
  <2> QED
    BY <2>1 DEF TreeInv, AtWork, TaskAlone, OwnTests, ScoredAsKept, TriedAsWritten, Solving,
                AfterFix, run, Task, Sha, Untouched
<1> QED
  BY <1>2, <1>3, <1>4

LEMMA TreeAuthor ==
    ASSUME TInv, TreeInv, Author
    PROVE  TreeInv'
<1>1. /\ Task' = Task /\ Fs' = Fs /\ F' = F /\ Path' = Path /\ Files' = Files
  BY DEF Author, run, Task, Fs, F, Path, Files
<1>2. /\ tree'.at = tree.at /\ tree'.tests = tree.tests /\ tree'.code = tree.code
      /\ Path = "jaros" => tree'.own = F
      /\ UNCHANGED <<orig, kept>> /\ pc' = "try" /\ pc = "author" /\ Path # "task"
  BY DEF Author, TInv, TypeOK
<1>3. AtWork'
  BY <1>1, <1>2 DEF TreeInv, AtWork, IsTarget, Solving, Parent, Sha
<1>4. TaskAlone' /\ OwnTests'
  BY <1>1, <1>2 DEF TaskAlone, OwnTests, AfterFix
<1>5. ScoredAsKept' /\ TriedAsWritten'
  BY <1>2 DEF ScoredAsKept, TriedAsWritten
<1> QED
  BY <1>3, <1>4, <1>5 DEF TreeInv

LEMMA TreeTry ==
    ASSUME TInv, TreeInv, Try \/ SignOff \/ Ensemble \/ TryOther
    PROVE  TreeInv'
<1>a. /\ Stays /\ UNCHANGED <<orig, kept>>
      /\ \/ pc = "try" /\ pc' = "run"
         \/ pc \in AfterFix /\ pc' \in AfterFix \cup {"settle"}
  BY DEF Try, SignOff, Ensemble, TryOther, Stays, run, AfterFix
<1>b. cand \in Code /\ alt \in Code
  BY DEF TInv, TypeOK
<1>c. pc \in Solving /\ Path # "task" /\ (pc \in AfterFix => Path = "gherkin")
  BY <1>a DEF TreeInv, TaskAlone, Solving, AfterFix
<1>1. /\ pc \in Solving /\ Stays /\ UNCHANGED <<orig, kept>> /\ Path # "task"
      /\ pc \in AfterFix => Path = "gherkin"
      /\ (pc = "try" /\ pc' = "run") \/ (pc \in AfterFix /\ pc' \in AfterFix \cup {"settle"})
      /\ cand \in Code /\ alt \in Code
  BY <1>a, <1>b, <1>c
<1>2. Path = "jaros" => tree.own = F
  BY <1>1 DEF TreeInv, OwnTests
<1>3. CASE UNCHANGED tree
  <2>1. pc' \in Solving \ Running \/ \E c \in Code : SelfTest(c) /\ c = UnderTest' /\ pc' \in Running
    BY <1>1 DEF Try, SignOff, Ensemble, TryOther, Solving, Running, UnderTest, solve, Code
  <2> QED
    BY <1>1, <1>2, <1>3, <2>1, TreeStill, TreeSelfTest DEF AfterFix
<1>4. CASE ~UNCHANGED tree
  <2>1. \E c \in Code : SelfTest(c) /\ c = UnderTest' /\ pc' \in Running
    BY <1>1, <1>4 DEF Try, SignOff, Ensemble, TryOther, Solving, Running, UnderTest, solve, Code
  <2> QED
    BY <1>1, <1>2, <2>1, TreeSelfTest DEF AfterFix
<1> QED
  BY <1>3, <1>4

LEMMA TreeVerdict ==
    ASSUME TInv, TreeInv, Verdict \/ NothingToTry \/ NoReview \/ Signed \/ NoEnsemble \/ Mine \/ Theirs
    PROVE  TreeInv'
<1>1. /\ Stays /\ UNCHANGED <<tree, orig, kept>>
      /\ pc \in {"try", "run"} \cup AfterFix /\ pc' \in Solving \ Running
  BY DEF Verdict, GherkinVerdict, JarosVerdict, AgenticVerdict, GenVerdict, Counted, NothingToTry,
         NoReview, Signed, NoEnsemble, Mine, Theirs, Stays, run, repo, Solving, Running, AfterFix
<1>2. pc \in Solving /\ Path # "task"
  BY <1>1 DEF TreeInv, TaskAlone, Solving, AfterFix
<1>3. pc' \in AfterFix => Path = "gherkin" \/ pc \in AfterFix
  BY DEF Verdict, GherkinVerdict, JarosVerdict, AgenticVerdict, GenVerdict, Counted, NothingToTry,
         NoReview, Signed, NoEnsemble, Mine, Theirs, AfterFix
<1>4. Path = "jaros" /\ pc' = "try" => pc = "run"
  BY DEF Verdict, GherkinVerdict, JarosVerdict, AgenticVerdict, GenVerdict, Counted, NothingToTry,
         NoReview, Signed, NoEnsemble, Mine, Theirs
<1>5. pc = "run" => tree.own = F
  BY DEF TreeInv, TriedAsWritten
<1>6. pc' \in AfterFix => Path = "gherkin"
  BY <1>3 DEF TreeInv, TaskAlone
<1> QED
  BY <1>1, <1>2, <1>4, <1>5, <1>6, TreeStill

LEMMA TreeSettle ==
    ASSUME TInv, TreeInv, Settle
    PROVE  TreeInv'
<1>1. /\ Task' = Task /\ Fs' = Fs /\ Path' = Path /\ Files' = Files
  BY DEF Settle, run, Task, Fs, Path, Files
<1>2. F \in Funcs /\ IsTarget(F) /\ kept \in [Funcs -> Code]
  <2>1. F \in Funcs /\ fi \in DOMAIN Fs
    BY FuncFacts DEF Settle, Solving, TInv, Placed
  <2> QED
    BY <2>1 DEF F, IsTarget, TInv, TypeOK
<1>3. UNCHANGED <<tree, orig>> /\ pc = "settle" /\ pc' \in {"consolidate", "author"}
      /\ kept' = [kept EXCEPT ![F] = cand]
  BY DEF Settle
<1>4. Path # "task"
  BY <1>3 DEF TreeInv, TaskAlone, Solving
<1>5. AtWork'
  <2>1. \A f \in Funcs : kept'[f] # Empty => IsTarget(f)'
    BY <1>1, <1>2, <1>3 DEF TreeInv, AtWork, Solving, IsTarget
  <2> QED
    BY <1>1, <1>3, <2>1 DEF TreeInv, AtWork, Solving, Parent, Sha
<1>6. TaskAlone' /\ OwnTests' /\ ScoredAsKept' /\ TriedAsWritten'
  BY <1>1, <1>3, <1>4 DEF TaskAlone, OwnTests, ScoredAsKept, TriedAsWritten, AfterFix
<1> QED
  BY <1>5, <1>6 DEF TreeInv

LEMMA TreeConsolidate ==
    ASSUME TInv, TreeInv, Consolidate
    PROVE  TreeInv'
<1>1. /\ Task' = Task /\ Fs' = Fs /\ Path' = Path /\ Files' = Files
  BY DEF Consolidate, run, Task, Fs, Path, Files
<1>2. /\ tree'.at = tree.at /\ tree'.tests = tree.tests /\ tree'.own = None
      /\ tree'.code = Written(kept, Files)
      /\ UNCHANGED <<orig, kept>> /\ pc = "consolidate" /\ pc' = "oracle"
  BY DEF Consolidate, TInv, TypeOK
<1>3. /\ \A f \in Funcs : FileOf[f] \in Files => Written(kept, Files)[f] = Replayed(kept)[f]
      /\ \A f \in Funcs : FileOf[f] \notin Files => Written(kept, Files)[f] = Base
  BY <1>2, WrittenFacts DEF TreeInv
<1>4. \A f \in Funcs : FileOf[f] \notin Files => kept[f] = Empty
  BY <1>2 DEF TreeInv, AtWork, IsTarget, Files
<1>5. Written(kept, Files) = Replayed(kept)
  <2>1. \A f \in Funcs : Written(kept, Files)[f] = Replayed(kept)[f]
    BY <1>3, <1>4 DEF Replayed
  <2> QED
    BY <2>1 DEF Written, Replayed
<1>6. AtWork'
  BY <1>1, <1>2, <1>3 DEF TreeInv, AtWork, IsTarget, Solving, Parent, Sha
<1>7. Path # "task"
  BY <1>2 DEF TreeInv, TaskAlone
<1>8. ScoredAsKept'
  BY <1>1, <1>2, <1>5, <1>6, <1>7 DEF ScoredAsKept, AtWork, Parent, Sha, Replayed
<1>9. TaskAlone' /\ OwnTests' /\ TriedAsWritten'
  BY <1>2 DEF TaskAlone, OwnTests, TriedAsWritten, Solving, AfterFix
<1> QED
  BY <1>6, <1>8, <1>9 DEF TreeInv

LEMMA TreeTask ==
    ASSUME TInv, TreeInv, SolveTask \/ ScoreTask
    PROVE  TreeInv'
<1>1. /\ Task' = Task /\ Fs' = Fs /\ Path' = Path /\ Files' = Files /\ Path = "task"
  BY DEF SolveTask, ScoreTask, run, Task, Fs, Path, Files
<1>2. UNCHANGED orig /\ pc \in {"author", "oracle"} /\ pc' \in {"author", "oracle", "reset"}
  BY DEF SolveTask, ScoreTask
<1>3. CASE pc' = "reset"
  BY <1>3, TreeAway
<1>4. CASE ScoreTask /\ pc' # "reset"
  <2>1. /\ UNCHANGED tree /\ kept' = [f \in Funcs |-> Empty] /\ n' = n + 1 /\ pc' = "author"
        /\ n' # 0
    BY <1>4 DEF ScoreTask, TInv, TypeOK
  <2>2. AtWork'
    BY <1>1, <1>2, <2>1 DEF TreeInv, AtWork, Parent, Sha, Solving
  <2>3. TaskAlone' /\ OwnTests' /\ ScoredAsKept' /\ TriedAsWritten'
    BY <2>1 DEF TaskAlone, OwnTests, ScoredAsKept, TriedAsWritten, AfterFix, Solving
  <2> QED
    BY <2>2, <2>3 DEF TreeInv
<1>5. CASE SolveTask /\ pc' # "reset"
  <2>1. pc = "author" /\ F \in Funcs /\ fi \in DOMAIN Fs /\ kept \in [Funcs -> Code]
    BY <1>5, FuncFacts DEF SolveTask, Solving, TInv, TypeOK, Placed
  <2>2. PICK c \in Code : kept' = [kept EXCEPT ![F] = c]
    BY <1>5 DEF SolveTask
  <2>3. \A f \in Funcs : kept'[f] # Empty => IsTarget(f)
    BY <2>1, <2>2 DEF TreeInv, AtWork, Solving, IsTarget, F
  <2>4. CASE pc' = "author"
    <3>1. UNCHANGED <<tree, n>>
      BY <1>5, <2>4 DEF SolveTask, solve
    <3>2. AtWork'
      BY <1>1, <1>2, <2>1, <2>3, <3>1 DEF TreeInv, AtWork, IsTarget, Solving, Parent, Sha
    <3>3. TaskAlone' /\ OwnTests' /\ ScoredAsKept' /\ TriedAsWritten'
      BY <1>1, <2>1, <2>4, <3>1 DEF TreeInv, TaskAlone, OwnTests, ScoredAsKept, TriedAsWritten,
                                    AfterFix, Solving
    <3> QED
      BY <3>2, <3>3 DEF TreeInv
  <2>5. CASE pc' = "oracle"
    <3> DEFINE edited == {FileOf[Fs[i]] : i \in {j \in DOMAIN Fs : kept'[Fs[j]] # Empty}}
    <3>1. tree' = [tree EXCEPT !.code = Written(kept', edited)] /\ UNCHANGED n
      BY <1>5, <2>5 DEF SolveTask, solve
    <3>2. /\ tree'.at = tree.at /\ tree'.tests = tree.tests /\ tree'.code = Written(kept', edited)
      BY <3>1 DEF TInv, TypeOK
    <3>3. edited \subseteq Files
      BY DEF Files
    <3> HIDE DEF edited
    <3>4. /\ \A f \in Funcs : FileOf[f] \in edited => Written(kept', edited)[f] = Replayed(kept')[f]
          /\ \A f \in Funcs : FileOf[f] \notin edited => Written(kept', edited)[f] = tree.code[f]
          /\ \A f \in Funcs : FileOf[f] \notin Files => Written(kept', edited)[f] = Base
      BY <2>1, <3>3, WrittenFacts DEF TreeInv, Solving
    <3>5. \A f \in Funcs : FileOf[f] \notin edited => kept'[f] = Empty
      BY <2>3 DEF edited, IsTarget
    <3>6. n = 0 => Written(kept', edited) = Replayed(kept')
      <4>1. SUFFICES ASSUME n = 0
                     PROVE  \A f \in Funcs : Written(kept', edited)[f] = Replayed(kept')[f]
        BY DEF Written, Replayed
      <4>2. tree.code = Untouched
        BY <1>1, <2>1, <4>1 DEF TreeInv, TaskAlone
      <4> QED
        BY <3>4, <3>5, <4>2 DEF Replayed, Untouched
    <3>7. AtWork'
      BY <1>1, <1>2, <2>1, <2>3, <3>2, <3>4 DEF TreeInv, AtWork, IsTarget, Solving, Parent, Sha
    <3>8. ScoredAsKept'
      BY <1>1, <2>5, <3>1, <3>2, <3>6, <3>7 DEF ScoredAsKept, AtWork, Parent, Sha, Replayed
    <3>9. TaskAlone' /\ OwnTests' /\ TriedAsWritten'
      BY <2>5 DEF TaskAlone, OwnTests, TriedAsWritten, Solving, AfterFix
    <3> QED
      BY <3>7, <3>8, <3>9 DEF TreeInv
  <2> QED
    BY <1>2, <1>5, <2>4, <2>5
<1> QED
  BY <1>3, <1>4, <1>5

LEMMA TreeStep == TInv /\ TreeInv /\ [Next]_vars => TreeInv'
<1> SUFFICES ASSUME TInv, TreeInv, [Next]_vars PROVE TreeInv'
  OBVIOUS
<1>1. CASE UNCHANGED vars \/ StuckEnds
  <2>1. /\ UNCHANGED <<tree, run, pc, fi, orig, kept, solve>>
    BY <1>1 DEF vars, repo, StuckEnds
  <2> QED
    BY <2>1 DEF TreeInv, AtWork, IsTarget, TaskAlone, OwnTests, ScoredAsKept, TriedAsWritten,
                UnderTest, Files, F, Fs, Task, Path, Parent, Sha, Replayed, run, solve
<1>2. CASE Next /\ ~StuckEnds
  BY <1>2, TreeAtRest, TreeCheckout, TreeAuthor, TreeTry, TreeVerdict, TreeSettle, TreeConsolidate,
     TreeTask DEF Next, Work, Verdict
<1> QED
  BY <1>1, <1>2

LEMMA TreeAlways == Spec => []TreeInv
<1>1. Init => TreeInv
  BY DEF Init, TreeInv, AtWork, TaskAlone, OwnTests, ScoredAsKept, TriedAsWritten, Solving, AfterFix
<1> QED
  BY <1>1, TreeStep, TAlways, PTL DEF Spec

(* The hidden tests score the parent's code with what was kept, whatever    *)
(* the attempt wrote on the way.                                            *)
THEOREM ScoresAreOfTheKept == Spec => []ScoredAsKept
<1>1. TreeInv => ScoredAsKept
  BY DEF TreeInv
<1> QED
  BY <1>1, TreeAlways, PTL

(* A self-test run judges the candidate it is asked about.                  *)
THEOREM RunsAreOfTheTried == Spec => []TriedAsWritten
<1>1. TreeInv => TriedAsWritten
  BY DEF TreeInv
<1> QED
  BY <1>1, TreeAlways, PTL

-----------------------------------------------------------------------------
(* What is kept *)

(* For a settled function NeverDegraded; for the one being solved, the code *)
(* that would be kept now is one that passed, if any did; the functions to  *)
(* come have not been tried.                                                *)
Settled == \A i \in DOMAIN Fs : i < fi /\ good[Fs[i]] # {} => kept[Fs[i]] \in good[Fs[i]]
Untried == \A i \in DOMAIN Fs : i > fi => good[Fs[i]] = {}

KeepInv ==
    /\ pc \in Solving \cup {"consolidate", "oracle"} => Settled
    /\ pc \in Solving => Untried
    /\ pc = "author" => good[F] = {}
    /\ pc \in {"try", "run"} /\ good[F] # {} => Path = "gen" /\ top = 2
    /\ pc \in {"try", "run"} /\ Path = "gen" /\ top = 2 => alt \in good[F]
    /\ pc \in AfterFix \cup {"settle"} /\ good[F] # {} => cand \in good[F]
    /\ Path = "task" /\ pc \in {"author", "oracle"} => \A i \in DOMAIN Fs : good[Fs[i]] = {}

(* A step of the solve of F, judged by what it leaves in good[F]. *)
LEMMA KeepSolving ==
    ASSUME TInv, KeepInv, pc \in Solving, pc' \in Solving \ {"author"}, Stays, UNCHANGED kept,
           Path # "task",
           \A f \in Funcs : f # F => good'[f] = good[f],
           pc' \in {"try", "run"} /\ good'[F] # {} => Path = "gen" /\ top' = 2,
           pc' \in {"try", "run"} /\ Path = "gen" /\ top' = 2 => alt' \in good'[F],
           pc' \in AfterFix \cup {"settle"} /\ good'[F] # {} => cand' \in good'[F]
    PROVE  KeepInv'
<1>1. Fs' = Fs /\ F' = F /\ Path' = Path /\ fi' = fi
  BY DEF Stays, Task, Fs, F, Path
<1>2. /\ Fs \in Seq(Funcs) /\ fi \in DOMAIN Fs /\ fi \in Nat /\ F = Fs[fi]
      /\ \A i \in DOMAIN Fs : i # fi => Fs[i] # F
  <2>1. todo # <<>> /\ fi \in DOMAIN Fs /\ fi \in Nat
    BY DEF TInv, TypeOK, Placed, Solving
  <2> QED
    BY <2>1, TaskFacts DEF F
<1>3. \A i \in DOMAIN Fs : i \in Nat /\ Fs[i] \in Funcs
  BY <1>2
<1>4. \A i \in DOMAIN Fs : i < fi \/ i > fi => good'[Fs[i]] = good[Fs[i]]
  BY <1>2, <1>3
<1>5. Settled' /\ Untried'
  BY <1>1, <1>4 DEF KeepInv, Settled, Untried
<1> QED
  BY <1>1, <1>5 DEF KeepInv

LEMMA PassedIsGood ==
    ASSUME TInv, pc \in Solving, NEW c, Passes(c)
    PROVE  c \in good'[F] /\ good[F] \subseteq good'[F] /\ \A f \in Funcs : f # F => good'[f] = good[f]
BY FuncFacts DEF Passes, TInv, TypeOK

LEMMA KeepVerdict ==
    ASSUME TInv, TreeInv, KeepInv, Verdict \/ NothingToTry
    PROVE  KeepInv'
<1>1. /\ Stays /\ UNCHANGED kept /\ pc \in {"try", "run"} /\ pc' \in Solving \ {"author"}
  BY DEF Verdict, GherkinVerdict, JarosVerdict, AgenticVerdict, GenVerdict, Counted, NothingToTry,
         Stays, run, Solving
<1>2. pc \in Solving /\ Path # "task"
  BY <1>1 DEF TreeInv, TaskAlone, Solving, AfterFix
<1>3. /\ good[F] # {} => Path = "gen" /\ top = 2
      /\ Path = "gen" /\ top = 2 => alt \in good[F]
  BY <1>1 DEF KeepInv
<1>4. CASE NothingToTry
  BY <1>1, <1>2, <1>3, <1>4, KeepSolving DEF NothingToTry, AfterFix, repo, solve
<1>5. CASE GherkinVerdict \/ JarosVerdict \/ AgenticVerdict
  <2>1. Path # "gen"
    BY <1>5 DEF GherkinVerdict, JarosVerdict, AgenticVerdict
  <2>2. CASE Passes(cand) /\ pc' \in {"review", "settle"} /\ UNCHANGED cand
    BY <1>1, <1>2, <2>2, PassedIsGood, KeepSolving
  <2>3. CASE Fails
    <3>1. good' = good
      BY <2>3 DEF Fails
    <3> QED
      BY <1>1, <1>2, <1>3, <2>1, <3>1, KeepSolving
  <2> QED
    BY <1>5, <2>2, <2>3 DEF GherkinVerdict, JarosVerdict, AgenticVerdict
<1>6. CASE GenVerdict
  <2>0. Path = "gen" /\ top \in -1..2
    BY <1>6 DEF GenVerdict, TInv, TypeOK
  <2>1. CASE Passes(cand) /\ Counted(2)
    <3>1. top' = 2 /\ alt' \in good'[F] /\ (pc' = "settle" => cand' = alt') /\ pc' \in {"settle", "try"}
      <4>1. cand \in good'[F] /\ good[F] \subseteq good'[F]
        BY <1>2, <2>1, PassedIsGood
      <4>2. CASE top = 2
        \* an earlier candidate passed too, and stays
        <5>1. alt' = alt /\ top' = 2
          BY <2>1, <4>2 DEF Counted
        <5> QED
          BY <1>3, <2>0, <2>1, <4>1, <4>2, <5>1 DEF Counted
      <4>3. CASE top < 2
        BY <2>1, <4>1, <4>3 DEF Counted
      <4> QED
        BY <2>0, <4>2, <4>3
    <3> QED
      BY <1>1, <1>2, <2>0, <2>1, <3>1, PassedIsGood, KeepSolving DEF AfterFix
  <2>2. CASE UNCHANGED good /\ \E c \in 0..1 : Counted(c)
    <3>1. PICK c \in 0..1 : Counted(c)
      BY <2>2
    <3>2. (top = 2 => top' = 2 /\ alt' = alt) /\ (top' = 2 => top = 2)
      BY <2>0, <3>1 DEF Counted
    <3>3. (pc' = "settle" => cand' = alt') /\ pc' \in {"settle", "try"}
      BY <3>1 DEF Counted
    <3> QED
      BY <1>1, <1>2, <1>3, <2>0, <2>2, <3>2, <3>3, KeepSolving DEF AfterFix
  <2> QED
    BY <1>6, <2>1, <2>2 DEF GenVerdict, Fails
<1> QED
  BY <1>4, <1>5, <1>6 DEF Verdict

LEMMA KeepReview ==
    ASSUME TInv, TreeInv, KeepInv, Review \/ Try
    PROVE  KeepInv'
<1>1. /\ Stays /\ UNCHANGED kept /\ pc \in {"try"} \cup AfterFix
      /\ pc' \in Solving \ {"author"} /\ (pc' = "run" => pc = "try") /\ pc' # "try"
  BY DEF Review, Try, SignOff, NoReview, Signed, Ensemble, NoEnsemble, Mine, TryOther, Theirs,
         Stays, run, Solving, AfterFix
<1>2. pc \in Solving /\ Path # "task"
  BY <1>1 DEF TreeInv, TaskAlone, Solving, AfterFix
<1>3. CASE UNCHANGED <<good, cand, top>> /\ (pc' = "run" => UNCHANGED alt)
  <2>1. pc' \in AfterFix \cup {"settle"} => pc \in AfterFix
    BY <1>1 DEF Try, Review, SignOff, NoReview, Signed, Ensemble, NoEnsemble, Mine, TryOther, Theirs,
                AfterFix
  <2> QED
    BY <1>1, <1>2, <1>3, <2>1, KeepSolving DEF KeepInv
<1>4. CASE \E c : Passes(c) /\ cand' = c /\ pc' \in AfterFix \cup {"settle"}
  <2>1. PICK c : Passes(c) /\ cand' = c
    BY <1>4
  <2>2. pc' \notin {"try", "run"}
    BY <1>4 DEF AfterFix
  <2> QED
    BY <1>1, <1>2, <2>1, <2>2, PassedIsGood, KeepSolving
<1> QED
  <2>1. CASE Signed
    BY <2>1, <1>3, <1>4 DEF Signed, Fails, AfterFix
  <2>2. CASE Mine
    BY <2>2, <1>3, <1>4 DEF Mine, Fails, AfterFix, solve
  <2>3. CASE Theirs
    BY <2>3, <1>3, <1>4 DEF Theirs, Fails, AfterFix
  <2>4. CASE Try \/ SignOff \/ NoReview \/ Ensemble \/ NoEnsemble \/ TryOther
    BY <2>4, <1>3 DEF Try, SignOff, NoReview, Ensemble, NoEnsemble, TryOther, solve
  <2> QED
    BY <2>1, <2>2, <2>3, <2>4 DEF Review

LEMMA KeepAway ==
    ASSUME TInv, pc' \notin Solving \cup {"consolidate", "oracle"}
    PROVE  KeepInv'
BY DEF KeepInv, Solving, AfterFix

LEMMA KeepSettle ==
    ASSUME TInv, TreeInv, KeepInv, Settle \/ SolveTask
    PROVE  KeepInv'
<1>1. /\ Fs' = Fs /\ Path' = Path /\ fi' = fi + 1 /\ UNCHANGED good
      /\ \E c \in Code : kept' = [kept EXCEPT ![F] = c] /\ (Settle => c = cand)
      /\ pc \in {"settle", "author"}
  BY DEF Settle, SolveTask, run, Fs, Task, Path, TInv, TypeOK
<1>2. /\ Fs \in Seq(Funcs) /\ fi \in DOMAIN Fs /\ fi \in Nat /\ F = Fs[fi] /\ F \in Funcs
      /\ \A i \in DOMAIN Fs : i \in Nat /\ Fs[i] \in Funcs /\ (i # fi => Fs[i] # F)
      /\ kept \in [Funcs -> Code] /\ todo # <<>>
  <2>1. todo # <<>> /\ fi \in DOMAIN Fs /\ fi \in Nat /\ kept \in [Funcs -> Code]
    BY <1>1 DEF TInv, TypeOK, Placed, Solving
  <2> QED
    BY <2>1, TaskFacts DEF F
<1>3. good[F] # {} => kept'[F] \in good[F]
  <2>1. CASE Settle
    BY <1>1, <1>2, <2>1 DEF Settle, KeepInv
  <2>2. CASE SolveTask
    BY <2>2 DEF SolveTask, KeepInv
  <2> QED
    BY <2>1, <2>2
<1>4. Settled'
  <2> SUFFICES ASSUME NEW i \in DOMAIN Fs, i < fi + 1, good[Fs[i]] # {}
               PROVE  kept'[Fs[i]] \in good[Fs[i]]
    BY <1>1 DEF Settled
  <2>1. CASE i = fi
    BY <1>2, <1>3, <2>1
  <2>2. CASE i # fi
    <3>1. i < fi /\ Fs[i] # F /\ Fs[i] \in Funcs
      BY <1>2, <2>2
    <3>2. kept'[Fs[i]] = kept[Fs[i]]
      BY <1>1, <1>2, <3>1
    <3> QED
      BY <1>1, <3>1, <3>2 DEF KeepInv, Settled, Solving
  <2> QED
    BY <2>1, <2>2
<1>5. \A i \in DOMAIN Fs : i > fi => good[Fs[i]] = {}
  BY <1>1 DEF KeepInv, Untried, Solving
<1>6. Untried'
  BY <1>1, <1>2, <1>5 DEF Untried
<1>7. pc' = "author" => good'[F'] = {}
  <2> SUFFICES ASSUME pc' = "author" PROVE good'[F'] = {}
    OBVIOUS
  <2>1. F' = Fs[fi + 1] /\ good' = good
    BY <1>1 DEF F
  <2>2. fi + 1 \in DOMAIN Fs
    <3>1. Placed'
      BY TStep DEF Next, Work, TInv
    <3> QED
      BY <1>1, <3>1 DEF Placed, Solving
  <2> QED
    BY <1>2, <1>5, <2>1, <2>2
<1>8. Path = "task" => \A i \in DOMAIN Fs : good[Fs[i]] = {}
  <2>1. Path = "task" => pc = "author"
    BY <1>1 DEF TreeInv, TaskAlone, Solving
  <2> QED
    BY <2>1 DEF KeepInv
<1>9. pc' \in {"author", "consolidate", "oracle", "reset"}
  BY DEF Settle, SolveTask
<1> QED
  BY <1>1, <1>4, <1>6, <1>7, <1>8, <1>9 DEF KeepInv, AfterFix

LEMMA KeepRest ==
    ASSUME TInv, TreeInv, KeepInv, CheckoutTests \/ Author \/ Consolidate \/ ScoreTask
    PROVE  KeepInv'
<1>1. Fs' = Fs /\ Path' = Path
  BY DEF CheckoutTests, Author, Consolidate, ScoreTask, run, Fs, Task, Path
<1>2. CASE CheckoutTests
  <2>1. /\ fi' = 1 /\ good' = [f \in Funcs |-> {}] /\ pc' \in {"red", "author"}
    BY <1>2 DEF CheckoutTests, TInv, Placed
  <2>2. CASE pc' = "author"
    <3>1. todo' # <<>> /\ fi' \in DOMAIN Fs' /\ TInv'
      BY <1>2, <2>2, TStep DEF TInv, Placed, Solving, Next, Work
    <3>2. \A i \in DOMAIN Fs : Fs[i] \in Funcs
      <4>1. todo # <<>>
        BY <1>2 DEF CheckoutTests, TInv, Placed
      <4> QED
        BY <4>1, TaskFacts
    <3> QED
      BY <1>1, <2>1, <2>2, <3>1, <3>2 DEF KeepInv, Settled, Untried, F, AfterFix
  <2> QED
    BY <2>1, <2>2, KeepAway DEF Solving
<1>3. CASE Author
  <2>1. F' = F /\ UNCHANGED <<fi, kept, good>> /\ pc = "author" /\ pc' = "try" /\ Path # "task"
        /\ top' = -1
    BY <1>1, <1>3 DEF Author, F
  <2> QED
    BY <1>1, <2>1 DEF KeepInv, Settled, Untried, Solving, AfterFix
<1>4. CASE Consolidate
  <2>1. UNCHANGED <<fi, kept, good>> /\ pc = "consolidate" /\ pc' = "oracle"
    BY <1>4 DEF Consolidate
  <2>2. Path # "task"
    BY <2>1 DEF TreeInv, TaskAlone
  <2> QED
    BY <1>1, <2>1, <2>2 DEF KeepInv, Settled, Solving, AfterFix
<1>5. CASE ScoreTask
  <2>1. CASE pc' = "reset"
    BY <2>1, KeepAway DEF Solving
  <2>2. CASE pc' = "author"
    <3>1. fi' = 1 /\ UNCHANGED good /\ \A i \in DOMAIN Fs : good[Fs[i]] = {}
      BY <1>5, <2>2 DEF ScoreTask, KeepInv
    <3>2. fi' \in DOMAIN Fs'
      BY <1>5, <2>2, TStep DEF TInv, Placed, Solving, Next, Work
    <3> QED
      BY <1>1, <2>2, <3>1, <3>2 DEF KeepInv, Settled, Untried, F, AfterFix
  <2> QED
    BY <1>5, <2>1, <2>2 DEF ScoreTask
<1> QED
  BY <1>2, <1>3, <1>4, <1>5

LEMMA KeepStep == TInv /\ TreeInv /\ KeepInv /\ [Next]_vars => KeepInv'
<1> SUFFICES ASSUME TInv, TreeInv, KeepInv, [Next]_vars PROVE KeepInv'
  OBVIOUS
<1>1. CASE UNCHANGED vars \/ StuckEnds
  <2>1. UNCHANGED <<run, pc, fi, kept, solve, good>>
    BY <1>1 DEF vars, StuckEnds
  <2> QED
    BY <2>1 DEF KeepInv, Settled, Untried, F, Fs, Task, Path, run, solve
<1>2. CASE (\E j \in Jobs : StartEval(j)) \/ SkipTask \/ NextTask \/ CheckoutParent \/ RedRun
           \/ CheckoutCommit \/ GreenRun \/ Reset \/ Clean \/ Raise \/ Kill \/ Score
  <2>1. pc' \in {"rest", "parent", "tests", "commit", "green", "reset", "clean"}
    BY <1>2 DEF StartEval, SkipTask, NextTask, CheckoutParent, RedRun, CheckoutCommit, GreenRun,
                Reset, Clean, Raise, Kill, Score
  <2> QED
    BY <2>1, KeepAway DEF Solving
<1>3. CASE Next /\ ~StuckEnds
  BY <1>2, <1>3, KeepVerdict, KeepReview, KeepSettle, KeepRest DEF Next, Work, Verdict, Review
<1> QED
  BY <1>1, <1>3

(* Whatever revision, baseline or later candidate came after, a function    *)
(* whose self-tests some code passed keeps a code that did.                 *)
THEOREM KeepsWhatPassed == Spec => []NeverDegraded
<1>1. Init => KeepInv
  BY DEF Init, KeepInv, Solving, AfterFix
<1>2. TInv /\ KeepInv => NeverDegraded
  <2> SUFFICES ASSUME TInv, KeepInv, pc \notin {"rest", "reset", "clean"}
               PROVE  Settled
    BY DEF NeverDegraded, Settled
  <2>1. CASE pc \in Solving \cup {"consolidate", "oracle"}
    BY <2>1 DEF KeepInv
  <2>2. CASE pc \notin Solving \cup {"consolidate", "oracle"}
    <3>1. fi = 1 /\ todo # <<>>
      BY <2>2 DEF TInv, TypeOK, Placed, Solving
    <3>2. \A i \in DOMAIN Fs : i \in Nat /\ i >= 1
      BY <3>1, TaskFacts
    <3> QED
      BY <3>1, <3>2 DEF Settled
  <2> QED
    BY <2>1, <2>2
<1> QED
  BY <1>1, <1>2, KeepStep, TAlways, TreeAlways, PTL DEF Spec

-----------------------------------------------------------------------------
(* The checkout between attempts *)

HomeInv ==
    /\ CleanAtRest
    /\ pc = "clean" => tree.code = Untouched /\ tree.tests = tree.at
    /\ kills = 0 => /\ ~cut
                    /\ todo # <<>> => branch = Home
                    /\ pc = "clean" => tree.at = Home

LEMMA HomeStep == TInv /\ HomeInv /\ [Next]_vars => HomeInv'
<1> SUFFICES ASSUME TInv, HomeInv, [Next]_vars PROVE HomeInv'
  OBVIOUS
<1>1. CASE UNCHANGED vars
  BY <1>1 DEF HomeInv, CleanAtRest, vars, repo, run, ghosts
<1>2. CASE \E j \in Jobs : StartEval(j)
  BY <1>2 DEF StartEval, HomeInv, CleanAtRest, repo, ghosts
<1>3. CASE SkipTask
  BY <1>3 DEF SkipTask, HomeInv, CleanAtRest, repo, ghosts
<1>4. CASE Reset
  <2>1. /\ tree'.code = Untouched /\ tree'.tests = tree'.at
        /\ branch = Home => tree'.at = Home
        /\ pc' = "clean" /\ todo # <<>> /\ UNCHANGED <<run, ghosts>>
    BY <1>4, ReplayAssumption DEF Reset, Checkout, TInv, TypeOK, Placed
  <2> QED
    BY <2>1 DEF HomeInv, CleanAtRest, run, ghosts
<1>5. CASE Clean
  <2>1. /\ tree'.code = tree.code /\ tree'.tests = tree.tests /\ tree'.at = tree.at
        /\ tree'.own = None /\ pc = "clean" /\ pc' = "rest" /\ ~cut' /\ kills' = kills
        /\ branch' = branch /\ todo # <<>>
    BY <1>5 DEF Clean, TInv, TypeOK, Placed
  <2> QED
    BY <2>1 DEF HomeInv, CleanAtRest
<1>6. CASE Kill
  BY <1>6 DEF Kill, HomeInv, CleanAtRest, TInv, TypeOK
<1>7. CASE Raise
  <2>1. pc' = "reset" /\ todo # <<>> /\ UNCHANGED <<branch, ghosts>>
    BY <1>7 DEF Raise, TInv, Placed
  <2> QED
    BY <2>1 DEF HomeInv, CleanAtRest, ghosts
<1>8. CASE NextTask
  BY <1>8 DEF NextTask, HomeInv, CleanAtRest, run, ghosts
<1>9. CASE StuckEnds
  BY <1>9 DEF StuckEnds, HomeInv, CleanAtRest, run, ghosts
<1>10. CASE /\ Next
            /\ ~(\E j \in Jobs : StartEval(j)) /\ ~SkipTask /\ ~Reset /\ ~Clean /\ ~Kill /\ ~Raise
            /\ ~NextTask /\ ~StuckEnds
  <2>1. pc' \notin {"rest", "clean"} /\ UNCHANGED <<run, ghosts>>
    BY <1>10 DEF Next, Work, CheckoutParent, CheckoutTests, Author, Try, NothingToTry,
                 GherkinVerdict, JarosVerdict, AgenticVerdict, GenVerdict, Counted, SignOff,
                 NoReview, Signed, Ensemble, NoEnsemble, Mine, TryOther, Theirs, Settle,
                 Consolidate, Score, SolveTask, ScoreTask, RedRun, CheckoutCommit, GreenRun
  <2> QED
    BY <2>1 DEF HomeInv, CleanAtRest, run, ghosts
<1> QED
  BY <1>1, <1>2, <1>3, <1>4, <1>5, <1>6, <1>7, <1>8, <1>9, <1>10

(* An attempt that is not killed gives the checkout back as it was, however *)
(* it ends.                                                                 *)
THEOREM AttemptsCleanUp == Spec => []CleanAtRest
<1>1. Init => HomeInv
  BY DEF Init, HomeInv, CleanAtRest
<1>2. HomeInv => CleanAtRest
  BY DEF HomeInv
<1> QED
  BY <1>1, <1>2, HomeStep, TAlways, PTL DEF Spec

-----------------------------------------------------------------------------
(***************************************************************************)
(* The behavioural oracles.                                                *)
(***************************************************************************)
Judging == {"inspect", "look"}
Attending == at \in {"poll", "connect", "check", "wait", "talk", "kill"}

(* Which oracle is where. *)
KindFits ==
  /\ at \in {"pick", "poll", "connect", "check"} => kind = "service"
  /\ at \in {"stub", "close"} => kind = "agent"
  /\ at = "wait" => kind \in {"script", "agent"}
  /\ at \in {"talk", "drain"} => kind \in Persistence \cup {"cli"}
  /\ at \in {"provision", "ready", "teardown"} => kind = "redis"
  /\ at \in {"clean", "look"} => kind \in Persistence
  /\ at = "inspect" => kind \notin Persistence
  /\ at \in {"clean", "provision", "ready"} => stage = "drive"
  /\ verdict = "ok" /\ kind \in Persistence => at \in {"teardown", "idle"}

(* How many launches are still to come. *)
Left(more) == Run + more <= MaxRuns
Budget ==
  /\ at \in {"pick", "stub"} => Left(1)
  /\ at \in {"provision", "ready", "clean"} => Left(MaxDrives + 1)
  /\ at = "launch" => Left(1)
  /\ at \in {"launch", "talk"} /\ kind \in Persistence =>
       /\ left \in 1..MaxDrives
       /\ stage # "drive" => left = 1
  /\ at = "launch" /\ kind \in Persistence /\ stage = "drive" => Left(left + 1)
  /\ at = "talk" /\ kind \in Persistence /\ stage = "drive" => Left(left)
  /\ at = "look" /\ stage = "drive" => Left(1)
  /\ at = "connect" => left \in 1..MaxPolls
  /\ at = "poll" => left \in 0..MaxPolls
  /\ at = "check" => left \in 0..MaxChecks

(* The program an oracle attends to: its process group can be named, or its *)
(* leader was collected and whatever helper runs on is a daemon's or apart.  *)
Watched ==
  Attending =>
    /\ Run # 0 /\ hist[Run].kind = kind /\ hist[Run].port = port /\ ~hist[Run].grouped
    /\ kind \in Persistence /\ stage = "reads" => hist[Run].reads
    /\ (leader = "unreaped" \/ (/\ leader = "reaped" /\ at = "kill" /\ Main \notin live
                                /\ kind \in {"service", "script", "agent"}))
    /\ Main \notin live => \A x \in Of(Run) : "daemon" \in habits \/ x[2] = "apart"

(* Every other process that runs has the habits it takes. *)
Survivors ==
  \A x \in live :
    /\ x[2] \in {"quiet", "apart"} => x[2] \in habits
    /\ (Attending /\ x[1] = Run) \/ habits \cap Excused(x[1]) # {}

(* Who listens, and why. *)
Listeners ==
  \A p \in Ports :
    /\ owner[p] = Stub =>
         p = port /\ kind = "agent" /\ at \in {"launch", "wait", "kill", "inspect", "close"}
    /\ owner[p] = Outsider => "race" \in habits
    /\ owner[p] \in Nat \X Roles => owner[p] \in live /\ hist[owner[p][1]].kind = "service"

Containers ==
  /\ "stray" \in boxes => "docker" \in habits
  /\ "up" \in boxes =>
       /\ kind = "redis"
       /\ at \in {"ready", "clean", "launch", "talk", "kill", "drain", "look", "teardown"}

(* Those who may have answered: none of them is of an earlier launch unless  *)
(* it escaped, and before the launch there is no present one.                *)
Answering ==
  /\ answers # {} => kind \in {"service", "agent"}
  /\ \A y \in answers :
       \/ y = Outsider /\ "race" \in habits
       \/ \E r \in 1..Run :
            /\ y \in {r} \X Roles
            /\ Escapes(r) \/ (r = Run /\ at \notin {"pick", "stub", "launch"})

(* The rows of a persistence check, from the command that wrote the oldest  *)
(* of them on, but for those that a helper of an escaped program writes.    *)
Strays(r) == Escapes(r) /\ ~Reads(r)
Rows ==
  kind \in Persistence =>
    /\ at = "launch" /\ stage = "drive" => \A r \in db : Strays(r) \/ Run + left < r + MaxDrives
    /\ at = "talk" /\ stage = "drive" => \A r \in db : Strays(r) \/ Run + left <= r + MaxDrives
    /\ \/ at = "look" /\ stage = "drive"
       \/ at = "launch" /\ stage = "reads"
       => \A r \in db : Strays(r) \/ Run < r + MaxDrives
    /\ at \in {"talk", "look"} /\ stage = "reads" =>
         \A r \in db : Strays(r) \/ (r < Run /\ Run <= r + MaxDrives)
    /\ verdict = "ok" /\ stage = "reads" =>
         /\ Cardinality(db) = MaxDrives
         /\ \A r \in db : Strays(r) \/ r \in (Run - MaxDrives)..(Run - 1)

OInv ==
  /\ OracleTypeOK /\ KindFits /\ Budget /\ Watched /\ Survivors /\ Listeners
  /\ Containers /\ Answering /\ Rows

(* The bounds are numbers, and none of them is zero. *)
LEMMA Bounds ==
    /\ MaxRuns \in Nat /\ MaxPolls \in Nat /\ MaxChecks \in Nat /\ MaxTurns \in Nat
    /\ MaxDrives \in Nat /\ MaxPolls >= 1 /\ MaxChecks >= 1 /\ MaxDrives >= 1
<1>1. \A m \in {MaxRuns, MaxPolls, MaxChecks, MaxTurns, MaxDrives} : m \in Nat /\ m >= 1
  BY OraclesAssumption
<1> QED
  BY <1>1

(* What a process is, and the launch it belongs to. *)
LEMMA Processes ==
    ASSUME OracleTypeOK
    PROVE  /\ Run \in Nat /\ Run <= MaxRuns
           /\ \A r \in 1..Run : hist[r] \in [kind : Kinds, port : Ports, grouped : BOOLEAN, reads : BOOLEAN]
           /\ \A x \in live : /\ x = <<x[1], x[2]>> /\ x[1] \in 1..Run /\ x[2] \in Roles
                              /\ x[1] \in Nat /\ hist[x[1]].port \in Ports
<1> DEFINE T == [kind : Kinds, port : Ports, grouped : BOOLEAN, reads : BOOLEAN]
<1>1. hist \in Seq(T) /\ Run <= MaxRuns
  BY DEF OracleTypeOK
<1>2. Run \in Nat /\ \A r \in 1..Run : hist[r] \in T
  <2> HIDE DEF T
  <2> QED
    BY <1>1 DEF Run
<1>3. ASSUME NEW x \in live
      PROVE  x = <<x[1], x[2]>> /\ x[1] \in 1..Run /\ x[2] \in Roles
  BY DEF OracleTypeOK
<1>4. ASSUME NEW x \in live
      PROVE  x[1] \in Nat /\ hist[x[1]].port \in Ports
  BY <1>2, <1>3
<1> QED
  BY <1>1, <1>2, <1>3, <1>4

(* What a launch and a kill leave in the history of launches. *)
LEMMA LaunchAppends ==
    ASSUME OracleTypeOK, Launch
    PROVE  /\ hist' \in Seq([kind : Kinds, port : Ports, grouped : BOOLEAN, reads : BOOLEAN])
           /\ Run' = Run + 1 /\ Run' \in 1..Run'
           /\ \A r \in 1..Run : hist'[r] = hist[r]
           /\ hist'[Run'].kind = kind /\ hist'[Run'].port = port /\ ~hist'[Run'].grouped
           /\ kind \in Persistence /\ stage = "reads" => hist'[Run'].reads
           /\ 1..Run \subseteq 1..Run'
<1> DEFINE q == (kind \in Persistence /\ stage = "reads")
           new == [kind |-> kind, port |-> port, grouped |-> FALSE, reads |-> q]
           T == [kind : Kinds, port : Ports, grouped : BOOLEAN, reads : BOOLEAN]
<1>q. q \in BOOLEAN
  OBVIOUS
<1>h. hist \in Seq(T) /\ hist' = Append(hist, new)
  BY DEF OracleTypeOK, Launch
<1>s. kind \in Persistence /\ stage = "reads" => q
  OBVIOUS
<1> HIDE DEF q
<1>1. hist \in Seq(T) /\ hist' = Append(hist, new) /\ new \in T
  BY <1>q, <1>h DEF OracleTypeOK
<1>2. new.kind = kind /\ new.port = port /\ ~new.grouped /\ new.reads = q
  OBVIOUS
<1> HIDE DEF new, T
<1>3. /\ hist' \in Seq(T) /\ Len(hist') = Len(hist) + 1 /\ Len(hist) \in Nat
      /\ hist'[Len(hist) + 1] = new /\ \A r \in 1..Len(hist) : hist'[r] = hist[r]
  BY <1>1
<1>4. kind \in Persistence /\ stage = "reads" => hist'[Len(hist) + 1].reads
  BY <1>s, <1>2, <1>3
<1> QED
  BY <1>2, <1>3, <1>4 DEF Run, T

LEMMA KillNotes ==
    ASSUME OracleTypeOK, Watched, KillTree
    PROVE  /\ hist' \in Seq([kind : Kinds, port : Ports, grouped : BOOLEAN, reads : BOOLEAN])
           /\ Run' = Run /\ Run \in 1..Run
           /\ \A r \in 1..Run : hist'[r].kind = hist[r].kind /\ hist'[r].port = hist[r].port
           /\ \A r \in 1..Run : r # Run => hist'[r] = hist[r]
           /\ hist'[Run].grouped <=> (leader = "unreaped")
<1> DEFINE T == [kind : Kinds, port : Ports, grouped : BOOLEAN, reads : BOOLEAN]
<1>1. PICK g \in BOOLEAN : (g <=> leader = "unreaped") /\ hist' = [hist EXCEPT ![Run].grouped = g]
  <2>1. hist' = [hist EXCEPT ![Run].grouped = (leader = "unreaped")]
    BY DEF KillTree
  <2>2. (leader = "unreaped") \in BOOLEAN
    OBVIOUS
  <2> QED
    BY <2>1, <2>2, Zenon
<1>2. hist \in Seq(T) /\ Run \in Nat /\ Run # 0
  BY Processes DEF OracleTypeOK, Watched, Attending, KillTree
<1>r. Run \in 1..Run /\ hist[Run] \in T
  BY <1>2, Processes
<1>3. [hist[Run] EXCEPT !.grouped = g] \in T /\ [hist[Run] EXCEPT !.grouped = g].grouped = g
  BY <1>r, <1>1
<1>4. /\ [hist[Run] EXCEPT !.grouped = g].kind = hist[Run].kind
      /\ [hist[Run] EXCEPT !.grouped = g].port = hist[Run].port
  BY <1>r
<1> DEFINE e == [hist[Run] EXCEPT !.grouped = g]
<1>5. hist' = [hist EXCEPT ![Run] = e]
  BY <1>1
<1>6. e \in T /\ e.grouped = g /\ e.kind = hist[Run].kind /\ e.port = hist[Run].port
  BY <1>3, <1>4
<1> HIDE DEF e, T
<1>7. /\ hist' \in Seq(T) /\ Len(hist') = Len(hist) /\ hist'[Run] = e
      /\ \A r \in 1..Len(hist) : r # Run => hist'[r] = hist[r]
  BY <1>2, <1>5, <1>6 DEF Run
<1>8. hist'[Run].grouped <=> (leader = "unreaped")
  BY <1>1, <1>6, <1>7, Zenon
<1>9. \A r \in 1..Run : hist'[r].kind = hist[r].kind /\ hist'[r].port = hist[r].port
  BY <1>6, <1>7 DEF Run
<1> QED
  BY <1>2, <1>7, <1>8, <1>9 DEF Run, T

(* A process that is left of a launch is the present one's or escaped. *)
LEMMA WritersEscape ==
    ASSUME OracleTypeOK, Survivors, NEW x \in live \cup Earlier
    PROVE  /\ x[1] \in 0..Run
           /\ (Attending /\ x[1] = Run /\ x \in live) \/ Escapes(x[1])
<1>1. CASE x \in live
  BY <1>1, Processes DEF Survivors, Escapes
<1>2. CASE x \in Earlier
  <2>1. x[1] = 0 /\ x[2] \in {"quiet", "apart"} \cap habits
    BY <1>2 DEF Earlier
  <2>2. Excused(0) = {"quiet", "apart"}
    BY DEF Excused
  <2> QED
    BY <2>1, <2>2, Processes DEF Escapes
<1> QED
  BY <1>1, <1>2

(* Types. *)
LEMMA OTyped ==
    ASSUME OInv, OracleNext
    PROVE  OracleTypeOK'
<1> USE OraclesAssumption, Bounds, Processes DEF OInv, harness, world, Closing, Fail,
   Persistence, Kinds, Attending, Run, Main, OracleTypeOK, KindFits, Budget, Left, Listeners
<1>1. CASE FreePort
  BY <1>1 DEF FreePort
<1>2. CASE HostStub
  BY <1>2 DEF HostStub
<1>3. CASE CloseStub
  BY <1>3 DEF CloseStub
<1>4. CASE LaunchFails
  BY <1>4 DEF LaunchFails
<1>5. CASE Launch
  <2>1. /\ hist' \in Seq([kind : Kinds, port : Ports, grouped : BOOLEAN, reads : BOOLEAN])
        /\ Run' = Run + 1 /\ 1..Run \subseteq 1..Run' /\ Run' \in 1..Run'
    BY <1>5, LaunchAppends
  <2>2. live' \subseteq (1..Run') \X Roles
    BY <1>5, <2>1 DEF Launch, Roles
  <2>3. /\ owner' \in [Ports -> {Free, Outsider, Stub} \cup ((1..Run') \X Roles)]
        /\ answers' \subseteq ((1..Run') \X Roles) \cup {Outsider}
        /\ db' \subseteq 0..Run' /\ Run' <= MaxRuns
    BY <1>5, <2>1 DEF Launch
  <2>4. left' \in 0..(MaxPolls + MaxChecks + MaxDrives)
    BY <1>5 DEF Launch
  <2> QED
    BY <1>5, <2>1, <2>2, <2>3, <2>4 DEF Launch, Attend
<1>6. CASE Polled
  BY <1>6 DEF Polled
<1>7. CASE Connect
  BY <1>7 DEF Connect
<1>8. CASE AllAsked
  BY <1>8 DEF AllAsked
<1>9. CASE Exited
  BY <1>9 DEF Exited
<1>10. CASE TimedOut
  BY <1>10 DEF TimedOut
<1>11. CASE Asked
  <2>1. owner[port] \in {Free, Outsider, Stub} \cup ((1..Run) \X Roles) /\ owner[port] # Stub
    BY <1>11 DEF Asked
  <2>2. answers' \subseteq ((1..Run) \X Roles) \cup {Outsider}
    BY <1>11, <2>1 DEF Asked
  <2>3. left' \in 0..(MaxPolls + MaxChecks + MaxDrives) /\ verdict' \in {"none", "ok", "fail"}
    BY <1>11 DEF Asked
  <2> QED
    BY <2>2, <2>3, <1>11 DEF Asked
<1>12. CASE ReadToEnd
  BY <1>12 DEF ReadToEnd, Holders
<1>13. CASE ReadTimesOut
  BY <1>13 DEF ReadTimesOut, Holders
<1>14. CASE Drain
  BY <1>14 DEF Drain
<1>15. CASE Inspect
  BY <1>15 DEF Inspect
<1>16. CASE KillTree
  <2>1. /\ hist' \in Seq([kind : Kinds, port : Ports, grouped : BOOLEAN, reads : BOOLEAN])
        /\ Run' = Run
    BY <1>16, KillNotes
  <2>2. /\ live' \subseteq live
        /\ owner' \in [Ports -> {Free, Outsider, Stub} \cup ((1..Run) \X Roles)]
    BY <1>16 DEF KillTree, Released
  <2> QED
    BY <1>16, <2>1, <2>2 DEF KillTree, AfterKill
<1>17. CASE CleanDatastore
  <2>1. left' \in 0..(MaxPolls + MaxChecks + MaxDrives)
    BY <1>17 DEF CleanDatastore
  <2> QED
    BY <1>17, <2>1 DEF CleanDatastore
<1>18. CASE Look
  BY <1>18 DEF Look, Held
<1>19. CASE Provision
  BY <1>19 DEF Provision
<1>20. CASE Probed
  BY <1>20 DEF Probed
<1>21. CASE Teardown
  BY <1>21 DEF Teardown
<1>22. ASSUME NEW x \in live, Fork(x)
      PROVE  OracleTypeOK'
  <2>1. x[1] \in 1..Run
    OBVIOUS
  <2>2. PICK role \in Roles : live' = live \cup {<<x[1], role>>}
    BY <1>22 DEF Fork, Roles
  <2>3. live' \subseteq (1..Run) \X Roles
    BY <2>1, <2>2
  <2> QED
    BY <1>22, <2>3 DEF Fork
<1>23. ASSUME NEW x \in live, Listen(x)
      PROVE  OracleTypeOK'
  <2>1. x \in (1..Run) \X Roles
    OBVIOUS
  <2>2. owner' \in [Ports -> {Free, Outsider, Stub} \cup ((1..Run) \X Roles)]
    BY <1>23, <2>1 DEF Listen
  <2> QED
    BY <1>23, <2>2 DEF Listen
<1>24. ASSUME NEW x \in live, Request(x)
      PROVE  OracleTypeOK'
  BY <1>24 DEF Request
<1>25. ASSUME NEW x \in live, End(x)
      PROVE  OracleTypeOK'
  <2>1. /\ live' \subseteq live
        /\ owner' \in [Ports -> {Free, Outsider, Stub} \cup ((1..Run) \X Roles)]
    BY <1>25 DEF End, Released
  <2>r. RowsAfter \subseteq db \cup {Run}
    BY DEF RowsAfter
  <2>2. RowsAfter \subseteq 0..Run
    BY <2>r, Run \in 0..Run
  <2>3. db' \subseteq 0..Run
    BY <1>25, <2>2 DEF End
  <2> QED
    <3>1. UNCHANGED <<habits, harness, hist, answers, steps, keeps, boxes>>
      BY <1>25 DEF End
    <3> QED
      BY <2>1, <2>3, <3>1
<1>26. CASE Others
  <2>1. owner' \in [Ports -> {Free, Outsider, Stub} \cup ((1..Run) \X Roles)]
    BY <1>26 DEF Others
  <2>2. UNCHANGED <<habits, harness, hist, live, answers, steps, db, keeps, boxes>>
    BY <1>26 DEF Others
  <2> QED
    BY <2>1, <2>2
<1>27. ASSUME NEW k \in Kinds, RunOneTask(k)
      PROVE  OracleTypeOK'
  BY <1>27 DEF RunOneTask, First
<1>w. ASSUME NEW x \in live \cup Earlier, Write(x)
      PROVE  OracleTypeOK'
  <2>1. db' \subseteq 0..Run
    <3>1. x[1] \in 0..Run
      BY WritersEscape
    <3>2. db' = db \cup {x[1]} /\ db \subseteq 0..Run
      BY <1>w DEF Write
    <3> QED
      BY <3>1, <3>2
  <2>2. UNCHANGED <<habits, harness, hist, live, owner, answers, steps, keeps, boxes>>
    BY <1>w DEF Write
  <2> QED
    BY <2>1, <2>2
<1> QED
  BY <1>w, <1>1, <1>2, <1>3, <1>4, <1>5, <1>6, <1>7, <1>8, <1>9, <1>10, <1>11, <1>12, <1>13, <1>14,
     <1>15, <1>16, <1>17, <1>18, <1>19, <1>20, <1>21, <1>22, <1>23, <1>24, <1>25, <1>26, <1>27
     DEF OracleNext, Oracle

(* The oracles keep to their own lines. *)
LEMMA OKinds ==
    ASSUME OInv, OracleNext
    PROVE  KindFits'
<1> USE OraclesAssumption, Bounds, Processes DEF OInv, harness, world, Closing, Fail,
   Persistence, Kinds, Attending, Run, Main, OracleTypeOK, KindFits
<1>1. CASE FreePort \/ HostStub \/ CloseStub \/ LaunchFails
  BY <1>1 DEF FreePort, HostStub, CloseStub, LaunchFails
<1>2. CASE Launch
  BY <1>2 DEF Launch, Attend
<1>3. CASE Polled \/ Connect \/ Asked \/ AllAsked \/ Exited \/ TimedOut
  BY <1>3 DEF Polled, Connect, Asked, AllAsked, Exited, TimedOut
<1>4. CASE ReadToEnd \/ ReadTimesOut \/ Drain
  BY <1>4 DEF ReadToEnd, Holders, ReadTimesOut, Drain
<1>5. CASE KillTree
  BY <1>5 DEF KillTree, AfterKill, Group, Released
<1>6. CASE Inspect
  BY <1>6 DEF Inspect
<1>7. CASE CleanDatastore \/ Look
  BY <1>7 DEF CleanDatastore, Look, Held
<1>8. CASE Provision \/ Probed \/ Teardown
  BY <1>8 DEF Provision, Probed, Teardown
<1>9. ASSUME NEW x \in live, Fork(x) \/ Listen(x) \/ Request(x) \/ End(x)
      PROVE  KindFits'
  BY <1>9 DEF Fork, Listen, Request, End, Released
<1>10. CASE Others
  BY <1>10 DEF Others
<1>11. ASSUME NEW k \in Kinds, RunOneTask(k)
      PROVE  KindFits'
  BY <1>11 DEF RunOneTask, First
<1>w. ASSUME NEW x \in live \cup Earlier, Write(x)
      PROVE  KindFits'
  BY <1>w DEF Write
<1> QED
  BY <1>w, <1>1, <1>2, <1>3, <1>4, <1>5, <1>6, <1>7, <1>8, <1>9, <1>10, <1>11 DEF OracleNext, Oracle

(* Launches, polls, checks and commands are counted down. *)
LEMMA OBudgeted ==
    ASSUME OInv, OracleNext
    PROVE  Budget'
<1> USE OraclesAssumption, Bounds, Processes DEF OInv, harness, world, Closing, Fail,
   Persistence, Kinds, Attending, Run, Main, OracleTypeOK, KindFits, Budget, Left
<1>1. CASE FreePort \/ HostStub \/ CloseStub \/ LaunchFails
  BY <1>1 DEF FreePort, HostStub, CloseStub, LaunchFails
<1>2. CASE Launch
  <2>1. Run' = Run + 1
    BY <1>2, LaunchAppends
  <2> QED
    BY <1>2, <2>1 DEF Launch, Attend
<1>3. CASE Polled \/ Connect \/ Asked
  BY <1>3 DEF Polled, Connect, Asked
<1>4. CASE AllAsked \/ Exited \/ TimedOut
  BY <1>4 DEF AllAsked, Exited, TimedOut
<1>5. CASE ReadToEnd
  BY <1>5 DEF ReadToEnd, Holders
<1>6. CASE ReadTimesOut \/ Drain
  BY <1>6 DEF ReadTimesOut, Holders, Drain
<1>7. CASE KillTree
  <2>1. Run' = Run
    BY <1>7 DEF KillTree
  <2> QED
    BY <1>7, <2>1 DEF KillTree, AfterKill
<1>8. CASE Inspect
  BY <1>8 DEF Inspect
<1>9. CASE CleanDatastore
  BY <1>9 DEF CleanDatastore
<1>10. CASE Look
  BY <1>10 DEF Look, Held
<1>11. CASE Provision \/ Probed \/ Teardown
  BY <1>11 DEF Provision, Probed, Teardown
<1>12. ASSUME NEW x \in live, Fork(x) \/ Listen(x) \/ Request(x) \/ End(x)
      PROVE  Budget'
  BY <1>12 DEF Fork, Listen, Request, End, Released
<1>13. CASE Others
  BY <1>13 DEF Others
<1>14. ASSUME NEW k \in Kinds, RunOneTask(k)
      PROVE  Budget'
  BY <1>14 DEF RunOneTask, First
<1>w. ASSUME NEW x \in live \cup Earlier, Write(x)
      PROVE  Budget'
  BY <1>w DEF Write
<1> QED
  BY <1>w, <1>1, <1>2, <1>3, <1>4, <1>5, <1>6, <1>7, <1>8, <1>9, <1>10, <1>11, <1>12, <1>13, <1>14
     DEF OracleNext, Oracle

(* The oracle keeps hold of the program it attends to. *)
LEMMA OWatched ==
    ASSUME OInv, OracleNext
    PROVE  Watched'
<1> USE OraclesAssumption, Bounds, Processes DEF OInv, harness, world, Closing, Fail,
   Persistence, Kinds, Attending, Run, Main, OracleTypeOK, KindFits, Watched, Of
<1>1. CASE FreePort \/ HostStub \/ CloseStub \/ LaunchFails
  BY <1>1 DEF FreePort, HostStub, CloseStub, LaunchFails
<1>2. CASE Launch
  <2>1. /\ Run' = Run + 1 /\ Run' \in 1..Run'
        /\ hist'[Run'].kind = kind /\ hist'[Run'].port = port /\ ~hist'[Run'].grouped
        /\ kind \in Persistence /\ stage = "reads" => hist'[Run'].reads
    BY <1>2, LaunchAppends
  <2>2. leader' = "unreaped" /\ Main' \in live' /\ UNCHANGED <<kind, port, stage>>
    BY <1>2, <2>1 DEF Launch
  <2> QED
    BY <2>1, <2>2
<1>3. CASE Polled \/ Connect \/ Asked
  <2>1. UNCHANGED <<habits, kind, hist, live, port>> /\ kind = "service" /\ Attending
    BY <1>3 DEF Polled, Connect, Asked
  <2>2. leader' = leader \/ (at' = "kill" /\ leader' = "reaped" /\ Main \notin live)
    BY <1>3 DEF Polled, Connect, Asked
  <2>3. leader = "reaped" => at = "kill"
    BY <2>1
  <2>4. at # "kill"
    BY <1>3 DEF Polled, Connect, Asked
  <2> QED
    BY <2>1, <2>2, <2>3, <2>4
<1>4. CASE AllAsked \/ Exited \/ TimedOut
  BY <1>4 DEF AllAsked, Exited, TimedOut
<1>5. CASE ReadToEnd
  BY <1>5 DEF ReadToEnd, Holders
<1>6. CASE ReadTimesOut
  BY <1>6 DEF ReadTimesOut, Holders
<1>7. CASE Drain
  BY <1>7 DEF Drain
<1>8. CASE KillTree
  BY <1>8 DEF KillTree, AfterKill, Group, Released
<1>9. CASE Inspect \/ CleanDatastore \/ Look
  BY <1>9 DEF Inspect, CleanDatastore, Look, Held
<1>10. CASE Provision \/ Probed \/ Teardown
  BY <1>10 DEF Provision, Probed, Teardown
<1>11. ASSUME NEW x \in live, Fork(x)
      PROVE  Watched'
  BY <1>11 DEF Fork
<1>12. ASSUME NEW x \in live, Listen(x)
      PROVE  Watched'
  BY <1>12 DEF Listen
<1>13. ASSUME NEW x \in live, Request(x)
      PROVE  Watched'
  BY <1>13 DEF Request
<1>14. ASSUME NEW x \in live, End(x)
      PROVE  Watched'
  BY <1>14 DEF End, Released
<1>15. CASE Others
  BY <1>15 DEF Others
<1>16. ASSUME NEW k \in Kinds, RunOneTask(k)
      PROVE  Watched'
  BY <1>16 DEF RunOneTask, First
<1>w. ASSUME NEW x \in live \cup Earlier, Write(x)
      PROVE  Watched'
  BY <1>w DEF Write
<1> QED
  BY <1>w, <1>1, <1>2, <1>3, <1>4, <1>5, <1>6, <1>7, <1>8, <1>9, <1>10, <1>11, <1>12, <1>13, <1>14,
     <1>15, <1>16 DEF OracleNext, Oracle

(* Only the kill and the end of the output let go of a program. *)
LEMMA OSurvivors ==
    ASSUME OInv, OracleNext
    PROVE  Survivors'
<1> USE OraclesAssumption, Bounds, Processes DEF OInv, harness, world, Closing, Fail,
   Persistence, Kinds, Attending, Run, Main, OracleTypeOK, KindFits, Watched, Survivors, Excused
<1>1. CASE FreePort \/ HostStub \/ CloseStub \/ LaunchFails
  BY <1>1 DEF FreePort, HostStub, CloseStub, LaunchFails
<1>2. CASE Launch
  <2>1. /\ Run' = Run + 1 /\ \A r \in 1..Run : hist'[r] = hist[r]
    BY <1>2, LaunchAppends
  <2>2. live' = live \cup {<<Run + 1, "main">>} /\ Attending' /\ ~Attending /\ habits' = habits
    BY <1>2 DEF Launch, Attend
  <2>3. ASSUME NEW x \in live
        PROVE  /\ x[2] \in {"quiet", "apart"} => x[2] \in habits
               /\ habits \cap Excused(x[1])' # {}
    <3>1. hist'[x[1]] = hist[x[1]]
      BY <2>1
    <3> QED
      BY <2>2, <3>1
  <2> QED
    BY <2>1, <2>2, <2>3
<1>3. CASE Polled \/ Connect \/ Asked
  BY <1>3 DEF Polled, Connect, Asked
<1>4. CASE AllAsked \/ Exited \/ TimedOut
  BY <1>4 DEF AllAsked, Exited, TimedOut
<1>5. CASE ReadToEnd
  <2>1. UNCHANGED <<habits, hist, live>> /\ at = "talk" /\ ~Attending'
    BY <1>5 DEF ReadToEnd
  <2>2. ASSUME NEW x \in live, x[1] = Run
        PROVE  habits \cap Excused(x[1]) # {}
    <3>1. x[2] = "quiet"
      BY <1>5, <2>2 DEF ReadToEnd, Holders, Roles
    <3>2. Excused(x[1]) = {"quiet"}
      BY <2>1, <2>2
    <3> QED
      BY <3>1, <3>2
  <2> QED
    BY <2>1, <2>2
<1>6. CASE ReadTimesOut \/ Drain
  BY <1>6 DEF ReadTimesOut, Holders, Drain
<1>7. CASE KillTree
  <2>1. /\ Run' = Run
        /\ \A r \in 1..Run : r # Run => hist'[r] = hist[r]
        /\ \A r \in 1..Run : hist'[r].kind = hist[r].kind
        /\ hist'[Run].grouped <=> (leader = "unreaped")
    BY <1>7, KillNotes
  <2>2. UNCHANGED habits /\ live' \subseteq live /\ at = "kill"
    BY <1>7 DEF KillTree
  <2>3. ASSUME NEW x \in live', x[1] = Run
        PROVE  habits \cap Excused(x[1])' # {}
    <3>1. CASE leader = "unreaped"
      <4>1. x \in live /\ x \notin Group(Run)
        BY <1>7, <3>1, <2>3 DEF KillTree
      <4>2. x[2] = "apart"
        BY <4>1, <2>3 DEF Group, Roles
      <4>r. Run # 0
        BY <2>2
      <4>3. Excused(x[1])' = {"apart"}
        BY <2>1, <2>3, <3>1, <4>r
      <4> QED
        BY <4>1, <4>2, <4>3
    <3>2. CASE leader # "unreaped"
      <4>1. kind \in {"service", "script", "agent"} /\ ("daemon" \in habits \/ x[2] = "apart")
        BY <3>2, <2>2, <2>3 DEF Of
      <4>2. Excused(x[1])' = {"daemon", "apart"}
        BY <2>1, <2>2, <2>3, <3>2, <4>1
      <4> QED
        BY <2>2, <2>3, <4>1, <4>2
    <3> QED
      BY <3>1, <3>2
  <2>4. ASSUME NEW x \in live', x[1] # Run
        PROVE  habits \cap Excused(x[1])' # {}
    <3>1. x \in live /\ hist'[x[1]] = hist[x[1]]
      BY <2>1, <2>2, <2>4
    <3> QED
      BY <2>4, <3>1
  <2> QED
    BY <2>2, <2>3, <2>4
<1>8. CASE Inspect \/ CleanDatastore \/ Look
  BY <1>8 DEF Inspect, CleanDatastore, Look, Held
<1>9. CASE Provision \/ Probed \/ Teardown
  BY <1>9 DEF Provision, Probed, Teardown
<1>10. ASSUME NEW x \in live, Fork(x)
      PROVE  Survivors'
  <2>1. UNCHANGED <<habits, hist, harness>>
    BY <1>10 DEF Fork
  <2>2. PICK role : /\ live' = live \cup {<<x[1], role>>}
                    /\ role \in {"quiet", "apart"} => role \in habits
    BY <1>10 DEF Fork
  <2>3. <<x[1], role>>[1] = x[1] /\ <<x[1], role>>[2] = role
    OBVIOUS
  <2>4. ASSUME NEW y \in live'
        PROVE  /\ y[2] \in {"quiet", "apart"} => y[2] \in habits
               /\ (Attending /\ y[1] = Run) \/ habits \cap Excused(y[1]) # {}
    <3>1. CASE y \in live
      BY <3>1
    <3>2. CASE y = <<x[1], role>>
      <4>1. (Attending /\ x[1] = Run) \/ habits \cap Excused(x[1]) # {}
        OBVIOUS
      <4> QED
        BY <2>2, <2>3, <3>2, <4>1
    <3> QED
      BY <2>2, <2>4, <3>1, <3>2
  <2> QED
    BY <2>1, <2>4
<1>11. ASSUME NEW x \in live, Listen(x)
      PROVE  Survivors'
  BY <1>11 DEF Listen
<1>12. ASSUME NEW x \in live, Request(x)
      PROVE  Survivors'
  BY <1>12 DEF Request
<1>13. ASSUME NEW x \in live, End(x)
      PROVE  Survivors'
  BY <1>13 DEF End, Released
<1>14. CASE Others
  BY <1>14 DEF Others
<1>15. ASSUME NEW k \in Kinds, RunOneTask(k)
      PROVE  Survivors'
  BY <1>15 DEF RunOneTask, First
<1>w. ASSUME NEW x \in live \cup Earlier, Write(x)
      PROVE  Survivors'
  BY <1>w DEF Write
<1> QED
  BY <1>w, <1>1, <1>2, <1>3, <1>4, <1>5, <1>6, <1>7, <1>8, <1>9, <1>10, <1>11, <1>12, <1>13, <1>14,
     <1>15 DEF OracleNext, Oracle

(* Ports. *)
LEMMA OListeners ==
    ASSUME OInv, OracleNext
    PROVE  Listeners'
<1> USE OraclesAssumption, Bounds, Processes DEF OInv, harness, world, Closing, Fail,
   Persistence, Kinds, Attending, Run, Main, OracleTypeOK, KindFits, Watched, Listeners
<1>1. CASE FreePort
  BY <1>1 DEF FreePort
<1>2. CASE HostStub
  <2>1. at = "stub" /\ UNCHANGED <<habits, kind, hist, live>> /\ kind = "agent"
    BY <1>2 DEF HostStub
  <2>2. CASE at' = "launch" /\ owner' = [owner EXCEPT ![port'] = Stub]
    BY <2>1, <2>2
  <2>3. CASE UNCHANGED <<port, owner>>
    BY <2>1, <2>3
  <2> QED
    BY <1>2, <2>2, <2>3 DEF HostStub
<1>3. CASE CloseStub
  BY <1>3 DEF CloseStub
<1>4. CASE LaunchFails
  BY <1>4 DEF LaunchFails
<1>5. CASE Launch
  <2>1. \A r \in 1..Run : hist'[r] = hist[r]
    BY <1>5, LaunchAppends
  <2> QED
    BY <1>5, <2>1 DEF Launch, Attend
<1>6. CASE Polled \/ Connect \/ Asked
  BY <1>6 DEF Polled, Connect, Asked
<1>7. CASE AllAsked \/ Exited \/ TimedOut
  BY <1>7 DEF AllAsked, Exited, TimedOut
<1>8. CASE ReadToEnd \/ ReadTimesOut \/ Drain
  BY <1>8 DEF ReadToEnd, Holders, ReadTimesOut, Drain
<1>9. CASE KillTree
  <2>1. \A r \in 1..Run : hist'[r].kind = hist[r].kind
    BY <1>9, KillNotes
  <2>2. /\ UNCHANGED <<habits, kind, port>> /\ (kind = "agent" => at' \in {"close", "inspect"})
        /\ at = "kill"
    BY <1>9 DEF KillTree, AfterKill
  <2>3. PICK killed \in SUBSET live :
          /\ live' = live \ killed
          /\ owner' = [p \in Ports |-> IF owner[p] \in killed THEN Free ELSE owner[p]]
    <3> DEFINE D == IF leader = "unreaped" THEN live \cap Group(Run) ELSE {}
    <3>1. live' = live \ D /\ owner' = Released(D)
      BY <1>9 DEF KillTree
    <3>2. D \in SUBSET live
      OBVIOUS
    <3>3. owner' = [p \in Ports |-> IF owner[p] \in D THEN Free ELSE owner[p]]
      BY <3>1 DEF Released
    <3> HIDE DEF D
    <3> QED
      BY <3>1, <3>2, <3>3
  <2>4. ASSUME NEW p \in Ports, owner'[p] # Free
        PROVE  owner'[p] = owner[p] /\ owner[p] \notin killed
    BY <2>3, <2>4
  <2> QED
    BY <2>1, <2>2, <2>3, <2>4
<1>10. CASE Inspect
  BY <1>10 DEF Inspect
<1>11. CASE CleanDatastore
  BY <1>11 DEF CleanDatastore
<1>12. CASE Look
  BY <1>12 DEF Look, Held
<1>13. CASE Provision \/ Probed \/ Teardown
  BY <1>13 DEF Provision, Probed, Teardown
<1>14. ASSUME NEW x \in live, Fork(x)
      PROVE  Listeners'
  BY <1>14 DEF Fork
<1>15. ASSUME NEW x \in live, Listen(x)
      PROVE  Listeners'
  BY <1>15 DEF Listen
<1>16. ASSUME NEW x \in live, Request(x)
      PROVE  Listeners'
  BY <1>16 DEF Request
<1>17. ASSUME NEW x \in live, End(x)
      PROVE  Listeners'
  <2>1. /\ UNCHANGED <<habits, kind, port, hist, at>> /\ live' = live \ {x}
        /\ owner' = [p \in Ports |-> IF owner[p] \in {x} THEN Free ELSE owner[p]]
    BY <1>17 DEF End, Released
  <2> QED
    BY <2>1
<1>18. CASE Others
  BY <1>18 DEF Others
<1>19. ASSUME NEW k \in Kinds, RunOneTask(k)
      PROVE  Listeners'
  BY <1>19 DEF RunOneTask, First
<1>w. ASSUME NEW x \in live \cup Earlier, Write(x)
      PROVE  Listeners'
  BY <1>w DEF Write
<1> QED
  BY <1>w, <1>1, <1>2, <1>3, <1>4, <1>5, <1>6, <1>7, <1>8, <1>9, <1>10, <1>11, <1>12, <1>13, <1>14,
     <1>15, <1>16, <1>17, <1>18, <1>19 DEF OracleNext, Oracle

(* Containers. *)
LEMMA OContained ==
    ASSUME OInv, OracleNext
    PROVE  Containers'
<1> USE OraclesAssumption, Bounds, Processes DEF OInv, harness, world, Closing, Fail,
   Persistence, Kinds, Attending, Run, Main, OracleTypeOK, KindFits, Containers
<1>1. CASE FreePort \/ HostStub \/ CloseStub \/ LaunchFails
  BY <1>1 DEF FreePort, HostStub, CloseStub, LaunchFails
<1>2. CASE Launch
  BY <1>2 DEF Launch, Attend
<1>3. CASE Polled \/ Connect \/ Asked
  BY <1>3 DEF Polled, Connect, Asked
<1>4. CASE AllAsked \/ Exited \/ TimedOut
  BY <1>4 DEF AllAsked, Exited, TimedOut
<1>5. CASE ReadToEnd \/ ReadTimesOut \/ Drain
  BY <1>5 DEF ReadToEnd, Holders, ReadTimesOut, Drain
<1>6. CASE KillTree
  BY <1>6 DEF KillTree, AfterKill, Group, Released
<1>7. CASE Inspect \/ CleanDatastore \/ Look
  BY <1>7 DEF Inspect, CleanDatastore, Look, Held
<1>8. CASE Provision
  BY <1>8 DEF Provision
<1>9. CASE Probed
  BY <1>9 DEF Probed
<1>10. CASE Teardown
  BY <1>10 DEF Teardown
<1>11. ASSUME NEW x \in live, Fork(x) \/ Listen(x) \/ Request(x) \/ End(x)
      PROVE  Containers'
  BY <1>11 DEF Fork, Listen, Request, End, Released
<1>12. CASE Others
  BY <1>12 DEF Others
<1>13. ASSUME NEW k \in Kinds, RunOneTask(k)
      PROVE  Containers'
  BY <1>13 DEF RunOneTask, First
<1>w. ASSUME NEW x \in live \cup Earlier, Write(x)
      PROVE  Containers'
  BY <1>w DEF Write
<1> QED
  BY <1>w, <1>1, <1>2, <1>3, <1>4, <1>5, <1>6, <1>7, <1>8, <1>9, <1>10, <1>11, <1>12, <1>13 DEF
     OracleNext, Oracle

(* Whoever answers is of the present launch or escaped. *)
LEMMA OAnswering ==
    ASSUME OInv, OracleNext
    PROVE  Answering'
<1> USE OraclesAssumption, Bounds, Processes DEF OInv, harness, world, Closing, Fail,
   Persistence, Kinds, Attending, Run, Main, OracleTypeOK, KindFits, Answering
<1> DEFINE Before(l) == l \in {"pick", "stub", "launch"}
\* A step that asks nobody, launches nothing and kills nothing.
<1>a. ASSUME UNCHANGED <<habits, kind, hist, answers>>, ~Before(at')
      PROVE  Answering'
  BY <1>a DEF Escapes, Excused
<1>b. ASSUME UNCHANGED <<habits, kind, hist, answers>>, Before(at') => Before(at)
      PROVE  Answering'
  BY <1>b DEF Escapes, Excused
<1>c. ASSUME kind \in Persistence, UNCHANGED <<kind, answers>>
      PROVE  Answering'
  BY <1>c
<1>1. CASE FreePort \/ HostStub
  BY <1>1, <1>b DEF FreePort, HostStub
<1>2. CASE CloseStub \/ LaunchFails
  BY <1>2, <1>a DEF CloseStub, LaunchFails
<1>3. CASE Launch
  <2>1. /\ Run' = Run + 1 /\ \A r \in 1..Run : hist'[r] = hist[r]
        /\ UNCHANGED <<habits, kind, answers>> /\ at = "launch"
    BY <1>3, LaunchAppends DEF Launch
  <2>2. \A r \in 1..Run : Escapes(r) => Escapes(r)'
    BY <2>1 DEF Escapes, Excused
  <2>3. 1..Run \subseteq 1..Run'
    BY <2>1
  <2> QED
    BY <2>1, <2>2, <2>3
<1>4. CASE Polled \/ Connect
  BY <1>4, <1>a DEF Polled, Connect
<1>5. CASE Asked
  <2>1. /\ at = "check" /\ UNCHANGED <<habits, at, kind, hist>> /\ kind = "service"
        /\ answers' \subseteq answers \cup {owner[port]}
        /\ (owner[port] = Free => answers' = answers)
    BY <1>5 DEF Asked
  <2>2. ASSUME owner[port] # Free
        PROVE  \/ owner[port] = Outsider /\ "race" \in habits
               \/ \E r \in 1..Run : owner[port] \in {r} \X Roles /\ (Escapes(r) \/ r = Run)
    <3>1. owner[port] # Stub /\ (owner[port] = Outsider => "race" \in habits)
      BY <2>1 DEF Listeners
    <3>2. CASE owner[port] = Outsider
      BY <3>1, <3>2
    <3>3. CASE owner[port] # Outsider
      <4>1. PICK x \in live : x = owner[port]
        BY <2>2, <3>1, <3>3 DEF Listeners
      <4>2. x[1] \in 1..Run /\ x \in {x[1]} \X Roles
        OBVIOUS
      <4>3. Escapes(x[1]) \/ x[1] = Run
        BY DEF Survivors, Escapes
      <4> QED
        BY <4>1, <4>2, <4>3
    <3> QED
      BY <3>2, <3>3
  <2>3. ASSUME NEW r \in 1..Run, Escapes(r)
        PROVE  Escapes(r)'
    BY <2>1, <2>3 DEF Escapes, Excused
  <2> QED
    BY <2>1, <2>2, <2>3
<1>6. CASE AllAsked \/ Exited \/ TimedOut
  BY <1>6, <1>a DEF AllAsked, Exited, TimedOut
<1>7. CASE ReadToEnd \/ ReadTimesOut \/ Drain
  <2>1. kind \in Persistence \cup {"cli"} /\ UNCHANGED <<kind, answers>>
    BY <1>7 DEF ReadToEnd, ReadTimesOut, Drain
  <2> QED
    BY <2>1
<1>8. CASE KillTree
  <2>1. /\ Run' = Run /\ UNCHANGED <<habits, kind, answers>> /\ ~Before(at')
        /\ \A r \in 1..Run : r # Run => hist'[r] = hist[r]
    BY <1>8, KillNotes DEF KillTree, AfterKill
  <2>2. ASSUME NEW r \in 1..Run, Escapes(r), r # Run
        PROVE  Escapes(r)'
    BY <2>1, <2>2 DEF Escapes, Excused
  <2> QED
    BY <2>1, <2>2
<1>9. CASE Inspect
  BY <1>9, <1>a DEF Inspect
<1>10. CASE CleanDatastore \/ Look
  <2>1. kind \in Persistence /\ UNCHANGED <<kind, answers>>
    BY <1>10 DEF CleanDatastore, Look
  <2> QED
    BY <2>1, <1>c
<1>11. CASE Provision \/ Probed \/ Teardown
  <2>1. kind \in Persistence /\ UNCHANGED <<kind, answers>>
    BY <1>11 DEF Provision, Probed, Teardown
  <2> QED
    BY <2>1, <1>c
<1>12. ASSUME NEW x \in live, Fork(x) \/ Listen(x)
      PROVE  Answering'
  BY <1>12, <1>b DEF Fork, Listen
<1>13. ASSUME NEW x \in live, Request(x)
      PROVE  Answering'
  <2>1. /\ UNCHANGED <<habits, at, kind, hist>> /\ answers' \in {answers, answers \cup {x}}
        /\ \E p \in Ports : owner[p] = Stub
    BY <1>13 DEF Request
  <2>2. kind = "agent"
    BY <2>1 DEF Listeners
  <2>3. x[1] \in 1..Run /\ x \in {x[1]} \X Roles
    OBVIOUS
  <2>4. Escapes(x[1]) \/ (x[1] = Run /\ ~Before(at))
    BY DEF Survivors, Escapes
  <2>5. ASSUME NEW r \in 1..Run, Escapes(r)
        PROVE  Escapes(r)'
    BY <2>1, <2>5 DEF Escapes, Excused
  <2> QED
    BY <2>1, <2>2, <2>3, <2>4, <2>5
<1>14. ASSUME NEW x \in live, End(x)
      PROVE  Answering'
  BY <1>14, <1>b DEF End
<1>15. CASE Others
  BY <1>15, <1>b DEF Others
<1>16. ASSUME NEW k \in Kinds, RunOneTask(k)
      PROVE  Answering'
  BY <1>16 DEF RunOneTask
<1>17. ASSUME NEW x \in live \cup Earlier, Write(x)
      PROVE  Answering'
  BY <1>17, <1>b DEF Write
<1> QED
  BY <1>1, <1>2, <1>3, <1>4, <1>5, <1>6, <1>7, <1>8, <1>9, <1>10, <1>11, <1>12, <1>13, <1>14,
     <1>15, <1>16, <1>17 DEF OracleNext, Oracle

(* Rows. *)
LEMMA ORows ==
    ASSUME OInv, OracleNext
    PROVE  Rows'
<1> USE OraclesAssumption, Bounds, Processes DEF OInv, harness, world, Closing, Fail,
   Persistence, Kinds, Attending, Run, Main, OracleTypeOK, KindFits, Budget, Rows
\* A step that launches nothing and kills nothing.
<1>a. ASSUME UNCHANGED <<habits, hist>>, NEW r \in db, Strays(r)
      PROVE  Strays(r)'
  BY <1>a DEF Strays, Escapes, Excused, Reads
<1>b. ASSUME UNCHANGED <<habits, hist, kind, stage, db, left>>,
             verdict' \in {verdict, "fail"}, at' \in {at, "idle", "teardown", "drain", "kill"}
      PROVE  Rows'
  BY <1>b, <1>a
<1>c. ASSUME kind' \notin Persistence
      PROVE  Rows'
  BY <1>c
<1>1. CASE FreePort \/ HostStub
  BY <1>1, <1>c DEF FreePort, HostStub
<1>2. CASE CloseStub \/ LaunchFails
  <2>1. kind \in Persistence => LaunchFails
    BY <1>2 DEF CloseStub
  <2>2. ASSUME kind \in Persistence
        PROVE  /\ UNCHANGED <<habits, hist, kind, stage, db, left>> /\ verdict' = "fail"
               /\ at' \in {"idle", "teardown"}
    BY <2>1, <2>2 DEF LaunchFails
  <2>3. kind' = kind
    BY <1>2 DEF CloseStub, LaunchFails
  <2> QED
    BY <2>2, <2>3, <1>b, <1>c
<1>3. CASE Launch
  <2>1. Run' = Run + 1
    BY <1>3, LaunchAppends
  <2>2. /\ UNCHANGED <<kind, verdict, db, stage>> /\ at = "launch"
        /\ at' = Attend(kind) /\ (kind # "service" => left' = left)
    BY <1>3 DEF Launch
  <2>a. kind \in Persistence => at' = "talk"
    BY <2>2 DEF Attend
  <2>3. verdict = "ok" => kind \notin Persistence
    BY <2>2
  <2>b. ASSUME NEW r \in db, Strays(r)
        PROVE  Strays(r)'
    <3>1. r = 0 \/ (r \in 1..Run /\ hist'[r] = hist[r])
      BY <1>3, LaunchAppends
    <3>2. habits' = habits
      BY <1>3 DEF Launch
    <3> QED
      BY <2>b, <3>1, <3>2 DEF Strays, Escapes, Excused, Reads
  <2>4. ASSUME kind \in Persistence, stage = "drive", NEW r \in db, ~Strays(r)
        PROVE  Run' + left <= r + MaxDrives
    BY <2>1, <2>2, <2>4
  <2>5. ASSUME kind \in Persistence, stage = "reads", NEW r \in db, ~Strays(r)
        PROVE  r < Run' /\ Run' <= r + MaxDrives
    <3>1. Run < r + MaxDrives /\ r \in Nat /\ r <= Run
      BY <2>2, <2>5
    <3> QED
      BY <2>1, <3>1
  <2> QED
    BY <2>a, <2>b, <2>2, <2>3, <2>4, <2>5
<1>4. CASE Polled \/ Connect \/ Asked
  BY <1>4, <1>c DEF Polled, Connect, Asked
<1>5. CASE AllAsked \/ Exited \/ TimedOut
  BY <1>5, <1>c DEF AllAsked, Exited, TimedOut
<1>6. CASE ReadToEnd
  <2>1. UNCHANGED <<habits, kind, db, stage, hist>> /\ at = "talk" /\ verdict' \in {verdict, "fail"}
    BY <1>6 DEF ReadToEnd
  <2>2. ASSUME kind \in Persistence
        PROVE  \/ at' \notin {"launch", "talk", "look"}
               \/ at' = "launch" /\ left' = left - 1 /\ left > 1
               \/ at' = "look" /\ left = 1
    BY <1>6, <2>2 DEF ReadToEnd
  <2>3. ASSUME kind \in Persistence, NEW r \in db, ~Strays(r)
        PROVE  /\ at' = "launch" /\ stage = "drive" => Run + left' < r + MaxDrives
               /\ at' = "look" /\ stage = "drive" => Run < r + MaxDrives
               /\ at' = "look" /\ stage = "reads" => r < Run /\ Run <= r + MaxDrives
    BY <2>1, <2>2, <2>3
  <2>4. kind \in Persistence => verdict # "ok" /\ (stage = "reads" => at' # "launch")
    BY <2>1, <2>2
  <2> QED
    BY <1>a, <2>1, <2>2, <2>3, <2>4
<1>7. CASE ReadTimesOut \/ Drain
  <2>1. /\ UNCHANGED <<habits, hist, kind, stage, db, left>> /\ verdict' \in {verdict, "fail"}
        /\ kind \in Persistence => at' \in {"idle", "teardown", "kill"}
    BY <1>7 DEF ReadTimesOut, Drain
  <2> QED
    BY <2>1, <1>b, <1>c
<1>8. CASE KillTree
  <2>1. UNCHANGED <<kind, verdict, db, stage>> /\ at' \notin {"launch", "talk", "look"} /\ at = "kill"
    BY <1>8 DEF KillTree, AfterKill
  <2>2. kind \in Persistence => verdict # "ok"
    BY <2>1
  <2> QED
    BY <2>1, <2>2
<1>9. CASE Inspect
  BY <1>9, <1>c DEF Inspect
<1>10. CASE CleanDatastore
  BY <1>10 DEF CleanDatastore
<1>11. CASE Look
  <2>1. at = "look" /\ UNCHANGED <<habits, kind, db, hist>>
    BY <1>11 DEF Look
  <2>2. CASE Fail(Closing) /\ UNCHANGED <<stage, left>>
    BY <1>b, <2>1, <2>2
  <2>3. CASE Held /\ stage = "drive" /\ at' = "launch" /\ left' = 1 /\ UNCHANGED verdict
             /\ stage' \in {"reads", "repeats"}
    BY <1>a, <2>1, <2>3
  <2>4. CASE Held /\ stage # "drive" /\ verdict' = "ok" /\ at' = Closing /\ UNCHANGED <<stage, left>>
    <3>1. ASSUME stage = "reads", NEW r \in db, ~Strays(r)
          PROVE  r \in (Run - MaxDrives)..(Run - 1)
      <4>1. r < Run /\ Run <= r + MaxDrives /\ r \in Nat /\ Run \in Nat
        BY <2>1, <3>1
      <4> QED
        BY <4>1
    <3>2. Cardinality(db) = MaxDrives
      BY <2>4 DEF Held
    <3> QED
      BY <1>a, <2>1, <2>4, <3>1, <3>2
  <2> QED
    BY <1>11, <2>2, <2>3, <2>4 DEF Look
<1>12. CASE Provision \/ Probed \/ Teardown
  <2>1. /\ UNCHANGED <<habits, hist, kind, stage, db, left>> /\ verdict' \in {verdict, "fail"}
        /\ at' \notin {"launch", "talk", "look"}
    BY <1>12 DEF Provision, Probed, Teardown
  <2> QED
    BY <1>a, <2>1
<1>13. ASSUME NEW x \in live, Fork(x) \/ Listen(x) \/ Request(x)
      PROVE  Rows'
  BY <1>13, <1>b DEF Fork, Listen, Request
<1>14. ASSUME NEW x \in live, End(x)
      PROVE  Rows'
  <2>1. UNCHANGED <<habits, kind, verdict, at, left, stage, hist>>
    BY <1>14 DEF End
  <2>2. /\ at = "talk" /\ kind \in Persistence => db' \in {db, RowsAfter}
        /\ ~(at = "talk" /\ kind \in Persistence) => db' = db
    BY <1>14 DEF End
  <2>3. \A r \in RowsAfter : r \in db \/ (stage # "reads" /\ r = Run)
    BY DEF RowsAfter
  <2>4. ASSUME at = "talk", kind \in Persistence, NEW r \in db'
        PROVE  r \in db \/ (stage # "reads" /\ r = Run)
    BY <2>2, <2>3, <2>4
  <2>s. ASSUME NEW r \in db'
        PROVE  Strays(r)' <=> Strays(r)
    BY <2>1 DEF Strays, Escapes, Excused, Reads
  <2>5. ASSUME at = "talk", kind \in Persistence, NEW r \in db', ~Strays(r)
        PROVE  /\ stage = "drive" => Run + left <= r + MaxDrives
               /\ stage = "reads" => r < Run /\ Run <= r + MaxDrives
    <3>1. left \in 1..MaxDrives /\ Run \in Nat /\ db \subseteq 0..Run
      BY <2>5
    <3>2. CASE r \in db
      BY <2>5, <3>1, <3>2
    <3>3. CASE stage # "reads" /\ r = Run
      BY <3>1, <3>3
    <3> QED
      BY <2>4, <2>5, <3>2, <3>3
  <2>6. at = "talk" /\ kind \in Persistence => verdict # "ok"
    OBVIOUS
  <2> QED
    BY <2>1, <2>2, <2>s, <2>5, <2>6
<1>15. CASE Others
  BY <1>15, <1>b DEF Others
<1>16. ASSUME NEW k \in Kinds, RunOneTask(k)
      PROVE  Rows'
  BY <1>16 DEF RunOneTask, First
<1>17. ASSUME NEW x \in live \cup Earlier, Write(x)
      PROVE  Rows'
  <2>1. /\ UNCHANGED <<habits, kind, verdict, at, left, stage, hist>> /\ db' = db \cup {x[1]}
        /\ at \in {"launch", "talk", "look"} /\ kind \in Persistence /\ ~Reads(x[1])
    BY <1>17 DEF Write
  <2>2. x[1] \in 0..Run /\ ((Attending /\ x[1] = Run) \/ Escapes(x[1]))
    BY WritersEscape
  <2>3. Strays(x[1]) \/ (x[1] = Run /\ at = "talk" /\ stage # "reads")
    <3>1. CASE Escapes(x[1])
      BY <2>1, <3>1 DEF Strays
    <3>2. CASE Attending /\ x[1] = Run
      <4>1. at = "talk"
        BY <2>1, <3>2
      <4>2. Run # 0 /\ (stage = "reads" => hist[Run].reads)
        BY <2>1, <4>1 DEF Watched
      <4> QED
        BY <2>1, <3>2, <4>1, <4>2 DEF Reads
    <3> QED
      BY <2>2, <3>1, <3>2
  <2>4. ASSUME NEW r
        PROVE  Strays(r)' <=> Strays(r)
    BY <2>1 DEF Strays, Escapes, Excused, Reads
  <2>5. verdict # "ok"
    BY <2>1
  <2>6. at = "talk" /\ stage = "drive" => Run + left <= Run + MaxDrives
    BY <2>1
  <2> QED
    BY <2>1, <2>3, <2>4, <2>5, <2>6
<1> QED
  BY <1>1, <1>2, <1>3, <1>4, <1>5, <1>6, <1>7, <1>8, <1>9, <1>10, <1>11, <1>12, <1>13, <1>14,
     <1>15, <1>16, <1>17 DEF OracleNext, Oracle

LEMMA OStuttered ==
    ASSUME OInv, UNCHANGED everything
    PROVE  OInv'
<1> USE DEF everything, harness, world, Attending, Run, Main
<1>1. /\ OracleTypeOK' /\ KindFits' /\ Containers'
  BY DEF OInv, OracleTypeOK, KindFits, Containers
<1>2. /\ Watched' /\ Survivors' /\ Listeners'
  BY DEF OInv, Watched, Survivors, Listeners, Of, Excused
<1>3. /\ Answering' /\ Rows' /\ Budget'
  BY DEF OInv, Answering, Rows, Strays, Escapes, Excused, Reads, Budget, Left
<1> QED
  BY <1>1, <1>2, <1>3 DEF OInv

LEMMA OInvariant == OracleSpec => []OInv
<1>1. OracleInit => OInv
  <2> SUFFICES ASSUME OracleInit PROVE OInv
    OBVIOUS
  <2> USE OraclesAssumption, Bounds DEF OracleInit
  <2>1. OracleTypeOK
    BY DEF OracleTypeOK, Run, Kinds
  <2>2. KindFits /\ Budget /\ Watched /\ Survivors /\ Containers /\ Answering /\ Rows
    BY DEF KindFits, Budget, Watched, Survivors, Containers, Answering, Rows, Attending, Persistence
  <2>3. Listeners
    BY DEF Listeners
  <2> QED
    BY <2>1, <2>2, <2>3 DEF OInv
<1>2. ASSUME OInv, [OracleNext]_everything PROVE OInv'
  <2>1. CASE OracleNext
    <3>1. OracleTypeOK' /\ KindFits' /\ Budget' /\ Watched' /\ Survivors'
      BY <1>2, <2>1, OTyped, OKinds, OBudgeted, OWatched, OSurvivors
    <3>2. Listeners' /\ Containers' /\ Answering' /\ Rows'
      BY <1>2, <2>1, OListeners, OContained, OAnswering, ORows
    <3> QED
      BY <3>1, <3>2 DEF OInv
  <2>2. CASE UNCHANGED everything
    BY <1>2, <2>2, OStuttered
  <2> QED
    BY <1>2, <2>1, <2>2
<1> QED
  BY <1>1, <1>2, PTL DEF OracleSpec

(* The variables of the oracles, their programs and the machine keep their   *)
(* types, and no more programs are launched than MaxRuns.                    *)
THEOREM OracleTypeCorrect == OracleSpec => []OracleTypeOK
<1>1. OInv => OracleTypeOK
  BY DEF OInv
<1> QED
  BY <1>1, OInvariant, PTL

(* Whatever programs do with their processes, what an oracle started outlives *)
(* it only with a session of its own, or when its leader was collected before *)
(* the kill (fs_oracle.py:252); no scripted model and no container stays      *)
(* behind, unless docker timed out.                                           *)
THEOREM KilledWithOracle == OracleSpec => []NothingOutlives
<1>1. OInv => NothingOutlives
  <2> SUFFICES ASSUME OInv PROVE NothingOutlives
    OBVIOUS
  <2>1. ASSUME at \in {"idle", "inspect", "look"}, NEW x \in live
        PROVE  habits \cap Excused(x[1]) # {}
    BY <2>1 DEF OInv, Survivors, Attending
  <2>2. ASSUME at = "idle"
        PROVE  /\ \A p \in Ports : owner[p] # Stub
               /\ "docker" \notin habits => boxes = {}
    <3>1. \A p \in Ports : owner[p] # Stub
      BY <2>2 DEF OInv, Listeners
    <3>2. "docker" \notin habits => boxes = {}
      BY <2>2 DEF OInv, Containers, OracleTypeOK
    <3> QED
      BY <3>1, <3>2
  <2> QED
    BY <2>1, <2>2 DEF NothingOutlives, Escapes
<1> QED
  BY <1>1, OInvariant, PTL

(* An "ok" rests on answers of the processes of its own launch, unless a     *)
(* stranger races for the port or an earlier program escaped; and on as many *)
(* rows as commands were driven, none but theirs, unless a helper escaped    *)
(* that writes too.                                                          *)
THEOREM JudgesItsOwn == OracleSpec => []VerdictIsOwn
<1>1. OInv => VerdictIsOwn
  <2> SUFFICES ASSUME OInv, verdict = "ok" PROVE VerdictIsOwn
    BY DEF VerdictIsOwn
  <2>1. answers \subseteq ({r \in 1..Run : r = Run \/ Escapes(r)} \X Roles)
                          \cup {o \in {Outsider} : "race" \in habits}
    BY DEF OInv, Answering
  <2>2. ASSUME kind \in Persistence, stage = "reads"
        PROVE  /\ Cardinality(db) = MaxDrives
               /\ \A r \in db : \/ r \in (Run - MaxDrives)..(Run - 1)
                                \/ Escapes(r) /\ ~Reads(r)
    BY <2>2 DEF OInv, Rows, Strays
  <2> QED
    BY <2>1, <2>2 DEF VerdictIsOwn
<1> QED
  BY <1>1, OInvariant, PTL
=============================================================================
