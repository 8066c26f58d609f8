--------------------------- MODULE FixRepoProofs ---------------------------
(***************************************************************************)
(* What the multi-file repair guarantees, for any workspace, any suite and *)
(* any edits of the model.                                                 *)
(***************************************************************************)
EXTENDS FixRepo, FiniteSetTheorems, TLAPS

LEMMA OutcomeType ==
    ASSUME NEW d \in Disks, suite \in [Disks -> Outcomes]
    PROVE  /\ Outcome(d) \in Outcomes
           /\ Counted(d) => Outcome(d) \in 0..MaxFails
BY FixRepoAssumption DEF Outcome, Outcomes, Counted

\* A count is a number, and a run that is not green shows a failure.
LEMMA FailCountType ==
    ASSUME NEW d \in Disks, suite \in [Disks -> Outcomes]
    PROVE  /\ FailCount(d) \in Nat /\ LoopCount(d) \in Nat
           /\ Green(d) => Counted(d)
           /\ Green(d) <=> FailCount(d) = 0
<1>1. Counted(d) => Outcome(d) \in Nat
  BY OutcomeType, FixRepoAssumption
<1>2. Green(d) => Counted(d)
  BY FixRepoAssumption DEF Green, Counted
<1>3. FailCount(d) \in Nat /\ LoopCount(d) \in Nat
  BY <1>1, FixRepoAssumption DEF FailCount, LoopCount
<1>4. CASE Counted(d)
  BY <1>2, <1>3, <1>4 DEF FailCount, Green
<1>5. CASE ~Counted(d)
  BY <1>2, <1>3, <1>5, FixRepoAssumption DEF FailCount
<1> QED BY <1>2, <1>3, <1>4, <1>5

LEMMA WrittenType ==
    ASSUME NEW d \in Disks, disk \in Disks, NEW fate
    PROVE  Written(d, fate) \in Disks
BY DEF Written

LEMMA ProbeDoneType ==
    ASSUME probes \in Seq(Paths), probes # <<>>, ProbeDone
    PROVE  Probe \in Paths /\ probes' \in Seq(Paths)
<1>1. Len(probes) \in Nat \ {0} /\ \A i \in 1..Len(probes) : probes[i] \in Paths
  OBVIOUS
<1>2. probes' \in Seq(Paths)
  BY <1>1 DEF ProbeDone
<1> QED BY <1>1, <1>2 DEF Probe

LEMMA ListingType ==
    ASSUME NEW S \in SUBSET Paths, NEW s \in Listings(S)
    PROVE  s \in Seq(Paths)
<1>1. Cardinality(S) \in Nat
  BY FixRepoAssumption, FS_Subset, FS_CardinalityType
<1>2. s \in [1..Cardinality(S) -> Paths]
  BY DEF Listings
<1> QED BY <1>1, <1>2

LEMMA InitType == Init => TypeOK
<1> SUFFICES ASSUME Init PROVE TypeOK
  OBVIOUS
<1>1. disk \in Disks /\ suite \in [Disks -> Outcomes]
  BY FixRepoAssumption DEF Init, Disks
<1>2. cands \in Seq(Paths)
  BY ListingType DEF Init
<1>3. FailCount(disk) \in Nat
  BY <1>1, FailCountType
<1> QED BY <1>1, <1>2, <1>3, FixRepoAssumption DEF Init, TypeOK

\* Every step of the repair keeps its state well typed.
LEMMA NextType == TypeOK /\ [Next]_vars => TypeOK'
<1> SUFFICES ASSUME TypeOK, [Next]_vars PROVE TypeOK'
  OBVIOUS
<1> USE FixRepoAssumption
<1>1. CASE NextCandidate
  BY <1>1 DEF NextCandidate, Return, TypeOK
<1>2. CASE NoCandidateFixedIt
  BY <1>2 DEF NoCandidateFixedIt, Return, TypeOK
<1>3. CASE Refused
  BY <1>3 DEF Refused, TypeOK
<1>4. CASE GiveUp
  <2>1. disk' \in Disks
    BY <1>4 DEF GiveUp, TypeOK, Disks
  <2> QED BY <1>4, <2>1 DEF GiveUp, TypeOK
<1>5. ASSUME NEW c \in Contents, Attempt(c) PROVE TypeOK'
  <2>1. disk' \in Disks
    BY <1>5 DEF Attempt, TypeOK, Disks
  <2>2. LoopCount(disk') \in Nat
    BY <2>1, FailCountType DEF TypeOK
  <2>3. best' \in [fails : Nat, content : Contents] \cup {None}
    BY <1>5, <2>2 DEF Attempt, TypeOK
  <2> QED BY <1>5, <2>1, <2>3 DEF Attempt, TypeOK
<1>6. CASE Solve
  <2>1. File \in Paths
    BY <1>6 DEF Solve, TypeOK, File
  <2>2. kept' \in Seq(Paths)
    BY <1>6, <2>1 DEF Solve, TypeOK
  <2> QED BY <1>6, <2>2 DEF Solve, TypeOK
<1>7. CASE KeepPartial
  <2>1. File \in Paths /\ cands' \in Seq(Paths)
    BY <1>7 DEF KeepPartial, TypeOK, File
  <2>2. kept' \in Seq(Paths)
    BY <1>7, <2>1 DEF KeepPartial, TypeOK
  <2>3. base' \in Nat
    BY <1>7, FailCountType DEF KeepPartial, TypeOK
  <2> QED BY <1>7, <2>1, <2>2, <2>3 DEF KeepPartial, TypeOK
<1>8. CASE Revert
  <2>1. disk' \in Disks
    BY <1>8, WrittenType DEF Revert, TypeOK
  <2>2. cands' \in Seq(Paths)
    BY <1>8 DEF Revert, TypeOK
  <2> QED BY <1>8, <2>1, <2>2 DEF Revert, TypeOK
<1>9. CASE ProbeRefused
  BY <1>9, ProbeDoneType DEF ProbeRefused, TypeOK
<1>10. CASE Minimized
  BY <1>10 DEF Minimized, Return, TypeOK
<1>11. ASSUME NEW fate \in policy, ProbeGreen(fate) PROVE TypeOK'
  <2>1. Probe \in Paths /\ probes' \in Seq(Paths)
    BY <1>11, ProbeDoneType DEF ProbeGreen, TypeOK
  <2>2. Reverted \in Disks
    BY <2>1 DEF Reverted, TypeOK, Disks
  <2>3. disk' \in Disks
    BY <1>11, <2>2, WrittenType DEF ProbeGreen, TypeOK
  <2> QED BY <1>11, <2>1, <2>3 DEF ProbeGreen, TypeOK
<1>12. ASSUME NEW fate \in policy, ProbeRed(fate) PROVE TypeOK'
  <2>1. Probe \in Paths /\ probes' \in Seq(Paths)
    BY <1>12, ProbeDoneType DEF ProbeRed, TypeOK
  <2>2. Reverted \in Disks
    BY <2>1 DEF Reverted, TypeOK, Disks
  <2>3. disk' \in Disks
    BY <1>12, <2>2, WrittenType DEF ProbeRed, TypeOK
  <2> QED BY <1>12, <2>1, <2>3 DEF ProbeRed, TypeOK
<1>13. CASE UNCHANGED vars
  BY <1>13 DEF vars, TypeOK
<1> QED BY <1>1, <1>2, <1>3, <1>4, <1>5, <1>6, <1>7, <1>8, <1>9, <1>10, <1>11, <1>12, <1>13
        DEF Next, Returned

\* The repair's state stays well typed (multi_file_fix).
THEOREM TypeCorrect == Spec => []TypeOK
<1>1. Init => TypeOK
  BY InitType
<1>2. TypeOK /\ [Next]_vars => TypeOK'
  BY NextType
<1> QED BY <1>1, <1>2, PTL DEF Spec
-----------------------------------------------------------------------------
\* What a repair never changes, and how the last edit of a sequence is found.
LEMMA Constants == TypeOK /\ [Next]_vars => orig' = orig /\ suite' = suite /\ policy' = policy
BY DEF Next, vars, NextCandidate, NoCandidateFixedIt, Refused, GiveUp, Attempt, Solve, KeepPartial,
       Revert, ProbeRefused, Minimized, ProbeGreen, ProbeRed, Returned

LEMMA ElemsAppend ==
    ASSUME NEW s \in Seq(Paths), NEW p \in Paths
    PROVE  Elems(Append(s, p)) = Elems(s) \cup {p}
<1>1. DOMAIN Append(s, p) = 1..Len(s)+1 /\ DOMAIN s = 1..Len(s) /\ Len(s) \in Nat
  OBVIOUS
<1>2. \A i \in 1..Len(s) : Append(s, p)[i] = s[i]
  OBVIOUS
<1>3. Append(s, p)[Len(s)+1] = p
  OBVIOUS
<1> QED BY <1>1, <1>2, <1>3 DEF Elems

\* "solved" is only said of a green workspace: while the kept edits are probed the
\* workspace is green between two probes.
GreenInv ==
    /\ result = "solved" => pc = "returned"
    /\ Steadfast /\ (pc = "minimize" \/ result = "solved") => Green(disk)

LEMMA NextGreen == TypeOK /\ GreenInv /\ [Next]_vars => GreenInv'
<1> SUFFICES ASSUME TypeOK, GreenInv, [Next]_vars PROVE GreenInv'
  OBVIOUS
<1>1. suite' = suite /\ policy' = policy
  BY Constants
<1>2. CASE NextCandidate \/ NoCandidateFixedIt \/ Refused \/ KeepPartial
  BY <1>2 DEF GreenInv, NextCandidate, NoCandidateFixedIt, Refused, KeepPartial, Return
<1>3. CASE GiveUp \/ Revert \/ \E c \in Contents : Attempt(c)
  BY <1>3 DEF GreenInv, GiveUp, Revert, Attempt
<1>4. CASE Solve \/ ProbeRefused \/ Minimized \/ UNCHANGED vars
  BY <1>4, <1>1 DEF GreenInv, Solve, ProbeRefused, Minimized, Return, vars, Green, Outcome, Broken, Steadfast
<1>5. ASSUME NEW fate \in policy, ProbeGreen(fate) PROVE GreenInv'
  BY <1>5, <1>1 DEF GreenInv, ProbeGreen, Green, Outcome, Broken
<1>6. ASSUME NEW fate \in policy, ProbeRed(fate) PROVE GreenInv'
  <2>1. PICK again \in policy :
          disk' = IF again = "applied" THEN disk ELSE Written(Reverted, fate)
    BY <1>6 DEF ProbeRed
  <2>2. result' # "solved" /\ pc = "minimize" /\ ~Green(Written(Reverted, fate))
    BY <1>6 DEF ProbeRed, GreenInv
  <2>3. ASSUME Steadfast PROVE Green(disk) /\ disk' = disk
    <3>1. Green(disk)
      BY <2>2, <2>3 DEF GreenInv
    <3>2. again = fate
      BY <2>3 DEF Steadfast
    <3>3. fate = "applied"
      BY <3>1, <2>2 DEF Written
    <3> QED BY <3>1, <3>2, <3>3, <2>1
  <2>4. Steadfast' => Steadfast
    BY <1>1 DEF Steadfast
  <2> QED BY <2>2, <2>3, <2>4, <1>1 DEF GreenInv, Green, Outcome, Broken
<1> QED BY <1>2, <1>3, <1>4, <1>5, <1>6 DEF Next, Returned

\* A repair that says "fixed" leaves a green suite (multi_file_fix,
\* _minimize_edits), for any suite, any edits and any interrupts, when its writes
\* all meet the same fate.
THEOREM FixedIsGreen == Spec => []SolvedIsGreen
<1>1. Init => GreenInv
  BY DEF Init, GreenInv
<1>2. TypeOK /\ GreenInv /\ [Next]_vars => GreenInv'
  BY NextGreen
<1>3. GreenInv => SolvedIsGreen
  BY DEF GreenInv, SolvedIsGreen
<1>4. Spec => []TypeOK
  BY TypeCorrect
<1> QED BY <1>1, <1>2, <1>3, <1>4, PTL DEF Spec
-----------------------------------------------------------------------------
\* The count to beat is the workspace's own, or that of the snapshot a candidate
\* goes back to, and is less than the original's by one for each edit kept.
ProgressInv ==
    policy = {"applied"} =>
        /\ pc \in {"candidate", "attempt", "judge"} =>
              base > 0 /\ base + Len(kept) <= FailCount(orig)
        /\ pc = "candidate" => FailCount(disk) = base
        /\ pc \in {"attempt", "judge"} => FailCount(snap) = base
        /\ pc = "minimize" => Green(disk) /\ Len(kept) <= FailCount(orig)
        /\ pc = "returned" => FailCount(disk) + Len(kept) <= FailCount(orig)

LEMMA NextProgress ==
    ASSUME TypeOK, ProgressInv, [Next]_vars
    PROVE  ProgressInv'
<1>1. orig' = orig /\ suite' = suite /\ policy' = policy
  BY Constants
<1>2. FailCount(disk) \in Nat /\ FailCount(orig) \in Nat /\ FailCount(snap) \in Nat
  BY FailCountType DEF TypeOK
<1>3. Green(disk) <=> FailCount(disk) = 0
  BY FailCountType DEF TypeOK
<1>4. Len(kept) \in Nat /\ base \in Nat
  BY DEF TypeOK
<1>5. /\ FailCount(orig)' = FailCount(orig)
      /\ disk' = disk => FailCount(disk)' = FailCount(disk) /\ (Green(disk)' <=> Green(disk))
      /\ disk' = snap => FailCount(disk)' = FailCount(snap)
      /\ snap' = snap => FailCount(snap)' = FailCount(snap)
      /\ snap' = disk => FailCount(snap)' = FailCount(disk)
  BY <1>1 DEF FailCount, Counted, Outcome, Broken, Green
<1> HIDE DEF FailCount, Green
<1> SUFFICES ASSUME policy = {"applied"} PROVE ProgressInv'
  BY <1>1 DEF ProgressInv
<1>6. CASE NextCandidate \/ NoCandidateFixedIt
  BY <1>2, <1>4, <1>5, <1>6 DEF ProgressInv, NextCandidate, NoCandidateFixedIt, Return
<1>7. CASE Refused \/ GiveUp \/ \E c \in Contents : Attempt(c)
  BY <1>2, <1>4, <1>5, <1>7 DEF ProgressInv, Refused, GiveUp, Attempt
<1>8. CASE Solve
  <2>1. Len(kept') = Len(kept) + 1
    BY <1>8 DEF Solve, TypeOK, File
  <2>2. disk' = disk /\ pc = "judge" /\ pc' = "minimize" /\ Green(disk)
    BY <1>8 DEF Solve
  <2> QED BY <1>2, <1>4, <1>5, <2>1, <2>2 DEF ProgressInv
<1>9. CASE KeepPartial
  <2>1. Len(kept') = Len(kept) + 1
    BY <1>9 DEF KeepPartial, TypeOK, File
  <2>2. /\ disk' = disk /\ pc = "judge" /\ pc' = "candidate" /\ ~Green(disk)
        /\ FailCount(disk) < base /\ base' = FailCount(disk)
    BY <1>9 DEF KeepPartial
  <2> QED BY <1>2, <1>3, <1>4, <1>5, <2>1, <2>2 DEF ProgressInv
<1>10. CASE Revert
  <2>1. disk' = snap
    BY <1>10 DEF Revert, Written
  <2> QED BY <1>2, <1>4, <1>5, <1>10, <2>1 DEF ProgressInv, Revert
<1>11. CASE ProbeRefused \/ Minimized \/ UNCHANGED vars
  BY <1>2, <1>3, <1>4, <1>5, <1>11 DEF ProgressInv, ProbeRefused, Minimized, Return, vars
<1>12. ASSUME NEW fate \in policy, ProbeGreen(fate) PROVE ProgressInv'
  <2>1. Green(disk)'
    BY <1>1, <1>12 DEF ProbeGreen, Green, Outcome, Broken
  <2> QED BY <1>5, <1>12, <2>1 DEF ProgressInv, ProbeGreen
<1>13. ASSUME NEW fate \in policy, ProbeRed(fate) PROVE ProgressInv'
  <2>1. disk' = disk
    BY <1>13 DEF ProbeRed
  <2> QED BY <1>5, <1>13, <2>1 DEF ProgressInv, ProbeRed
<1> QED BY <1>6, <1>7, <1>8, <1>9, <1>10, <1>11, <1>12, <1>13 DEF Next, Returned

\* When the reverts go through, each edit a repair keeps lowers the number of
\* failures its runs show, between two candidates and at its end, and where its
\* last run shows a count, no more tests fail than at the start (multi_file_fix),
\* for any suite, runs without a count included, and any edits.
THEOREM RepairsNeverWorsen == Spec => []NeverWorse
<1>1. ASSUME Init PROVE ProgressInv
  <2>1. TypeOK /\ disk = orig
    BY <1>1, InitType DEF Init
  <2>2. FailCount(disk) \in Nat /\ (Green(disk) <=> FailCount(disk) = 0)
    BY <2>1, FailCountType DEF TypeOK
  <2>3. /\ base = FailCount(disk) /\ kept = <<>>
        /\ pc = IF Green(disk) THEN "returned" ELSE "candidate"
    BY <1>1 DEF Init
  <2> QED BY <2>1, <2>2, <2>3 DEF ProgressInv
<1>2. TypeOK /\ ProgressInv /\ [Next]_vars => ProgressInv'
  BY NextProgress
<1>3. TypeOK /\ ProgressInv => NeverWorse
  <2> SUFFICES ASSUME TypeOK, ProgressInv, pc \in {"candidate", "returned"},
                      policy = {"applied"}
               PROVE  /\ FailCount(disk) + Len(kept) <= FailCount(orig)
                      /\ Counted(disk) => Failing(disk) <= Failing(orig)
    BY DEF NeverWorse
  <2>1. FailCount(disk) \in Nat /\ FailCount(orig) \in Nat /\ Len(kept) \in Nat
    BY FailCountType DEF TypeOK
  <2>2. FailCount(disk) + Len(kept) <= FailCount(orig)
    BY <2>1 DEF ProgressInv
  <2>3. /\ Counted(disk) => Outcome(disk) \in 0..MaxFails
        /\ Counted(orig) => Outcome(orig) \in 0..MaxFails
    BY OutcomeType DEF TypeOK
  <2>4. ASSUME Counted(disk) PROVE Failing(disk) <= Failing(orig)
    <3>1. CASE Counted(orig)
      BY <2>1, <2>2, <2>3, <2>4, <3>1 DEF Failing, FailCount
    <3>2. CASE ~Counted(orig)
      BY <2>3, <2>4, <3>2, FixRepoAssumption DEF Failing
    <3> QED BY <3>1, <3>2
  <2> QED BY <2>2, <2>4
<1>4. Spec => []TypeOK
  BY TypeCorrect
<1> QED BY <1>1, <1>2, <1>3, <1>4, PTL DEF Spec
-----------------------------------------------------------------------------
\* Where the workspace differs from the original.
Changed(d) == {p \in Paths : d[p] # orig[p]}

\* A candidate's edits touch its own file only, and the rest of the workspace is
\* as the kept edits left it.
TraceInv ==
    policy = {"applied"} =>
        /\ pc \in {"candidate", "attempt", "judge"} => dropped = {}
        /\ pc = "candidate" => Changed(disk) \subseteq Elems(kept)
        /\ pc \in {"attempt", "judge"} =>
              /\ Changed(snap) \subseteq Elems(kept)
              /\ \A p \in Paths : p # File => disk[p] = snap[p]
        /\ pc \in {"minimize", "returned"} =>
              /\ Changed(disk) \subseteq Elems(kept) \ dropped
              /\ \A p \in dropped : disk[p] = orig[p]

LEMMA NextTrace ==
    ASSUME TypeOK, TraceInv, [Next]_vars
    PROVE  TraceInv'
<1>1. orig' = orig /\ suite' = suite /\ policy' = policy
  BY Constants
<1> SUFFICES ASSUME policy = {"applied"} PROVE TraceInv'
  BY <1>1 DEF TraceInv
<1>2. CASE NextCandidate \/ NoCandidateFixedIt
  BY <1>1, <1>2 DEF TraceInv, NextCandidate, NoCandidateFixedIt, Return, Changed
<1>3. CASE Refused
  BY <1>1, <1>3 DEF TraceInv, Refused, Changed, File
<1>4. CASE GiveUp \/ \E c \in Contents : Attempt(c)
  <2>1. \A p \in Paths : p # File => disk'[p] = disk[p]
    BY <1>4 DEF GiveUp, Attempt, TypeOK, Disks
  <2> QED BY <1>1, <1>4, <2>1 DEF TraceInv, GiveUp, Attempt, Changed, File
<1>5. CASE Solve \/ KeepPartial
  <2>1. File \in Paths /\ kept \in Seq(Paths)
    BY <1>5 DEF Solve, KeepPartial, TypeOK, File
  <2>2. Elems(kept') = Elems(kept) \cup {File}
    BY <1>5, <2>1, ElemsAppend DEF Solve, KeepPartial
  <2>3. Changed(disk)' = Changed(disk)
    BY <1>1, <1>5 DEF Changed, Solve, KeepPartial
  <2>4. Changed(disk) \subseteq Changed(snap) \cup {File}
    BY <1>5 DEF Changed, TraceInv, Solve, KeepPartial
  <2>5. Changed(disk)' \subseteq Elems(kept') /\ dropped' = {}
    BY <1>5, <2>2, <2>3, <2>4 DEF TraceInv, Solve, KeepPartial
  <2> QED BY <1>5, <2>5 DEF TraceInv, Solve, KeepPartial
<1>6. CASE Revert
  <2>1. disk' = snap
    BY <1>6 DEF Revert, Written
  <2> QED BY <1>1, <1>6, <2>1 DEF TraceInv, Revert, Changed
<1>7. CASE ProbeRefused \/ Minimized \/ UNCHANGED vars
  BY <1>1, <1>7 DEF TraceInv, ProbeRefused, Minimized, Return, vars, Changed, File
<1>8. ASSUME NEW fate \in policy, ProbeGreen(fate) PROVE TraceInv'
  <2>1. disk' = Reverted /\ dropped' = dropped \cup {Probe} /\ kept' = kept
    BY <1>8 DEF ProbeGreen, Written
  <2>2. Probe \in Paths
    BY <1>8, ProbeDoneType DEF ProbeGreen, TypeOK
  <2>3. disk' = [disk EXCEPT ![Probe] = orig[Probe]] /\ disk \in [Paths -> Contents]
    BY <2>1 DEF Reverted, TypeOK, Disks
  <2>4. disk'[Probe] = orig[Probe] /\ \A p \in Paths : p # Probe => disk'[p] = disk[p]
    BY <2>2, <2>3
  <2>5. Changed(disk)' \subseteq Changed(disk) \ {Probe}
    BY <1>1, <2>4 DEF Changed
  <2>6. Changed(disk)' \subseteq Elems(kept') \ dropped'
    BY <1>8, <2>1, <2>5 DEF TraceInv, ProbeGreen
  <2>7. \A p \in dropped' : disk'[p] = orig'[p]
    BY <1>1, <2>1, <2>2, <2>4, <1>8 DEF TraceInv, TypeOK, ProbeGreen
  <2> QED BY <1>8, <2>6, <2>7 DEF TraceInv, ProbeGreen
<1>9. ASSUME NEW fate \in policy, ProbeRed(fate) PROVE TraceInv'
  <2>1. disk' = disk
    BY <1>9 DEF ProbeRed
  <2> QED BY <1>1, <1>9, <2>1 DEF TraceInv, ProbeRed, Changed
<1> QED BY <1>2, <1>3, <1>4, <1>5, <1>6, <1>7, <1>8, <1>9 DEF Next, Returned

\* When the reverts go through, whatever was tried and did not help leaves no trace
\* (multi_file_fix): the workspace differs from the original in reported files only.
THEOREM NothingUnreported == Spec => []DiffIsReported
<1>1. Init => TraceInv
  BY DEF Init, TraceInv, Changed
<1>2. TypeOK /\ TraceInv /\ [Next]_vars => TraceInv'
  BY NextTrace
<1>3. TraceInv => DiffIsReported
  BY DEF TraceInv, DiffIsReported, Changed
<1>4. Spec => []TypeOK
  BY TypeCorrect
<1> QED BY <1>1, <1>2, <1>3, <1>4, PTL DEF Spec
=============================================================================
