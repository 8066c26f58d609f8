-------------------------- MODULE BackgroundProofs --------------------------
(***************************************************************************)
(* Proofs about what watches over work that runs on its own: BgJobs, for   *)
(* any set of clients and any number of crashes, and Heartbeat, for any    *)
(* activities, intervals and timeouts.                                     *)
(***************************************************************************)
EXTENDS BgJobs, Heartbeat, TLAPS

\* Every copy of the record, on disk or in the memory of any process, carries
\* only a verdict the worker really reached, says stopped only once the worker
\* has exited, and holds a pid only once there is a worker.
SoundCopy(r) ==
    /\ r.status = "done" => outcome = "zero"
    /\ r.code # "none" => r.code = outcome
    /\ r.status = "stopped" => pc[Worker] = "exited"
    /\ r.pid # "none" => pc[Worker] # "unborn"

\* Where the processes must be for that to be preserved: nothing was run before
\* the worker's own get_job returned, the worker is unborn until the submitter
\* spawned it, and a client that may still stop the job knows its pid.
Phases ==
    /\ pc[Worker] \in {"unborn", "boot", "read", "reconcile", "got", "run"} => outcome = "none"
    /\ pc[Submitter] = "submit" \/ rec[Submitter] = Submitted => pc[Worker] = "unborn"
    /\ pc[Submitter] = "spawn" => rec[Submitter] = Submitted
    /\ \A c \in Clients : pc[c] = "got" /\ rec[c].status = "running" => rec[c].pid # "none"

\* The inductive invariant behind HonestVerdict and StoppedMeansDead.
IInv ==
    /\ TypeOK
    /\ SoundCopy(file)
    /\ \A p \in Procs : SoundCopy(rec[p])
    /\ Phases

USE ProcsAssumption DEF Procs

\* The invariant holds before anything was submitted.
LEMMA InitIInv == Init => IInv
  BY DEF Init, IInv, TypeOK, SoundCopy, Phases, Unreadable, Submitted, JobRecord, Statuses, ExitCodes

\* Every step of every process preserves it.
LEMMA NextIInv == IInv /\ [Next]_vars => IInv'
<1> SUFFICES ASSUME IInv, [Next]_vars PROVE IInv'
  OBVIOUS
<1> USE DEF IInv, TypeOK, SoundCopy, Phases, Unreadable, Submitted, JobRecord, Statuses,
            ExitCodes, IsRecord, GoTo
<1>1. ASSUME NEW p \in Procs, Truncate(p) PROVE IInv'
  BY <1>1 DEF Truncate
<1>2. ASSUME NEW p \in Procs, Fill(p) PROVE IInv'
  <2>1. AfterWrite(p) \in {"spawn", "exited", "run", "idle"}
    BY DEF AfterWrite
  <2>2. TypeOK' /\ SoundCopy(file)' /\ \A q \in Procs : SoundCopy(rec[q])'
    BY <1>2, <2>1 DEF Fill
  <2>3. Phases'
    BY <1>2 DEF Fill, AfterWrite
  <2> QED
    BY <2>2, <2>3
<1>3. CASE SubmitJob
  BY <1>3 DEF SubmitJob
<1>4. CASE SpawnWorker
  <2> DEFINE r == [status |-> "running", pid |-> "known", code |-> "none"]
  <2>a. rec[Submitter] = Submitted /\ pc[Worker] = "unborn" /\ outcome = "none"
    BY <1>4 DEF SpawnWorker
  <2>b. [rec[Submitter] EXCEPT !.pid = "known"] = r
    BY <2>a
  <2>1. rec' = [rec EXCEPT ![Submitter] = r] /\ r \in JobRecord /\ r # Submitted
    BY <1>4, <2>b DEF SpawnWorker
  <2> HIDE DEF r
  <2>2. TypeOK'
    BY <1>4, <2>1, <2>a DEF SpawnWorker
  <2>3. SoundCopy(file)' /\ \A p \in Procs : SoundCopy(rec[p])'
    BY <1>4, <2>1, <2>a DEF SpawnWorker, r
  <2>4. Phases'
    BY <1>4, <2>1, <2>a DEF SpawnWorker
  <2> QED
    BY <2>2, <2>3, <2>4
<1>5. CASE SpawnFails
  BY <1>5 DEF SpawnFails
<1>6. ASSUME NEW p \in Clients \cup {Worker}, ReadRecord(p) PROVE IInv'
  <2>1. TypeOK'
    BY <1>6 DEF ReadRecord
  <2>2. SoundCopy(file)' /\ \A q \in Procs : SoundCopy(rec[q])'
    BY <1>6 DEF ReadRecord
  <2>3. Phases'
    BY <1>6 DEF ReadRecord
  <2> QED
    BY <2>1, <2>2, <2>3
<1>7. ASSUME NEW p \in Clients \cup {Worker}, Reconcile(p) PROVE IInv'
  <2>1. CASE PidAlive(rec[p])
    BY <1>7, <2>1 DEF Reconcile, PidAlive
  <2>2. CASE ~PidAlive(rec[p])
    <3> DEFINE r == [rec[p] EXCEPT !.status = "failed"]
    <3>1. /\ rec' = [rec EXCEPT ![p] = r] /\ pc' = [pc EXCEPT ![p] = "truncate"]
          /\ UNCHANGED <<file, outcome, crashes>> /\ pc[p] = "reconcile"
      BY <1>7, <2>2 DEF Reconcile
    <3>2. /\ r \in JobRecord /\ r # Submitted /\ r.status = "failed" /\ r.code = rec[p].code
          /\ r.pid = rec[p].pid
      OBVIOUS
    <3> HIDE DEF r
    <3>3. TypeOK'
      BY <3>1, <3>2
    <3>4. SoundCopy(file)' /\ \A q \in Procs : SoundCopy(rec[q])'
      BY <3>1, <3>2
    <3>5. Phases'
      BY <3>1, <3>2
    <3> QED
      BY <3>3, <3>4, <3>5
  <2> QED
    BY <2>1, <2>2
<1>8. CASE StartRequest
  BY <1>8 DEF StartRequest
<1>9. CASE RunOneShot
  BY <1>9 DEF RunOneShot
<1>10. CASE MarkFinished
  <2>1. CASE ~IsRecord(file)
    BY <1>10, <2>1 DEF MarkFinished
  <2>2. CASE IsRecord(file)
    <3> DEFINE r == [file EXCEPT !.status = IF outcome = "zero" THEN "done" ELSE "failed",
                                 !.code = outcome]
    <3>1. /\ rec' = [rec EXCEPT ![Worker] = r] /\ pc' = [pc EXCEPT ![Worker] = "truncate"]
          /\ UNCHANGED <<file, outcome, crashes>> /\ pc[Worker] = "mark"
      BY <1>10, <2>2 DEF MarkFinished
    <3>2. /\ r \in JobRecord /\ r.status \in {"done", "failed"} /\ r.code = outcome
          /\ r.status = "done" => outcome = "zero"
          /\ r.pid = file.pid
      BY <2>2
    <3> HIDE DEF r
    <3>3. TypeOK'
      BY <3>1, <3>2
    <3>4. SoundCopy(file)' /\ \A q \in Procs : SoundCopy(rec[q])'
      BY <3>1, <3>2
    <3>5. Phases'
      BY <3>1, <3>2
    <3> QED
      BY <3>3, <3>4, <3>5
  <2> QED
    BY <2>1, <2>2
<1>11. ASSUME NEW c \in Clients, GetJob(c) PROVE IInv'
  BY <1>11 DEF GetJob
<1>12. ASSUME NEW c \in Clients, ShowJob(c) PROVE IInv'
  BY <1>12 DEF ShowJob
<1>13. ASSUME NEW c \in Clients, StopJob(c) PROVE IInv'
  <2> DEFINE r == [rec[c] EXCEPT !.status = "stopped"]
  <2>a. rec[c].pid # "none" /\ rec[c] \in JobRecord /\ pc[Worker] # "unborn"
    BY <1>13 DEF StopJob
  <2>1. /\ rec' = [rec EXCEPT ![c] = r]
        /\ pc' = [pc EXCEPT ![c] = "truncate", ![Worker] = "exited"]
        /\ UNCHANGED <<file, outcome, crashes>>
    BY <1>13, <2>a DEF StopJob
  <2>2. r \in JobRecord /\ r.status = "stopped" /\ r.code = rec[c].code /\ r.pid = rec[c].pid
    BY <2>a
  <2> HIDE DEF r
  <2>3. TypeOK'
    BY <2>1, <2>2
  <2>4. SoundCopy(file)' /\ \A q \in Procs : SoundCopy(rec[q])'
    BY <2>1, <2>2
  <2>5. Phases'
    BY <2>1, <2>2, <2>a
  <2> QED
    BY <2>3, <2>4, <2>5
<1>14. ASSUME NEW p \in Procs, Crash(p) PROVE IInv'
  BY <1>14 DEF Crash
<1>15. CASE UNCHANGED vars
  BY <1>15 DEF vars
<1> QED
  BY <1>1, <1>2, <1>3, <1>4, <1>5, <1>6, <1>7, <1>8, <1>9, <1>10, <1>11, <1>12, <1>13, <1>14, <1>15
     DEF Next, SubmitterStep, WorkerStep, ClientStep

LEMMA Invariance == Spec => []IInv
  BY InitIInv, NextIInv, PTL DEF Spec

\* The job store and every process stay well typed.
THEOREM TypeCorrect == Spec => []TypeOK
  BY Invariance, PTL DEF IInv

\* No interleaving of submitter, worker and clients, and no crash, puts a verdict
\* on disk that the worker did not reach.
THEOREM VerdictsAreHonest == Spec => []HonestVerdict
<1>1. IInv => HonestVerdict
  BY DEF IInv, SoundCopy, HonestVerdict
<1> QED
  BY <1>1, Invariance, PTL

\* A job on record as stopped has no live worker.
THEOREM StoppedIsDead == Spec => []StoppedMeansDead
<1>1. IInv => StoppedMeansDead
  BY DEF IInv, SoundCopy, StoppedMeansDead, WorkerLive
<1> QED
  BY <1>1, Invariance, PTL

-----------------------------------------------------------------------------
(* The heartbeat and its watchdog.                                           *)

USE HeartbeatAssumption

\* While an activity lives, its keepalive beats in time: what is left of its wait and the
\* age of the last beat, whoever wrote it, are together no more than the interval.  Before
\* its own first beat is written, nothing old can be read.
InTime(a) == /\ current.age <= Interval
             /\ thread[a] = "wait" => current.age + due[a] <= Interval
Fresh == \A a \in Activities :
  /\ at[a] \in {"new", "start", "begun"} => ~stop[a] /\ thread[a] = "off"
  /\ at[a] \in {"on", "phase", "reaping"} => thread[a] # "off" /\ ~stop[a]
  /\ Live(a) /\ at[a] # "start" => InTime(a)
  /\ at[a] = "start" => current.text # "beat" \/ current.age = 0
  /\ at[a] = "begun" => current.age = 0

\* From the kill or the end of its output on, a wrapped command does not run.
Ended == \A a \in Wrapped :
  /\ at[a] \notin {"end", "ended", "phase"}
  /\ at[a] \in {"new", "start", "begun", "failed"} => child[a] = "none"
  /\ at[a] \in {"reaping", "verdict", "last", "over"} => child[a] # "runs"

BeatIInv == BeatTypeOK /\ Fresh /\ Ended

LEMMA LessType == \A n \in Nat : Less(n) \in Nat /\ Less(n) <= n /\ (n # 0 => Less(n) = n - 1)
  BY DEF Less

LEMMA BeatInitially == BeatInit => BeatIInv
  BY DEF BeatInit, BeatIInv, BeatTypeOK, Fresh, Ended, Activities, Running, Writing, After, Live

LEMMA TickKeeps ==
  ASSUME BeatIInv, Tick
  PROVE  BeatIInv'
<1> USE DEF BeatIInv, BeatTypeOK
<1>1. /\ \A a \in Activities : ~Late(a)
      /\ UNCHANGED <<at, thread, stop, child, heirs>>
  BY DEF Tick
<1>2. current.age \in 0..Stall + 1 /\ current.age \in Nat
  OBVIOUS
<1>3. /\ current' \in [text : {"empty", "cut", "beat", "garbled"}, by : SUBSET Activities,
                       terminal : BOOLEAN, age : 0..Stall + 1]
      /\ current'.age \in Nat /\ current'.age <= current.age + 1
  BY <1>2 DEF Tick
<1>4. \A a \in Activities : due[a] \in 0..Interval /\ due[a] \in Nat /\ left[a] \in Nat
  OBVIOUS
<1>5. due' \in [Activities -> 0..Interval]
  BY <1>4, LessType DEF Tick
<1>6. left' \in [Activities -> Nat]
  BY <1>4, LessType DEF Tick
<1>7. Fresh'
  <2>0. \A a \in Activities : at[a] \notin {"start", "begun", "end", "phase", "failed", "last"}
    BY <1>1 DEF Late, Writing, After
  <2>1. ASSUME NEW a \in Activities, Live(a)
        PROVE  /\ current'.age <= Interval
               /\ thread[a] = "wait" => current'.age + due'[a] <= Interval
    <3>1. at[a] \in {"on", "reaping"}
      BY <1>1, <2>0, <2>1 DEF Late, Live, Running, Writing, After
    <3>2. thread[a] = "wait" /\ due[a] # 0
      BY <1>1, <3>1 DEF Fresh, Late
    <3>3. current.age + due[a] <= Interval
      BY <2>0, <2>1, <3>2 DEF Fresh, InTime
    <3>4. due'[a] = due[a] - 1
      BY <1>4, <3>2, LessType DEF Tick
    <3> QED
      BY <1>2, <1>3, <1>4, <3>2, <3>3, <3>4
  <2> QED
    BY <1>1, <2>0, <2>1 DEF Fresh, Live, InTime
<1>8. Ended'
  BY <1>1 DEF Ended
<1> QED
  BY <1>1, <1>3, <1>5, <1>6, <1>7, <1>8

\* A step that writes nothing whole: the last beat is as old as it was.
LEMMA SameBeat ==
  ASSUME BeatIInv, NEW x \in {"empty", "cut"}, current' = [current EXCEPT !.text = x]
  PROVE  /\ current' \in [text : {"empty", "cut", "beat", "garbled"}, by : SUBSET Activities,
                           terminal : BOOLEAN, age : 0..Stall + 1]
         /\ current'.age = current.age /\ current'.text # "beat"
  BY DEF BeatIInv, BeatTypeOK

\* And one that writes: it is new.
LEMMA NewBeat ==
  ASSUME NEW a \in Activities, NEW t \in BOOLEAN, Beat(a, t)
  PROVE  /\ current' \in [text : {"empty", "cut", "beat", "garbled"}, by : SUBSET Activities,
                           terminal : BOOLEAN, age : 0..Stall + 1]
         /\ current'.age = 0
<1>1. PICK x \in {"beat", "garbled"} :
        current' = [text |-> x, by |-> {a}, terminal |-> t, age |-> 0]
  BY DEF Beat
<1>2. 0 \in 0..Stall + 1
  OBVIOUS
<1> QED
  BY <1>1, <1>2

\* A step of one activity that truncates the file.
LEMMA TruncateKeeps ==
  ASSUME BeatIInv, NEW a \in Activities,
         Enter(a) \/ Phase(a) \/ End(a) \/ SpawnRaises(a) \/ Verdict(a) \/ Open(a)
  PROVE  BeatIInv'
<1> USE DEF BeatIInv, BeatTypeOK, Goto, Activities, Running, Writing, After, Live, InTime
<1>1. OpenCurrent
  BY DEF Enter, Phase, End, SpawnRaises, Verdict, Open
<1>2. /\ current' \in [text : {"empty", "cut", "beat", "garbled"}, by : SUBSET Activities,
                        terminal : BOOLEAN, age : 0..Stall + 1]
      /\ current'.age = current.age /\ current'.text # "beat"
  BY <1>1, SameBeat DEF OpenCurrent
<1>3. CASE Enter(a)
  BY <1>2, <1>3 DEF Enter, Fresh, Ended
<1>4. CASE Phase(a)
  BY <1>2, <1>4, HeartbeatAssumption DEF Phase, Fresh, Ended
<1>5. CASE End(a)
  BY <1>2, <1>5, HeartbeatAssumption DEF End, Fresh, Ended
<1>6. CASE SpawnRaises(a)
  BY <1>2, <1>6 DEF SpawnRaises, Fresh, Ended
<1>7. CASE Verdict(a)
  BY <1>2, <1>7 DEF Verdict, Fresh, Ended
<1>8. CASE Open(a)
  BY <1>2, <1>8 DEF Open, Fresh, Ended
<1> QED
  BY <1>3, <1>4, <1>5, <1>6, <1>7, <1>8

\* A step of one activity that writes the file.
LEMMA WriteKeeps ==
  ASSUME BeatIInv, NEW a \in Activities, FillCurrent(a) \/ Write(a)
  PROVE  BeatIInv'
<1> USE DEF BeatIInv, BeatTypeOK, Goto, Activities, Running, Writing, After, Live, InTime
<1>1. \E t \in BOOLEAN : Beat(a, t)
  <2>1. CASE FillCurrent(a)
    <3> DEFINE last == at[a] \in {"end", "failed", "last"}
    <3>1. Beat(a, last)
      BY <2>1 DEF FillCurrent
    <3>2. last \in BOOLEAN
      OBVIOUS
    <3> HIDE DEF last
    <3> QED
      BY <3>1, <3>2
  <2>2. CASE Write(a)
    BY <2>2 DEF Write
  <2> QED
    BY <2>1, <2>2
<1>2. /\ current' \in [text : {"empty", "cut", "beat", "garbled"}, by : SUBSET Activities,
                        terminal : BOOLEAN, age : 0..Stall + 1]
      /\ current'.age = 0
  BY <1>1, NewBeat
<1>3. Interval \in 0..Interval /\ \A b \in Activities : due[b] \in Nat /\ due[b] <= Interval
  OBVIOUS
<1>4. CASE FillCurrent(a)
  BY <1>2, <1>3, <1>4 DEF FillCurrent, Fresh, Ended
<1>5. CASE Write(a)
  BY <1>2, <1>3, <1>5 DEF Write, Keepalive, Fresh, Ended
<1> QED
  BY <1>4, <1>5

\* A step of one activity.
LEMMA StepKeeps ==
  ASSUME BeatIInv, NEW a \in Activities,
         Own(a) \/ Thread(a) \/ External(a) \/ Enter(a) \/ Phase(a) \/ End(a) \/ Abort(a)
  PROVE  BeatIInv'
<1> USE DEF BeatIInv, BeatTypeOK, Goto, Keepalive, Activities, Running, Writing, After, Live,
            InTime
<1>0. Interval \in 0..Interval /\ Timeout \in Nat /\ Patience \in Nat
  OBVIOUS
<1>1. CASE Body(a)
  BY <1>0, <1>1 DEF Body, Fresh, Ended
<1>2. CASE SetStop(a)
  BY <1>2 DEF SetStop, Fresh, Ended
<1>3. CASE Abort(a)
  BY <1>3 DEF Abort, Fresh, Ended
<1>4. CASE Wake(a)
  BY <1>4 DEF Wake, Fresh, Ended
<1>5. CASE Spawn(a)
  BY <1>0, <1>5 DEF Spawn, Fresh, Ended
<1>6. CASE Communicated(a)
  BY <1>6 DEF Communicated, Stopped, PipeClosed, Fresh, Ended
<1>7. CASE TimesOut(a)
  BY <1>0, <1>7 DEF TimesOut, Fresh, Ended
<1>8. CASE GivesUp(a)
  BY <1>8 DEF GivesUp, Stopped, Fresh, Ended
<1>9. CASE Fork(a) \/ HeirsExit(a) \/ Exit(a)
  <2>1. CASE Fork(a)
    BY <2>1 DEF Fork, Fresh, Ended
  <2>2. CASE HeirsExit(a)
    BY <2>2 DEF HeirsExit, Fresh, Ended
  <2>3. CASE Exit(a)
    BY <2>3 DEF Exit, Fresh, Ended
  <2> QED
    BY <1>9, <2>1, <2>2, <2>3
<1>10. CASE Die(a)
  <2>1. current' = current \/ current' = [current EXCEPT !.text = "cut"]
    BY <1>10 DEF Die
  <2>2. CASE current' = current
    BY <1>10, <2>2 DEF Die, Fresh, Ended
  <2>3. CASE current' = [current EXCEPT !.text = "cut"]
    <3>1. /\ current' \in [text : {"empty", "cut", "beat", "garbled"}, by : SUBSET Activities,
                            terminal : BOOLEAN, age : 0..Stall + 1]
          /\ current'.age = current.age /\ current'.text # "beat"
      BY <2>3, SameBeat
    <3> QED
      BY <1>10, <3>1 DEF Die, Fresh, Ended
  <2> QED
    BY <2>1, <2>2, <2>3
<1> QED
  BY <1>1, <1>2, <1>3, <1>4, <1>5, <1>6, <1>7, <1>8, <1>9, <1>10, TruncateKeeps, WriteKeeps
     DEF Own, Thread, External

LEMMA BeatInvariant == BeatSpec => []BeatIInv
<1>1. BeatInit => BeatIInv
  BY BeatInitially
<1>2. BeatIInv /\ [BeatNext]_beating => BeatIInv'
  <2> SUFFICES ASSUME BeatIInv, [BeatNext]_beating PROVE BeatIInv'
    OBVIOUS
  <2>1. CASE UNCHANGED beating
    BY <2>1 DEF beating, BeatIInv, BeatTypeOK, Fresh, InTime, Ended, Live
  <2> QED
    BY <2>1, TickKeeps, StepKeeps DEF BeatNext
<1> QED
  BY <1>1, <1>2, PTL DEF BeatSpec

\* Every variable has its type; a wait is never longer than the interval.
THEOREM BeatTypeCorrect == BeatSpec => []BeatTypeOK
<1>1. BeatIInv => BeatTypeOK
  BY DEF BeatIInv
<1> QED
  BY <1>1, BeatInvariant, PTL

\* status() says "stalled" only when nothing that reports is alive: Interval <= Stall and
\* keepalives that are on time are enough, whatever the bodies do and whoever wrote last.
THEOREM SilenceMeansDeath == BeatSpec => []StalledMeansSilent
<1>1. BeatIInv => StalledMeansSilent
  <2> SUFFICES ASSUME BeatIInv, Stalled, NEW a \in Activities, Live(a) PROVE FALSE
    BY DEF StalledMeansSilent
  <2>1. current.age \in Nat /\ current.age > Stall /\ current.text = "beat"
    BY DEF BeatIInv, BeatTypeOK, Stalled, Idle
  <2>2. at[a] # "start"
    BY <2>1 DEF BeatIInv, Fresh
  <2>3. current.age <= Interval
    BY <2>2 DEF BeatIInv, Fresh, InTime
  <2> QED
    BY <2>1, <2>3
<1> QED
  BY <1>1, BeatInvariant, PTL

\* A wrapped command does not run once run_with_heartbeat has returned its verdict.
THEOREM VerdictsAreFinal == BeatSpec => []VerdictIsFinal
<1>1. BeatIInv => VerdictIsFinal
  BY DEF BeatIInv, Ended, VerdictIsFinal
<1> QED
  BY <1>1, BeatInvariant, PTL
=============================================================================
