------------------------------- MODULE BgJobs -------------------------------
(***************************************************************************)
(* The background-job store of harness/bg_jobs.py and the detached worker  *)
(* of harness/bg_worker.py, for one job.                                   *)
(*                                                                         *)
(* A job is one JSON file that several operating-system processes read and *)
(* rewrite without any lock: the `jcode --bg` process that submits it, the *)
(* worker it spawns, and every later `jcode jobs/logs/attach/stop`         *)
(* invocation.  No operation touches the files of two jobs at once, so one *)
(* job with several client processes shows every interleaving.             *)
(*                                                                         *)
(* `Path.write_text` truncates the file and then writes it: both halves    *)
(* are steps here, and a second writer that truncated earlier may leave    *)
(* the tail of a longer record behind its own (an unparsable file).        *)
(***************************************************************************)
EXTENDS Naturals

CONSTANTS
    Clients,     \* CLI invocations that list, read, attach to or stop the job
    Submitter,   \* the `jcode --bg` process
    Worker,      \* the `python -m harness.bg_worker` process
    MaxCrashes   \* bound on the processes that die outside the program's control

ASSUME ProcsAssumption ==
    /\ Submitter \notin Clients
    /\ Worker \notin Clients
    /\ Submitter # Worker
    /\ MaxCrashes \in Nat

Procs == Clients \cup {Submitter, Worker}

VARIABLES
    file,     \* the job's JSON file: a record, or unreadable (absent, torn)
    rec,      \* the JobRecord each process holds in memory
    pc,       \* the point each process has reached
    outcome,  \* what _run_one_shot returned in the worker
    crashes   \* how many processes have died so far

vars == <<file, rec, pc, outcome, crashes>>
-----------------------------------------------------------------------------
Statuses == {"running", "done", "failed", "stopped"}

\* The fields of JobRecord that decide anything: the recorded pid is either
\* missing or the worker's own, and an exit code is 0, non-zero or missing.
ExitCodes == {"zero", "nonzero"}
JobRecord == [status : Statuses, pid : {"none", "known"}, code : ExitCodes \cup {"none"}]

\* What _read_record makes of a missing, empty or malformed file: None.
Unreadable == [status |-> "unreadable", pid |-> "none", code |-> "none"]
IsRecord(f) == f # Unreadable
Submitted == [status |-> "running", pid |-> "none", code |-> "none"]

\* The worker process exists once Popen has returned its pid.  After it dies it
\* stays a zombie, for which os.kill(pid, 0) succeeds, until its parent exits.
WorkerLive == pc[Worker] \notin {"unborn", "exited"}
\* Mutant: _pid_alive without its `if not pid` early return.
PidAliveIgnoringPid(r) == WorkerLive \/ (pc[Worker] = "exited" /\ pc[Submitter] # "exited")

PidAlive(r) ==
    /\ r.pid # "none"
    /\ WorkerLive \/ (pc[Worker] = "exited" /\ pc[Submitter] # "exited")

GoTo(p, l) == pc' = [pc EXCEPT ![p] = l]
-----------------------------------------------------------------------------
Init ==
    /\ file = Unreadable
    /\ rec = [p \in Procs |-> Unreadable]
    /\ pc = [p \in Procs |-> CASE p = Submitter -> "submit"
                              [] p = Worker -> "unborn"
                              [] OTHER -> "idle"]
    /\ outcome = "none"
    /\ crashes = 0

\* _write_record, first half: write_text opens the file for writing.
Truncate(p) ==
    /\ pc[p] = "truncate"
    /\ file' = Unreadable
    /\ GoTo(p, "fill")
    /\ UNCHANGED <<rec, outcome, crashes>>

\* A record without `ended_at` is shorter than one that has it.
MayLeaveTail(old, new) ==
    IsRecord(old) /\ (old.status = "running" => new.status = "running")

\* Where each caller of _write_record goes on: submit_job spawns after its first
\* write, the worker runs the request after its own get_job.
AfterWrite(p) ==
    CASE p = Submitter -> IF rec[p] = Submitted THEN "spawn" ELSE "exited"
      [] p = Worker    -> IF outcome = "none" THEN "run" ELSE "exited"
      [] OTHER         -> "idle"

\* _write_record, second half: the bytes reach the file.
Fill(p) ==
    /\ pc[p] = "fill"
    /\ \/ file' = rec[p]
       \/ MayLeaveTail(file, rec[p]) /\ file' = Unreadable
    /\ GoTo(p, AfterWrite(p))
    /\ UNCHANGED <<rec, outcome, crashes>>
-----------------------------------------------------------------------------
\* submit_job: persist the record before spawning anything.
SubmitJob ==
    /\ pc[Submitter] = "submit"
    /\ rec' = [rec EXCEPT ![Submitter] = Submitted]
    /\ GoTo(Submitter, "truncate")
    /\ UNCHANGED <<file, outcome, crashes>>

\* _spawn_worker succeeded: the worker runs from now on, the pid is only in the
\* submitter's memory until its second write.
SpawnWorker ==
    /\ pc[Submitter] = "spawn"
    /\ rec' = [rec EXCEPT ![Submitter].pid = "known"]
    /\ pc' = [pc EXCEPT ![Submitter] = "truncate", ![Worker] = "boot"]
    /\ UNCHANGED <<file, outcome, crashes>>

\* Popen raised: the job is recorded as failed.
SpawnFails ==
    /\ pc[Submitter] = "spawn"
    /\ rec' = [rec EXCEPT ![Submitter].status = "failed"]
    /\ GoTo(Submitter, "truncate")
    /\ UNCHANGED <<file, outcome, crashes>>
-----------------------------------------------------------------------------
\* get_job, called by the worker when it boots and by every client command.
ReadRecord(p) ==
    /\ pc[p] \in {"boot", "read"}
    /\ IF IsRecord(file)
       THEN /\ rec' = [rec EXCEPT ![p] = file]
            /\ GoTo(p, IF file.status = "running" THEN "reconcile" ELSE "got")
       ELSE /\ GoTo(p, IF p = Worker THEN "exited" ELSE "idle")
            /\ UNCHANGED rec
    /\ UNCHANGED <<file, outcome, crashes>>

\* Mutant: the downgrade is only shown, never persisted.
ReconcileNotPersisted(p) ==
    /\ pc[p] = "reconcile"
    /\ GoTo(p, "got")
    /\ UNCHANGED <<file, rec, outcome, crashes>>

\* _reconcile: a running record whose pid is not alive is rewritten as failed.
Reconcile(p) ==
    /\ pc[p] = "reconcile"
    /\ IF PidAlive(rec[p])
       THEN GoTo(p, "got") /\ UNCHANGED rec
       ELSE /\ rec' = [rec EXCEPT ![p].status = "failed"]
            /\ GoTo(p, "truncate")
    /\ UNCHANGED <<file, outcome, crashes>>
-----------------------------------------------------------------------------
\* bg_worker.main: the record was found, whatever its status.
StartRequest ==
    /\ pc[Worker] = "got"
    /\ GoTo(Worker, "run")
    /\ UNCHANGED <<file, rec, outcome, crashes>>

\* _run_one_shot returns a code, or raises and counts as exit code 1.
RunOneShot ==
    /\ pc[Worker] = "run"
    /\ outcome' \in ExitCodes
    /\ GoTo(Worker, "mark")
    /\ UNCHANGED <<file, rec, crashes>>

\* Mutant: the worker reports done without looking at the exit code.
MarkFinishedAlwaysDone ==
    /\ pc[Worker] = "mark"
    /\ IF IsRecord(file)
       THEN /\ rec' = [rec EXCEPT ![Worker] = [file EXCEPT !.status = "done", !.code = outcome]]
            /\ GoTo(Worker, "truncate")
       ELSE GoTo(Worker, "exited") /\ UNCHANGED rec
    /\ UNCHANGED <<file, outcome, crashes>>

\* mark_finished: re-read the record (a missing one makes this a no-op) and
\* rewrite it with the exit code.
MarkFinished ==
    /\ pc[Worker] = "mark"
    /\ IF IsRecord(file)
       THEN /\ rec' = [rec EXCEPT ![Worker] =
                         [file EXCEPT !.status = IF outcome = "zero" THEN "done" ELSE "failed",
                                      !.code = outcome]]
            /\ GoTo(Worker, "truncate")
       ELSE GoTo(Worker, "exited") /\ UNCHANGED rec
    /\ UNCHANGED <<file, outcome, crashes>>
-----------------------------------------------------------------------------
\* A client command begins with get_job: list_jobs, read_log, one poll of
\* attach_job, or stop_job.
GetJob(c) ==
    /\ pc[c] = "idle"
    /\ GoTo(c, "read")
    /\ UNCHANGED <<file, rec, outcome, crashes>>

\* The command only shows the record, or stop_job refuses one not running.
ShowJob(c) ==
    /\ pc[c] = "got"
    /\ GoTo(c, "idle")
    /\ UNCHANGED <<file, rec, outcome, crashes>>

\* stop_job on a running record: kill the recorded pid's tree, then rewrite.
StopJob(c) ==
    /\ pc[c] = "got"
    /\ rec[c].status = "running"
    /\ pc' = [pc EXCEPT ![c] = "truncate",
                        ![Worker] = IF rec[c].pid # "none" THEN "exited" ELSE @]
    /\ rec' = [rec EXCEPT ![c].status = "stopped"]
    /\ UNCHANGED <<file, outcome, crashes>>
-----------------------------------------------------------------------------
\* A process is killed from outside; a client's slot is free for the next one.
Crash(p) ==
    /\ crashes < MaxCrashes
    /\ pc[p] \notin {"unborn", "exited", "idle"}
    /\ crashes' = crashes + 1
    /\ GoTo(p, IF p \in Clients THEN "idle" ELSE "exited")
    /\ UNCHANGED <<file, rec, outcome>>

SubmitterStep == SubmitJob \/ SpawnWorker \/ SpawnFails \/ Truncate(Submitter) \/ Fill(Submitter)
WorkerStep == ReadRecord(Worker) \/ Reconcile(Worker) \/ StartRequest \/ RunOneShot
                \/ MarkFinished \/ Truncate(Worker) \/ Fill(Worker)
ClientStep(c) == GetJob(c) \/ ReadRecord(c) \/ Reconcile(c) \/ ShowJob(c) \/ StopJob(c)
                   \/ Truncate(c) \/ Fill(c)

Next ==
    \/ SubmitterStep
    \/ WorkerStep
    \/ \E c \in Clients : ClientStep(c)
    \/ \E p \in Procs : Crash(p)

Spec == Init /\ [][Next]_vars

\* attach_job polls every half second and each `jcode jobs` reconciles again, so
\* a client that started a command finishes it and another command follows.
FairSpec == Spec /\ \A c \in Clients : WF_vars(ClientStep(c))
-----------------------------------------------------------------------------
\* Type correctness of the store and of every process.
TypeOK ==
    /\ file \in JobRecord \cup {Unreadable}
    /\ rec \in [Procs -> JobRecord \cup {Unreadable}]
    /\ pc \in [Procs -> {"submit", "spawn", "unborn", "boot", "idle", "read", "reconcile",
                         "got", "run", "mark", "truncate", "fill", "exited"}]
    /\ outcome \in ExitCodes \cup {"none"}
    /\ crashes \in 0..MaxCrashes

\* A verdict in the store is never invented: a record that says done, or carries
\* an exit code, reports what the request really returned in the worker,
\* whatever stale copies other processes wrote back (mark_finished).
HonestVerdict ==
    /\ file.status = "done" => outcome = "zero"
    /\ file.code # "none" => file.code = outcome

\* A job recorded as stopped has no process left: stop_job never reports success
\* for a worker that is still running, not even for a record whose pid had not
\* been written yet (stop_job goes through get_job's reconciliation).
StoppedMeansDead == file.status = "stopped" => ~WorkerLive

\* No permanent ghost: once the submitter and the worker are gone, the clients'
\* reads move the record off "running" for good (_reconcile).
NoGhost ==
    (pc[Submitter] = "exited" /\ pc[Worker] \in {"exited", "unborn"})
        ~> [](file.status # "running")
=============================================================================
