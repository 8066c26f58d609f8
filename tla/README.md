# jaros-code in TLA+

A verification development of jaros-code, a local coding harness: a command
line and REPL that lets a small local model propose edits ("Decisions"), checks
them, applies them, runs the tests and tries again; that builds and modifies
whole programs the same way; and that measures itself on commits of real
repositories and on generated systems. The TLA+ modules here model the parts
whose correctness depends on the order of events: several processes on one
file, commands that fail half way, services shared by clients, processes that
outlive those who started them. TLC checks every module on small instances;
TLAPS proofs establish every safety property the runs check, and the one
refinement, for every value of the constants.

Paths below are relative to the repository (`harness/...`, `scripts/...`).

## 1. Inventory

| Component | State it keeps | Operations | Talks to | What is hard | What makes it correct | Module |
|---|---|---|---|---|---|---|
| Background jobs (`bg_jobs.py`, `bg_worker.py`) | one JSON record and one log per job; pids | submit, run, list, logs, attach, stop, mark finished, reconcile | worker processes, every later CLI process | unlocked read-modify-write by 3+ processes, truncate-then-write, kills and crashes | no invented verdict, a stopped job is dead, no ghost stays running | `BgJobs` |
| Decision gate (`coding_loop.Runtime`) | mode, rules, hooks, allowlist, checkpoint ring | `apply` | every command that has an effect; tools; hooks; user prompt | five checks in a fixed order; several kinds of Runtime, not all configured alike | nothing runs that a check would have stopped | `Runtime` |
| Checkpoints (`checkpoint_ring.py`, `cli.cmd_undo`, `cmd_rewind`) | bounded ring of pre-edit contents, one whole-run snapshot | record, rewind n, undo | gate (restores are Decisions too) | restores refused half way, eviction, order of restores | what is reported restored is restored; rewinding is going back in history | `Runtime`, `EditHistory` |
| Multi-file repair (`multi_file.py`, `fix_loop`) | candidates, failure count to beat, kept and dropped edits | try a candidate, keep, revert, minimize | gate, test runner, interrupt flag | decisions taken from a count parsed out of test output; writes that may be refused | "fixed" means green; no edit kept that does not lower the failures shown; nothing unreported stays changed | `FixRepo` |
| Model manager (`scripts/jetson_model_manager.py`) | the llama-server process, `_current` | serve (kill, launch, wait), boot | HTTP clients | blocking single-threaded port, late loads, dying servers, restarts | "ok" means served | `ModelManager` |
| Escalation (`fix_loop_escalating`, `_http_swap`) | which model it swapped to | swap, retry, swap back | model manager, other clients | client timeout shorter than the load; several clients | the fallback is not left being served; the caller always gets its answer | `ModelManager` |
| Routing and rewiring (`model_rewire.py`, `model_router.py`, `solve_routed.py`, tally, labels) | active client and adaptation, coverage, labels | route, rewire, solve, test, record | model manager, other clients | decides from a stale reading of what is served | a swap is skipped only when there is nothing to swap; a label names the model that did the work | `Routing` |
| System builder (`system_builder.py`) | a root directory, the dict of its modules, a checklist | plan, build, accept, repair, replace, modify, escalate, govern, choose the best of k | gate, runner, model, manager | every repair writes first and looks afterwards; calls raise in the middle of a round | `done` is true of the directory; repairs lose nothing; a modification is applied or undone | `SystemBuilder` |
| MCP sessions (`mcp_session.py`, `mcp_client.py`) | pool of server processes and their pipes | discover, call, evict, close all | gate tool, REPL | retry after a timeout, answers that come late or twice, servers that exit or hang | an answer is the answer to the call that gets it; nothing is leaked or runs later | `McpSessions` |
| Session store and REPL (`session.py`, `cli.py`) | transcripts, one shared name index, the open conversation | start, turn, new, resume, fork, name, compact, save | several REPL and one-shot processes | unlocked index, torn files that read as empty | what was recorded is on disk and findable | `Sessions` |
| Heartbeat (`heartbeat.py`, `run_with_heartbeat.py`) | one status file | beat, keepalive thread, status | every long operation, `/status` | unjoined keepalive threads; commands that ignore a kill | "stalled" is said only when nothing beats; a dead run is noticed | `Heartbeat` |
| Commit replay (`commit_replay.py`, `behavioral_solve.py`, `generate_test_solve.py`) | a git checkout, the candidate of each function, containers | validate, attempt on each path, score, reset | git, docker, model | files written for one candidate and read by the next run; kills and exceptions before the reset | the score is of the kept code on the right commit | `Replay` |
| Behavioural oracles, sandbox, services (`*_oracle.py`, `import_driver.py`, `secure_exec.py`, `service_provisioner.py`) and the suites that call them | launched processes, a port, a scripted model, a database, a container | launch, poll, ask, wait, kill, inspect, provision, tear down | generated programs | programs that fork, hang, hold pipes or never bind; ports anybody may take | a verdict is about the program it was asked of, which does not outlive it | `Oracles` |
| Interrupt, streaming (`interrupt.py`, `stream_bus.py`) | the process-wide cancel flag | set, reset, poll | REPL, repair | two paths for one line of input, only one of which resets the flag | a cancel reaches the command it was meant for | in part: `FixRepo` (a cancel at every candidate), `Sessions` (a streamed line) |
| Tasks (`task_store.py`) | a JSONL list with a cap | add, update, list | REPL, agents | unlocked rewrite; the cap drops the oldest | a task once added is there until done | none |
| Plan-act loop (`agent_loop.py`) | todo list | plan, execute, replan | planner, multi-file repair | a failed step is never taken off the list | a recovered request can be reported done | none |
| Alternative solvers and probes (`collaborative_solve.py`, `experiment_solve.py`, ...) | a checkout per task, the served model | draft, critique, revise, score | manager, git | swap-back and reset outside a `finally` | | none |
| Memories, contracts, research, discovery, navigation, reporting | mostly none | | | sequential | | none |

Interactions worth knowing: every effect of the CLI is supposed to go through
`Runtime.apply`, but there are four kinds of Runtime. The CLI's own `self.rt`
and the narrowed copy a delegated subagent gets have rules, hooks, mode and the
ring; `_write_runtime()` has rules, hooks and mode but no ring; the `Runtime()`
that `fix_loop` and the deterministic repairs build is unconfigured. Background
jobs are further CLI processes in the same directory, with their own Runtime,
the same job files, the same session index and the same model manager. The
model manager is one for all: escalation, routing, the builder's fallback and
the probes take turns on a single llama-server.

`PROJECT.json` lists the components with their status, and the hazards found at
the line where each bites, with the properties that are about it.

## 2. Modules

| Module | Models | Extends / composes |
|---|---|---|
| `BgJobs` | the job record, its submitter, worker and client processes | |
| `Runtime` | `Runtime.apply`, the checkpoint ring and the commands that edit or restore | |
| `EditHistory` | abstract: an editor with a bounded history of whole workspaces | |
| `RuntimeRefinement` | the mapping under which `Runtime` implements `EditHistory` | `Runtime`, `INSTANCE EditHistory` |
| `FixRepo` | `multi_file_fix`, `_minimize_edits`, the `keep_partial` `fix_loop` | |
| `ModelManager` | the model manager composed with its escalating clients | |
| `Routing` | routed solves as further clients of the manager | `ModelManager` |
| `SystemBuilder` | `build_system` with its repairs, `modify_system`, the escalating, governed and best-of-k callers | |
| `McpSessions` | the client pool of one CLI process, and the servers at the other end of its pipes | |
| `Sessions` | conversations, transcripts and the index, of several processes | |
| `Heartbeat` | activities, keepalive threads, wrapped commands, in discrete time | |
| `Replay` | evaluations of a corpus on one checkout | |
| `Oracles` | the behavioural checks of generated programs, one after the other on one machine | |
| `RuntimeProofs`, `FixRepoProofs`, `SystemBuilderProofs`, `McpSessionsProofs`, `SessionsProofs` | theorems and proofs about the module of that name | `RuntimeRefinement` or the module, `TLAPS` |
| `ModelManagerProofs` | theorems about `ModelManager`, and about `Routing`, which extends it | `Routing`, `TLAPS` |
| `BackgroundProofs` | theorems about what runs in the background: `BgJobs`, `Heartbeat` | both, `TLAPS` |
| `EvaluationProofs` | theorems about how the harness measures itself: `Replay`, `Oracles` | both, `TLAPS` |
| `MC<M>` | values of the constants for TLC | `M` |

Definitions named "Mutant: ..." in a comment are variants of the definition
that follows them, each with a plausible bug. No specification uses them;
`PROJECT.json` pairs each checked property with one that breaks it.

### BgJobs

`file` is what `_read_record` would return for the job's JSON file, `rec[p]` the
`JobRecord` process `p` holds in memory, `pc[p]` where it is. Every load of the
file and each half of every `write_text` (truncate, fill) is a step, so reads
between the halves see an unreadable file and two writers interleave; a writer
that truncated earlier may leave the tail of a longer record behind.

| Code | Actions |
|---|---|
| `submit_job` | `SubmitJob`, `Truncate`/`Fill`, `SpawnWorker` or `SpawnFails`, `Truncate`/`Fill` |
| `bg_worker.main` | `ReadRecord`, `Reconcile`, `StartRequest`, `RunOneShot`, `MarkFinished`, `Truncate`/`Fill` |
| `get_job`, `list_jobs`, `read_log`, one poll of `attach_job` | `GetJob`, `ReadRecord`, `Reconcile`, `ShowJob` |
| `stop_job` | the same up to the record, then `StopJob`, `Truncate`/`Fill` |
| a process killed from outside | `Crash` |

Pids are two-valued (missing, or the worker's own): a recycled pid is not
modelled. A dead worker is a zombie, hence "alive" to `os.kill(pid, 0)`, while
its parent lives; `PidAlive` says so.

### Runtime

`disk` is the workspace; `cmd` the command running, with the Decisions it still
has to apply (`todo`), what it reports as restored (`memo`) and whether an apply
raised (`errs`); `call` is the `Runtime.apply` in progress.

| Code | Actions |
|---|---|
| `Runtime.apply` | `Begin` (plan mode), `Hooks` (PreToolUse), `Gate` (hard gate, allowlist, rules, user), `Capture`, `Execute`, `Record` (ring, PostToolUse) |
| `cmd_patch`, `cmd_run`, a subagent's turn | `Patch`, `RunShell`, `EndSingle` |
| `cmd_fix` (`fix_loop`) | `Fix`, `FixAttempt`, `EndFix` |
| `cmd_agent` | `Agent` (snapshot), `AgentWrite`, `EndAgent` |
| `cmd_undo` | `Undo`, one apply per file, `EndUndo` |
| `cmd_rewind` | `Rewind`, one apply or `Skip` per entry, `EndRewind` |
| `cmd_mode` | `SetMode` |
| another process writing in the workspace | `Outside` |

Abstractions: a file's content is a model value or `Absent`; which contents (and
shell commands) the tools' own `validate` refuses is the set `Unsafe`; glob
matching of permission rules is a table from Decision type to action; what a
shell command or a hook does to the workspace is "some file changes or none".
Everything `apply` merely reports (events, log, counters) is left out. The
ring's eviction, the order of `last_n` and the unconditional `drop_last_n` are
as in the code.

### EditHistory and the refinement

`EditHistory` states what `/rewind` is for: the workspace and a bounded list of
the whole workspaces that edits replaced; going back n is one step. The code
keeps only per-file contents, restores them one at a time, and cannot delete a
file that the rewound edit created. `RuntimeRefinement` reconstructs version i
of each file as the `before` of its first checkpoint from i on, and treats a
rewind in progress as already done. A file that did not exist in the remembered
workspace goes back to its oldest known content, and so does its history.

### FixRepo

The model's edits are arbitrary (`Attempt(c)` for every content). The suite is
a function, chosen in `Init`, from workspaces to how their run ends: with a
number of failing tests, without any count (`Silent`: a timeout, a crash of the
test command) or without having run a test (`Uncollected`, also what a file
that is not valid Python leads to). `FailCount` is what `_fail_count` reads off
the output (1 for a silent run, the collection errors for an uncollected one),
`LoopCount` what `fix_loop` ranks its attempts by (999 for a silent one), and
`Failing` the truth neither sees. `policy` is what may become of the writes of
`_restore` and of the probes: applied, refused (by a rule, the gate or the
user), withheld by plan mode (reported as a success without effect), or now one
and now another, when the user is asked each time.

| Code | Actions |
|---|---|
| top of the candidate loop, interrupt poll | `NextCandidate`, `NoCandidateFixedIt` |
| `fix_loop(keep_partial=True)` | `Refused`, `Attempt`, `GiveUp` |
| judging the candidate | `Solve`, `KeepPartial`, `Revert` |
| `_minimize_edits` | `ProbeRefused`, `ProbeGreen`, `ProbeRed`, `Minimized` |

### ModelManager

`server` is the llama-server process with its model and whether it is loading,
ready or down; `current` is `_current`; `mgr` the `serve_model` call in
progress; `queue` the connections the single-threaded port holds; `client` and
`reply` the escalating processes.

| Code | Actions |
|---|---|
| llama-server | `Load`, `Die` |
| `do_POST`/`serve_model` | `AlreadyServing`, `Launch` (kill and launch), `LoadReady`, `LoadExited`, `LoadLate` |
| service restart (`main` again) | `Restart` |
| `fix_loop_escalating`, `build_system_escalating` | `Escalate`, `Swapped`, `RetryEnds`, `Restored` |
| `_http_swap`'s 60 s timeout | `GiveUp` |
| `stop_job` or a closed terminal | `Killed` |

`faults` is chosen in `Init`, so that one run covers executions in which clients
are patient and executions in which they are not, and a property can speak of
either.

### Routing

A router is one more client of `ModelManager`: `router[r]` is its stage and the
candidates it has left, `alias` the `LLAMACPP_MODEL` it set, `label` the last
line of the label store, which remembers (as a ghost) whose model really made
the result. It shares `queue`, `reply` and the fault sets with the escalating
clients.

| Code | Actions |
|---|---|
| `route`, `ranked_models_for`, the budget of models | `Route` (`Best`, `Candidates`) |
| `rewire`: `_manager_current`, `_manager_swap`, activation | `ReadCurrent`, `AskForSwap`, `SwapAnswered`, `Activate` |
| the loop of `solve_routed_escalating` | `Solve`, `Test`, `NextCandidate` |
| a timeout, a kill | `Abandon` |

A ranking is any list of `Rankings`: how coverage is computed is arithmetic
over a file, and no property depends on it.

### SystemBuilder

A directory is a function from module names to codes; `Fails(d)` are the checks
that fail on it, an arbitrary function, so that a module can help one check and
break another, or work only next to a certain other module. `Minimum(mods)` are
the deterministic checks of a plan with these modules, `SingleMinimum` those of
`main.py` alone: the single-file retry and the leaf are judged by the latter
(`SingleChecks` adds what was proposed), as are the attempts that adopted one.
`pc` is the stage, `loop` the repair loop that runs, `edit` the locals of
`modify_system`. A model answers any code or raises; a write may be refused
(`faults`), and `lost` remembers when the code does not notice.

| Code | Actions |
|---|---|
| plan, build, syntax rescue, assembly, acceptance | `PlanFails`, `Build`, `SyntaxRescue`, `BuildFails`, `Assemble`, `AssembleRefused`, `NotVerifiable`, `ServeAndCheck`, `Accept` |
| `_repair_system`, and the loop of the governed build | `StartRound`, `SkipCheck`, `FixCheck`, `RepairCallRaises`, `RevertRound`, `KeepRound`, `StopRepair` |
| the single-file retry, replanning, the leaf | `RetryAsSingleFile`, `NoSingleFile`, `StartReplan`, `KeepReplan`, `RejectReplan`, `StopReplan`, `RepairWithLeaf`, `NoLeaf`, `Finish` |
| `modify_system` | `TakeBaseline`, `BaselineRefused`, `NothingToChange`, `Change`, `ChangeRefused`, `RevertChange`, `KeepChange`, `KeepImprovement`, `UndoImprovement`, `StopImproving` |
| `build_system_escalating`, `build_system_governed`, the commands | `Escalate`, `StayOnPrimary`, `ChooseBetter`, `NotGoverned`, `Govern`, `KeepGoverned`, `RestoreBaseline`, `Report` |
| `build_system_best_of_k`, `_score_build_attempt` | `ScoreAttempt`, `NextAttempt`, `AssembleWinner` |

### McpSessions

`srv[s]` is a server's leader with its two pipes, and whether it has helpers
(`kin`) that a kill of its process group would reach; `pool` are the names that
have a client, `call` the call in progress with its attempt and the id of its
request. `strays` names the servers with helpers that no close reaches: those of a
leader that exited before it was killed, also during the two seconds `close` gives
it, and those in a session of their own. `ran` counts, as a ghost, how often each
call's tool ran. Helpers do not read requests.

| Code | Actions |
|---|---|
| `call_tool`, `discover_tools` | `Begin`, `Return`, `Fail` (evict and try once more) |
| `_get_client`, `_launch`, `start` | `Reuse`, `Launch`, `LaunchFails` |
| `_send` | `Send` (the request fits into the pipe), `Block`, then `Drain` or `Refuse` |
| `_recv`, the match of ids | `Receive`, `SkipLine` |
| `close`, `close_all` | `Close`, `CloseAll` |
| the server (external) | `Serve`, `Echo`, `Exit` |

### Sessions

`mem[p]` is the conversation of process `p`, `file` and `index` what is on disk,
`torn` and `indexTorn` what does not parse. A save is five steps (open, write,
read the index, open it, write it), so two processes interleave between any two.
`contested` and `raced` are ghosts for the two things a property has to except:
a session open twice, and index updates that overlapped.

| Code | Actions |
|---|---|
| start of a REPL or a one-shot, `--resume`, `-c`, `--fork` | `Start`, `StartFork`, `Load` |
| a turn, on either path | `Record`, `Stream` |
| `/new`, `/resume`, `/name`, `/fork`, `/compact` | `CmdNew`, `CmdResume`, `CmdResumeInto`, `CmdName`, `CmdFork`, `CmdCompact` |
| `save_session`, `_save_index` | `Save`, `Write`, `WriteFails`, `ReadIndex`, `OpenIndex`, `Put` |
| `/quit`, a kill | `Quit`, `Die` |

### Heartbeat

Time is a `Tick` that ages the last beat and runs deadlines down; a live process
meets its own (`Late`). Bodies and commands take as long as they like, or for
ever. A beat is two steps, truncating `current.json` (`OpenCurrent`) and writing it
(`Beat`), by the activity's own thread or by its keepalive: `text` says whether the
file is truncated and will be written (`empty`), was left so by a kill (`cut`),
holds a beat, or is what two overlapping writes make of it (`garbled`). All but a
beat read as idle.

| Code | Actions |
|---|---|
| `heartbeat()` | `Enter`, `Body`, `Phase`, `End`, `Abort`, `SetStop` |
| `beat`, by that thread | the opening half in the actions above and below; `FillCurrent` |
| `_keepalive` | `Wake`, `Open`, `Write` |
| `run_with_heartbeat` | `Spawn`, `SpawnRaises`, `Communicated`, `TimesOut`, `GivesUp`, `Verdict` |
| `status` | `Stalled` |
| the operating system and the commands (external) | `Fork`, `HeirsExit`, `Exit`, `Die`, `Tick` |

### Replay

`tree` is the checkout (commit, code of each function, tests, self-test file),
`cand` the code being tried, `alt` its rival, `kept` what was settled, `box` the
containers: of a self-test, of the oracle, `stuck` when nobody told docker to
remove one that goes on, `left` when docker was told and did not (`Removed`), `lost`
when a kill left it. A `Jobs` record is a path and its options: `gherkin` with reviews and
ensemble (the augmented attempt differs in its prompts only), `jaros` (and its
planned form), `agentic`, `gen`, `task` with the test hidden or shown, and
`validate` for red/green.

| Code | Actions |
|---|---|
| `__main__`, `run_gherkin` | `StartEval`, `SkipTask`, `NextTask` |
| the set-up of an attempt | `CheckoutParent`, `CheckoutTests`, `Author` |
| `_run_selftests`, docker | `SelfTest`, `Passes`, `Fails`, `StuckEnds` |
| the solve of a function, by path | `Try`, `NothingToTry`, `GherkinVerdict`, `JarosVerdict`, `AgenticVerdict`, `GenVerdict` |
| sign-off, ensemble, consolidation | `SignOff`, `NoReview`, `Signed`, `Ensemble`, `NoEnsemble`, `Mine`, `TryOther`, `Theirs`, `Settle`, `Consolidate` |
| `_run_nodes`, `attempt_task`, `validate_redgreen` | `Score`, `SolveTask`, `ScoreTask`, `RedRun`, `CheckoutCommit`, `GreenRun` |
| `_reset`, an exception, a kill | `Reset`, `Clean`, `Raise`, `Kill` |

### Oracles

A process is `<<r, role>>`: the leader of the r-th launch, a helper, a helper
that let go of the leader's output, or one in a session of its own. The program
under test is arbitrary within `habits`, chosen in `Init`: whether its leader
ends before its helpers, whether it leaves the session, whether others bind
ports, whether a response never ends, whether docker times out. `leader` says
whether the leader was collected (`wait`, `poll`), because from then on its
process group cannot be found any more. A launch `Escapes` when its program has
a habit by which a process of it outlives the kill. `db` names the launches
whose rows are in the database (one launch's rows count once): the leader's,
written when it ends, and those of helpers, written whenever they like
(`Write`), also while a later check reads them. The build's own checks in the
same root are launch 0, of whose helpers only those that escape can be left
(`Earlier`).

| Code | Actions |
|---|---|
| `_run_one_task`, `grade_real_system_task` | `RunOneTask` (`First`, `Attend`) |
| `_free_port`, `_launch*`, `_wait_for_port`, `_check_one` | `FreePort`, `Launch`, `LaunchFails`, `Polled`, `Connect`, `Asked`, `AllAsked` |
| the waits of `run_and_inspect`, `drive_import`, `_drive_clock`, `drive_agent` | `Exited`, `TimedOut` |
| the scripted model of `drive_agent` | `HostStub`, `Request`, `CloseStub` |
| `run_sandboxed`, `run_with_treekill` | `ReadToEnd`, `ReadTimesOut`, `Drain` |
| `_kill_tree`; the checks on what is left | `KillTree`; `Inspect` |
| `verify_persistence`, `verify_*_persistence` | `CleanDatastore`, `Look` |
| `provision_*`, `teardown` | `Provision`, `Probed`, `Teardown` |
| programs and the machine (external) | `Fork`, `Listen`, `End`, `Write`, `Others`, `RowsAfter` |

The class graders (state machine, conservation, double entry, clock) and the
library checks render a driver script and read sentinel lines; here they are the
kind "script", and what a check says of the output is a free choice. Redis and
Postgres are one kind.

## 3. Runs

Numbers of states are TLC's distinct states. Each run asks one question of one
system; every action and every disjunct of the next-state relations fires in
them.

| Run | States | Properties | What it shows |
|---|---|---|---|
| `bg_jobs` | 87 062 | `HonestVerdict`, `StoppedMeansDead`, `NoGhost` | With two clients and up to two killed processes, every interleaving of the file steps: "done" and an exit code are what the request returned, a stopped job has no live worker, and a record whose processes are gone leaves "running" for good. |
| `runtime` | 4 840 190 | `EffectsSanctioned`, `HonestRestore`, `SnapshotKeptUntilRestored` | All commands, modes, hooks, a subagent, an outside writer and three rule tables: no tool runs on a Decision some check would have stopped, the report of `/undo` and `/rewind` is true, and `/undo` keeps its snapshot until every file is back. |
| `runtime_history` | 37 550 | `IsEditHistory` | Sessions of `/patch` and `/rewind` over two files and a ring of three implement `EditHistory`. |
| `fixrepo` | 796 896 | `SolvedIsGreen`, `DiffIsReported`, `NeverWorse` | Every suite over two files with two texts that parse and one that does not (each workspace green, failing, silent or uncollected), every order of candidates, every edit, an interrupt at every candidate, and a Runtime that applies, refuses, withholds or asks: fixed is green, nothing unreported stays changed, every edit kept lowers the number of failures the runs *show*. |
| `manager` | 20 190 | `PatientRestores`, `ReplyIsHonest`, `EscalationEnds` | Two escalating processes with a server that dies, restarts, clients that give up or are killed, late loads: the fallback is not left being served by a patient client, "ok" means served, the caller gets its answer. |
| `routing` | 413 208 | `LabelNamesMaker`, `SkipsOnlyServed`, `RoutedSolveEnds` | A routed solve next to an escalating client and the same faults: a swap is skipped only while the candidate is served, a lone solve's label names the model that made the result, every solve ends. |
| `builder` | 2 541 197 | `DoneIsVerified`, `ReturnedIsOnDisk`, `RepairsNeverRegress`, `GovernedFloor`, `ModifyIsGated` | Every plan, fix, replacement, modification and choice of attempts over two modules and three checks, with a refused write anywhere and calls that raise in the middle of a round. |
| `mcp` | 1 410 306 | `AnswerIsOwn`, `NoneLeaked`, `NothingRunsLater`, `CallsReturn` | Two servers that exit, hang, answer late, twice or with an error, write lines without end or do not read, with helpers: an answer is the answer to the call that gets it, no request runs once its call has returned, no process that a close can reach outlives it, and every call returns that does not wait for ever to write its request. |
| `sessions` | 3 986 987 | `OnDisk`, `IndexAgrees`, `NothingForgotten` | Two processes over two sessions, killed or out of disk at any step of a save: every turn that was recorded is what `--resume` finds, at rest the index names what the transcripts say, and no transcript loses what it had. |
| `heartbeat` | 63 908 | `StalledMeansSilent`, `DeadIsNoticed`, `RunEnds` | A block and a wrapped command that hang, are killed (also in the middle of a beat), ignore a kill or leave heirs: "stalled" is said only when nothing beats, a dead run is noticed unless its last write left a file that does not parse, `run_with_heartbeat` returns. |
| `replay` | 729 720 | `ScoredAsKept`, `TriedAsWritten`, `NeverDegraded`, `NoneForgotten`, `CleanAtRest`, `EvalEnds` | Evaluations of four commits over three functions in two files on every path, with exceptions, interrupts, two kills and a docker that may not remove what it is told to: what the self-tests and the oracle really run on, which code is kept, what is left of the checkout, and that no container is there which nobody told docker to remove. |
| `oracles` | 575 852 | `NothingOutlives`, `VerdictIsOwn`, `OracleReturns` | Two launches among servers, scripts, agents, sandboxed commands and persistence checks, of programs with each bad habit: what outlives a check; that an "ok" rests on the answers and rows of the program it was asked of, unless one that escaped an earlier check or a stranger in a race for the port gave them; that the oracle returns. |

Every system states its type invariant, which is proved for every value of the
constants rather than checked by a run.

Deadlock is checked where the system always has a next step. `builder`, `mcp`,
`sessions`, `heartbeat` and `oracles` end (a command returns, the calls or
launches are used up, both processes have quit), so their configurations say
`CHECK_DEADLOCK FALSE`.

### Bounds, and why they are enough

* `BgJobs`: `MaxCrashes` = 2 lets both the submitter and the worker die, the
  case `_reconcile` exists for. Two clients are needed for a stale write of one
  to meet the read or write of another; clients have no identity in the code. No
  operation touches two jobs, so one job suffices.
* `Runtime`: `RingMax` is 2 or 3 (20 in the code), so that eviction happens
  after a few edits; `MaxWrites` = 1 write per `/fix` or `/agent`, since each
  write goes through the same steps. Two contents tell old from new, or safe from
  unsafe; restoring and history need two files.
* `FixRepo`: two files and two texts per file already have suites in which each
  edit helps alone, only together, or hurts; `MaxFails` = 3 makes a full ranking
  of the four workspaces possible. `MaxIters` = 2 rounds separate "the best
  attempt" from "the last attempt". A third content does not parse, a silent
  run counts 1 and an uncollected one 2, so that each lies below some real count:
  the run covers the kept attempts that are really worse (section 6).
* `ModelManager`: two clients give the cases where one restores what another
  still uses. Connections they hung up on stay in the queue, so the `Backlog` of
  2 (5 in the code) is filled, and a refused connection is among the executions.
* `Routing`: one router and one escalating client, a backlog of 1, rankings that
  leave the default out or contain it and that exceed `MaxModels` = 2, so that
  the budget cuts. Fault sets pair each fault with another rather than all.
* `SystemBuilder`: two modules and three checks (`smoke`, of every plan;
  `link`, of a plan with the second module, which no single file passes;
  `find`, that the model proposes) give fixes that mend one check and break
  another, and a single file that passes all it is judged by and fails what the
  modules had passed; two rounds of each loop (three governed) separate the
  first, the best and the last, and so do two attempts of best-of-k; one
  refused write lands at every place where one can.
* `McpSessions`: two servers (one leaves the other's client in the pool), three
  calls (a late line of the first can still be there at the third), two exits.
  `MaxLines` = 1 bounds the lines that answer nothing which are *unread*, not how
  many are written: a server that never stops is among the executions.
* `Sessions`: two processes and two sessions, one of an earlier day; three turns
  with `Keep` = 1, so that `/compact` has something to condense; one name, one
  kill or failed write. Processes are symmetric.
* `Heartbeat`: an interval of 2, a stall threshold of 3 and a timeout of 3 ticks
  keep the order of the real ones (30 s, 300 s and the caller's own) while every
  coincidence of deadlines happens.
* `Replay`: a commit with two functions in one file, one with two in two files,
  one with more than `Cap` targets and one with none; two candidates; two rounds of each repair loop; two
  kills, so that a second evaluation starts on a checkout that a killed one left
  and is killed in turn.
* `Oracles`: two launches are the least for a process of one to meet another, or
  for a persistence check with one driven command and its second process; two
  ports, so that a picked port can be somebody else's. Habits are taken one by
  one, with those they need to matter. With two launches, the escaped helper that
  writes into a persistence check is one of launch 0; helpers of an earlier real
  launch need a third, and are covered by the proof.

### Fairness

* `BgJobs.FairSpec`: weak fairness of each client's steps. `attach_job` polls
  every half second, and a `jcode jobs` that has started finishes. The submitter
  and the worker have none: they may stop anywhere, as processes do.
* `ModelManager.Fairness`: a load ends, the manager's loop runs, and a client
  that has its answer goes on. No fairness for escalating, giving up, faults or
  restarts. `Routing` adds weak fairness of the router's steps: its waits (5 s,
  60 s, the model, the tests) all have timeouts.
* `FixRepo`: weak fairness of the whole repair, one sequential call whose
  subprocesses have timeouts; `Ends` states that it ends (in no run).
* `McpSessions`: weak fairness of the manager, and of `Fail` by itself: `_recv`
  gives up at its deadline however many lines it has to skip until then. None for
  servers, and none for a write that waits (`Drain`, `Refuse`): `_send` has no
  timeout, so `CallsReturn` excepts executions that stay in it.
* `Heartbeat`: time passes, and a live activity's own thread and its keepalive go
  on; a body or a command need never end. A command may ignore a kill. The `Tick`
  is strongly fair: it waits for a beat that is due, and a body that beats all the
  time must not stop the clock.
* `Replay`: weak fairness of the evaluation's own steps: model calls and docker
  runs have timeouts. None for kills, or for a container that is stuck.
* `Oracles`: weak fairness of the oracle, except while it reads a response that
  trickles: `urlopen`'s timeout is per socket operation (section 6).

## 4. Proofs

`tlapm` proves every obligation of the eight proof modules. The theorems hold
for any value of the constants that satisfies the named assumption of the module
(`ProcsAssumption`, `RuntimeAssumption`, ...), which say what the code takes for
granted: sets of files, contents and checks are finite where something is
counted (`IsFiniteSet(Checks)`, `IsFiniteSet(Paths)`), limits are numbers,
sentinels are none of the values they stand beside. Each system starts with its
type invariant (`TypeCorrect`; `BeatTypeCorrect`, `RTypeCorrect`, `TypesHold`,
`OracleTypeCorrect` where one module proves about two). Two theorems have a
hypothesis of their own, given below. The names of the inductive invariants are
those of the modules; TLC finds no violation of them on the runs' instances.

**`BackgroundProofs`, jobs**: `VerdictsAreHonest`, `StoppedIsDead`. The two
properties speak of the file, but any process may overwrite the file with the
record it holds, so neither is inductive. `IInv` says of *every* record, on disk
or in some process's memory, that a verdict in it is the worker's outcome and
that a "stopped" one belongs to a dead worker; and it ties the memory and the
program counters of the submitter and the worker to the point they have reached
(`Phases`), which is why no worker comes into being after somebody stopped the
job, and why a client that stops a running record knows the pid to kill.

**`BackgroundProofs`, heartbeat**: `SilenceMeansDeath`, `VerdictsAreFinal`.
`Fresh` bounds the age of the last beat by what is left of the keepalive's wait,
for as long as some thread beats, whichever half of a write anybody is in; `Ended` says that a returned wrapper has reaped
its command.

**`RuntimeProofs`**: `OnlySanctionedEffects`, from `PastTheGate`: a call beyond
the gate carries a Decision that was authorized under the rules and the mode
that are still in force, which holds because a mode switch needs an idle prompt.
`RestoresAreHonest`, from `RestoreInv`: during `/undo` and `/rewind` all
remaining Decisions are `code.write_file`, and every file already reported holds
its reported content, or somebody else has touched it since, except the one whose
write has just run and is being recorded. `SnapshotIsKept`, from `UndoInv`: what
the snapshot holds is what the report and the remaining Decisions of `/undo`
together name. The last two are about sessions outside plan mode, where a
withheld write is reported as a restore (section 6).

**`RuntimeProofs`, the refinement**: `RewindIsEditHistory`, that `Runtime`
implements `EditHistory` for any files, contents and length of the ring. Its
hypothesis `PatchesAndRewinds` says what the run's constants say: the commands
are `/patch` and `/rewind`, there are no hooks and no unsafe contents, and every
rule table allows `code.write_file`. It is needed because a refused or withheld
restore is still taken off the ring, and because the mapping has no reading for
an edit that bypasses the ring. The argument has three layers.
1. About rings and workspaces alone: `Versions` reads a ring and a workspace as
   a list of workspaces. `EditIsRemembered` shows that pushing a checkpoint adds
   the replaced workspace to that list and, with a full ring, drops the oldest;
   `RestoredIsOldest` and `OlderVersions` show that restoring the last n
   checkpoints, newest first, goes back n versions. This needs `NoDeletes`: a
   file that has a checkpoint exists in every later version, which holds because
   no tool deletes one. Without it a version of the file between two checkpoints
   would have no content to go back to.
2. About a command under way: `InSession` says what the remaining Decisions of a
   command look like and what the call in progress has captured and written;
   `PoppedTarget` and `WrittenTarget`, that a restore that is done or skipped
   leaves the mapped workspace as it reads.
3. `SessionStep` shows that each step of the program stays (`Stays`), edits
   (`Edits`: `Execute` of a `/patch`) or goes back (`GoesBack`: `Rewind`, the
   restores being already done in the mapping), and `SessionSimulates` that these
   are the steps of the editor.

**`FixRepoProofs`**: `FixedIsGreen`, from `GreenInv` (between two probes of the
minimization the workspace is green; the premise `Steadfast` is what makes
putting an edit back succeed when the probe did); `RepairsNeverWorsen`, from
`ProgressInv` (the count to beat is the one read off the workspace's run between
candidates, off the snapshot's during one, and the original's less one for each
edit kept). It says of the counts the program reads that each edit kept lowers
them; that no more tests fail follows only where the last run shows a count.
`NothingUnreported`, from `TraceInv` (a candidate touches its own file
only, and the snapshot it goes back to differs from the original in kept files
only).

**`ModelManagerProofs`, escalation**: `RepliesAreHonest`, an action property.
`Tracked`: without late loads, the server runs the model `_current` names, or
the one that the call in progress launched. `Outstanding`: a request that is
queued or served for a client is the only one of that client, asks for the model
its escalation is waiting for, and the client has no reply yet. Abandoned
requests belong to `Nobody` and may be for anything, which is why a client that
gives up must also be cut off from its connection. `FallbackIsLeft` needs `Kept`
besides: what will be served once the queue is empty is the model of its `Last`
request, and when that is the fallback's, some escalation has its `finally`
still before it. A request that is refused does not endanger this: the port
refuses only while the manager boots, and then it boots the default, or with a
full backlog, whose last request is another patient client's. The hypothesis
`Default # Fallback` is there because a manager that boots the fallback
(`JCODE_DEFAULT_MODEL` may name any model, the fallback is the registry's
specialist) serves it without anybody having escalated.

**`ModelManagerProofs`, routing**: `ServedIsServed`, from `Steady`: with a
server that neither dies nor loads late, `_current` is served whenever the
manager is idle. `LabelsNameMakers`, from `Lone`: for a solve that has the
manager to itself, its request is the last of the queue or the one being served,
anything older belongs to nobody, and from the "ok" to the end of the solve
nothing is left to be served.

**`SystemBuilderProofs`**: `DoneVerified`, `ReturnedOnDisk`, `RepairsKeep`,
`FloorHolds`, `ModifyGated`. None is inductive: each speaks of the end of a
command, or of the end of a loop. `Control` says which caller can be at which
stage; `Complete`, that every version that may become current has an entry point
and that a round rewrites the modules there are (so that writing the old ones
back undoes it); `Synced`, that the dict and the directory agree wherever no
round or change is under way; `Recorded`, that what is recorded as unmet is what
fails on the directory, and in a round on the directory with the round's writes
undone; `Floored`, the same of the build a governed repair started from; `Alone`,
that an attempt of best-of-k starts in an empty directory; `Gated`, that a
modification leaves the directory alone until its gate. A refused write the code
does not notice (`lost`) and a call that raised in the middle of a round
(`raised`) end these, which is why the properties except them. After a single-file
retry `RepairsKeep` no longer says that every check still passes: it says that the
file passes all of `SingleChecks`, and that whatever else of the checklist fails on
it is in the minimum of the plan it replaced.

**`McpSessionsProofs`**: `AnswersAreOwn`, `NothingLate`, `NothingLeaked`,
`RunsBounded`. The invariant follows a request through the two pipes: ids in a
pipe are below the client's next one and the pending request's is the last
(`Ids`); a line with the pending id answers the pending request, and that request
has been run (`Answers`); what an earlier attempt sent dies with its process, so
at most the attempts made so far have run (`Attempts`); and a leader that runs,
or that has helpers a kill would reach, is in the pool or is the one being closed
(`Pooled`).

**`SessionsProofs`**: `RecordedIsSaved`, `IndexIsBacked`, `IndexIsTrue`,
`NothingIsForgotten`. `Synced` says, for each point a process can be at, how far
its memory, its copy of the index and its transcript agree; `Alone` that an
uncontested session is open in one process only, so that nobody else's save gets
between; `Named` that whatever index copy a process is about to write names
transcripts that exist. For the index's content, `Orderly`: until two updates
overlap, one process works on the index at a time, from a copy that is what the
file says, and every entry is that of its transcript except in the middle of that
session's save. For the transcripts, `Whole`: what a process holds of a session
it has to itself extends the transcript (`Told`), and a transcript is torn only
while its save is under way.

**`EvaluationProofs`, commit replay**: `ScoresAreOfTheKept`, `RunsAreOfTheTried`,
`KeepsWhatPassed`, `ContainersAreToEnd`, `AttemptsCleanUp`. `TInv` places each phase
(which has a task, which a function); `TreeInv` says what the checkout holds in
each phase, for one target at a time (`AtWork`): the candidate being tried, what
was settled before, the parent's code after; `KeepInv` carries the ghost of what
passed through reviews and the ensemble; `BoxInv` and `HomeInv` say when a
container exists that docker has not been told to remove, and where the branch
points. A kill leaves any of the phases'
states behind, and the next `CheckoutParent` is what makes the rest independent
of it.

**`EvaluationProofs`, oracles**: `KilledWithOracle`, `JudgesItsOwn`. `OInv`
knows of each oracle what it attends to (`Watched`: the process group of the
last launch can still be named, or its leader was collected and what runs on has
the habits for that), of every other live process the habit that let it survive
(`Survivors`), of each port why somebody listens on it (`Listeners`), of the
answers whose they can be (`Answering`), of whoever may still write rows that it
belongs to the check or escaped (`WritersEscape`), and of the rows there are which
launches they can be of (`Rows`). `Budget` counts the launches an oracle
has still to make, without which the bound on launches could end a persistence
check between its two halves.

Only model-checked: liveness (`NoGhost`, `EscalationEnds`, `RoutedSolveEnds`,
`CallsReturn`, `DeadIsNoticed`, `RunEnds`, `EvalEnds`, `OracleReturns`), which is
out of the prover's reach, as is anything about `ENABLED`, and so the fairness
conditions themselves. Nothing here needs induction over data: the models have no
recursive definitions, and a sequence that an action makes is described by its
elements.

## 5. Not modelled, and why

The map of `PROJECT.json` covers about an eighth of the repository's code. Most
of the rest has no state whose evolution could go wrong: the task tables of the
suites (most of `real_systems_suite.py`), prompts, parsers and repairs of model
answers, scaffolds and contracts, reports.

* Rendering, event streaming, logs, counters: no property is about them.
* The content of model answers: the models allow every answer.
* Scaffolds, contracts and deterministic repairs of generated text; the step
  plans, reference models and driver scripts of the oracles; the static scan of
  `secure_exec`: sequential functions of a text.
* Evaluation scripts other than commit replay and the system suites: batch
  programs over task tables that print a rate.
* The alternative solvers and their probes (section 6 for what was read):
  pipelines around model answers; what they share with the rest (the gate, the
  manager, the checkout) is in `Runtime`, `Routing` and `Replay`.
* The task list and the plan-act loop: see the plan.
* Research (HTTP), navigation (read-only), memories (best-effort appends that only
  rank suggestions).
* Beats that fail (a full disk): `beat` swallows them, and the file keeps the last.
* Recycled pids; a file system that reorders or loses writes on power failure; a
  git command that fails (`Replay` takes them to succeed).
* Generated checks that leave files behind, and flaky ones, in `SystemBuilder`.
* Locating candidates in `multi_file_fix`: any sequence of distinct files is tried.
* Looking a checkpoint up by id (it is the lookup of a position), `/checkpoints`
  and `/diff` (they only show).
* `jaros`, the library the Decisions are executed by, is external: `Runtime`
  models its gate and executor from how `Runtime.apply` uses them and from the
  tools in `.jaros-data/tools`.

## 6. Observations

Met while modelling. The models contain the behaviour unless it says otherwise,
and a property excludes it by its premise.

Jobs
* `_reconcile` downgrades a live job whose record is published before its pid
  (`harness/bg_jobs.py:229`), although its docstring speaks of dead processes.
* A stale write that lands after `mark_finished` erases the verdict.

Gate and checkpoints
* In plan mode every restoring write is withheld, which `/undo` and `/rewind`
  take for success (`harness/cli.py:1245-1253`): files are reported as restored,
  and the snapshot is given up.
* `/rewind` drops checkpoints whose restoring write was denied.
* `/fix` writes in plan mode: `fix_loop` uses an unconfigured `Runtime()`
  (`harness/coding_loop.py:705`).
* `/undo` puts back the files the snapshot has and leaves the files the run
  created, while `.jarify/EXT-009/requirements.md:109` speaks of the whole run.
* An outside write between capture and the tool's own write is lost by a rewind
  (`harness/coding_loop.py:346`). A PreToolUse hook killed by its timeout does not
  block (`harness/hooks.py:224`).

Repair
* A partial edit is to be kept "only if it strictly REDUCES the failing-test count"
  (docstring of `multi_file_fix`), but `_fail_count` reads 1 off a run that shows no
  count (`harness/multi_file.py:197`), a timeout (`:163`) or a crash, and one or two
  off a failed collection: an attempt that makes the suite hang, or that cannot be
  imported, replaces one with two or three failing tests. `fix_loop` gives a run
  without a count 999 (`harness/coding_loop.py:423`), so the two rank it in opposite
  ways. `NeverWorse` is about the counts shown, and about the tests only where the
  last run shows a count.
* `_minimize_edits`: when the second write of a red probe is refused
  (`harness/multi_file.py:243` runs past it), the reverted edit stays reverted and
  the repair is still reported as fixed. In plan mode the probes are withheld, the
  unchanged suite is green, and every edit is reported as dropped although it
  stays.
* One reverse pass is not minimal: an edit judged necessary early is not judged
  again after others were dropped (`harness/multi_file.py:226`).
* The interrupt message promises `/rewind` for edits that never reached the ring
  (`harness/multi_file.py:300`); a test command refused after the edit was written
  leaves it (`harness/coding_loop.py:836`).

Models
* A client that gives up after its 60 s never swaps back
  (`harness/coding_loop.py:956`; `:918` promises it does). Same shape in
  `collaborative_solve.py:237` and `system_builder.py:5075`.
* `_current` names the last model that became ready in time. After a late load,
  `serve` of the old model answers ok from `/health`, which does not say which
  model is loaded (`scripts/jetson_model_manager.py:113`).
* If the fallback fails to load, the primary has already been killed and nothing
  is served. With two clients, a retry reported as the fallback's may have run on
  the primary (`harness/coding_loop.py:970`). A job stopped while it retries
  leaves the fallback served: the kill skips the `finally`.
* Without its premise `Reliable`, TLC refutes `SkipsOnlyServed` for each of an
  exiting, a late and a crashing load; `serving_ok` in the reply is not looked at
  (`harness/model_rewire.py:157`). A routed solve never restores the primary; no
  default path reads the `active_model.json` it writes; a default model ranked
  beyond the budget is never tried.

Builder
* `_repair_system`: the call that repairs a fix which does not parse
  (`harness/system_builder.py:3085`) can raise; the handler around the whole loop
  (`:3149`) swallows that, the round's regression check never runs, and the fixes
  written earlier in the round stay. `:3053` says "never a state where a
  previously-passing check has regressed vs the pre-repair baseline".
  `RoundsNeverRegress` states that sentence; as an INVARIANT of the run, TLC
  refutes it. `:5521` describes this very hazard for the governed build, which
  re-verifies for that reason.
* A single file adopted by the retry is judged by the minimum of a single file
  (`harness/system_builder.py:4029`): checks of the planned modules that passed may
  fail on it, although nothing is reported as unmet. A service that does not come up is
  reported as not done with nothing unmet (`:3878`).
* The fallback builds over the primary's files; when the primary's result wins,
  its modules are not the ones on disk (`harness/cli.py:1097`).
* A module added in a rejected replan round stays on disk; the "new behaviour"
  rounds of a modification gate on baseline checks only (`:4529`); a leaf is
  adopted on the minimum, dropping proposed checks; the best-tracking of
  `_repair_system` and `len(built) < len(base)` of the governed build are dead
  code.
* `build_system_best_of_k` ignores refused final writes. It also scores a build
  whose assembly was refused half-way, on the half that landed, and then writes all
  of its modules: TLC refutes `DoneIsVerified` without its premise `first.shipped`
  in a trace of five states, although the docstring says "NEVER a fabricated pass".

MCP
* "No orphaned subprocess is ever left running" (`harness/mcp_client.py:17`), but
  `close` kills the tree only when the leader has not left two seconds after the
  end of its input (`:187`). Helpers of a leader that leaves in time, or that
  exited before, are killed by nobody: `NoneLeaked` is about the others.
* "Never an indefinite block" (`:13`), but the write of a request (`:225`) has no
  timeout, and blocks while the pipe is full and the server does not read, as one
  does that itself waits to write to its `stderr`, a pipe that is never read.
* A call is made again after any exception, a timeout included
  (`harness/mcp_session.py:114`; the docstring speaks of a dead session): a tool
  with effects may run twice, and no more (`RunsBounded`).
* The pool reuses a client by name even when its command or timeout changed.
  Ctrl-C during a streamed request ends the REPL without `on_stop`.

Sessions
* A streamed plain line, the usual one on a terminal (`harness/cli.py:2561`), shows
  an answer but never reaches `_record_turn`: it is neither in memory nor on disk,
  although "every turn (slash or plain) is appended to the session transcript
  and persisted" (`:2291`, of `handle`, which a streamed line goes past). What
  `--resume` finds (`OnDisk`) is the turns that were recorded, not those shown.
* `-c` may not pick the latest session after overlapping saves. A stale cancel
  flag reaches the next streamed command's repair (`harness/interrupt.py:42`).

Heartbeat
* The keepalive thread is never joined: a beat prepared before END can overwrite
  it, and a finished run reads STALLED. `FinishedIsNotStalled` states the contrary
  (`harness/heartbeat.py:97`); TLC refutes it in 15 steps: the thread wakes and opens
  the file, the body ends and writes END, the thread writes, the process ends, time
  passes. The same in
  `run_with_heartbeat.py:69`, which moreover kills only its own child, not the
  tree its docstring names.
* `beat` truncates `current.json` and then writes it (`harness/heartbeat.py:62`). A
  kill in between leaves a file that `status` answers "idle" to for ever (`:100`):
  the dead run is never noticed, although the absence of beats "=> a real stall"
  (`:125`). Two processes that write at a time can leave the same. `DeadIsNoticed`
  excepts both (`cut`, `garbled`); without that TLC refutes it.
* An interrupt leaves no terminal beat (`:157` handles `Exception`).
* `run_with_heartbeat` without a timeout, its default, waits for ever for a command
  that does not end: `RunEnds` is about commands with one.

Commit replay
* "Container lifecycle is BULLETPROOF" (`commit_replay.py:119`, `:456`), "never
  orphaned" (`:123`), but `_docker_force_remove` (`:440`) gives `docker kill` and
  `docker rm` ten seconds each and swallows what they answer: a container that
  outlives both goes on. `NoneForgotten` says only that no path omits the attempt.
  Leftover containers mount the checkout; that they may still write into it is not
  modelled.
* One container name serves all runs of a function's fix loop; a timeout kills
  the docker client alone, so later runs cannot start (`commit_replay.py:587`), and
  a function is judged failed that was never run.
* `_git` ignores exit codes: a stale `index.lock` scores every later task on the
  wrong tree. After a kill `rev-parse` answers HEAD and the branch is never
  restored. A later iteration of `attempt_task` may be scored with the previous
  one's file (`:1261`). The gherkin path may keep code that was never run, when
  the model rewrites it after the last failing self-test.
* Probes (read, not modelled): `run_collab_probe` checks out all tasks first, so
  two tasks of one repository are scored on the second's tree, and the second's
  "branch" is HEAD (`collaborative_solve.py:503-549`); swap-back and reset are not
  in a `finally` (`:663`); the oracle's failing tests reach the critique prompt,
  although the probe says "oracle score-only".

Oracles
* `_kill_tree` after `wait` or `poll` collected the leader does nothing: `getpgid`
  of a collected pid fails, and `proc.kill()` is a no-op. A program that forks and
  exits leaves its child running, though `fs_oracle.py:252` says "a built program
  that daemonizes a child never survives a check"; likewise the import, clock and
  agent drivers, and the server oracle when the launcher exits early. The success
  path of `run_sandboxed` kills nothing (`secure_exec.py:707`), so a helper that
  closed its output stays. If it writes rows while a persistence check of the same
  root is on, a program that writes none is found to have persisted them; and the
  tool calls of an agent that escaped can count for a later one. `VerdictIsOwn`
  excepts exactly what escaped.
* `_free_port` closes the port before the server binds it; a stranger, or a helper
  of an earlier launch, may answer the checks.
* `urlopen(timeout=...)` bounds each socket operation: a server that keeps
  dripping bytes holds `serve_and_check` for ever.
* `verify_persistence` runs the last driven command again when no second command
  is given: with an exact row count that rejects honest programs and accepts ones
  that start over (the callers pass `count`). Rows left by the build's own checks
  in the same root can satisfy `min_rows` of `_verify_service_db`.
* A `docker run` that times out after it started the container leaves it, though
  `provision_redis` "NEVER leaks a container" (`service_provisioner.py:206`).

Elsewhere
* `agent_loop.py:163`: a failed step stays in the list after replanning, so that
  `done` cannot hold. `task_store.py:79` rewrites without a lock, and the cap (`:81`)
  drops the oldest task, done or not.

## 7. Plan

Modelling, in this order:

1. `Tasks` and the plan-act loop: the store's unlocked rewrite is the pattern of
   `Sessions`, the loop's list the one of `FixRepo`.
2. The collaborative and experiment probes, as clients of `Routing`'s manager on
   the checkout of `Replay`: several tasks checked out at once, models swapped per
   phase.
3. Failing git commands in `Replay`.

Proofs, of what no run states yet:

1. `RewindIsEditHistory` with further commands: a rule that denies a restore, for
   an editor whose going back may be refused.
2. `ServedIsServed` under faults: what a swap that is skipped can be wrong about.
3. Whatever the modules of the list above state.
