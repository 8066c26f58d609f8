------------------------------ MODULE Oracles ------------------------------
(***************************************************************************)
(* The behavioural oracles: a built system is started, talked to or waited *)
(* for, killed, and judged by what it left (server_oracle, fs_oracle,      *)
(* import_driver, clock_oracle, agent_oracle, the sandboxed CLI checks,    *)
(* datastore_oracle and service_provisioner), one call after the other as  *)
(* the suites make them.  The system under test is any program: it starts  *)
(* helpers, binds its port when it likes, and ends when it likes.          *)
(*                                                                         *)
(* A process is <<r, role>>, of the r-th program launched: "main" is the   *)
(* leader of the session the oracle starts, "kid" a helper, "quiet" one    *)
(* that let go of the leader's output, "apart" one in a session of its own.*)
(***************************************************************************)
EXTENDS Naturals, Sequences, FiniteSets

CONSTANTS
  Ports,
  Free, Outsider, Stub, \* what holds a port, other than a process
  MaxRuns,    \* programs launched
  MaxPolls,   \* polls for the port within startup_timeout
  MaxChecks,  \* http checks
  MaxTurns,   \* max_steps of the scripted model
  MaxDrives,  \* drive_cmds
  HabitSets   \* what the program and its surroundings are given to

Roles == {"main", "kid", "quiet", "apart"}

ASSUME OraclesAssumption ==
  /\ {MaxRuns, MaxPolls, MaxChecks, MaxTurns, MaxDrives} \subseteq Nat \ {0}
  /\ Free # Outsider /\ Free # Stub /\ Outsider # Stub
  /\ (Nat \X Roles) \cap {Free, Outsider, Stub} = {}
  /\ HabitSets \subseteq SUBSET {"daemon", "quiet", "apart", "race", "drip", "docker"}

VARIABLES
  habits,  \* "daemon": its leader ends before its helpers; "quiet", "apart":
           \* it has such helpers; "race": others bind ports; "drip": a response
           \* that never ends; "docker": a docker command that times out
  at, kind, verdict, left,
  hist,    \* the programs launched: for which oracle, with which port, whether
           \* only to read its rows, and whether the kill found the leader's group
  leader,  \* of the last one: "none", "unreaped" (running or ended), "reaped"
  live,    \* the processes that run
  owner,   \* who listens on each port
  port,    \* the one picked for the next launch
  answers, \* the processes that the verdict rests on
  steps,   \* turns of the scripted model consumed
  keeps,   \* how the program keeps its rows
  db,      \* the runs whose rows are in its database
  stage,   \* which command of a persistence check is next
  boxes    \* the containers that run: "up" the one in use, "stray" one nobody stops

harness == <<at, kind, verdict, left, leader, port, stage>>
world == <<live, owner, answers, steps, db>>
everything == <<habits, harness, hist, world, keeps, boxes>>

Kinds == {"service", "script", "agent", "cli", "file", "redis"}
Persistence == {"file", "redis"}
Run == Len(hist)
Main == <<Run, "main">>
Of(r) == {x \in live : x[1] = r}
Group(r) == {r} \X {"main", "kid", "quiet"}
Holders(r) == {r} \X {"main", "kid", "apart"}

\* The owners of the ports once the processes xs are gone.
Released(xs) == [p \in Ports |-> IF owner[p] \in xs THEN Free ELSE owner[p]]

OracleInit ==
  /\ habits \in HabitSets
  /\ at = "idle" /\ kind = "cli" /\ verdict = "none" /\ left = 0
  /\ hist = <<>> /\ leader = "none" /\ live = {}
  /\ owner = [p \in Ports |-> Free] /\ port \in Ports
  /\ answers = {} /\ steps = 0 /\ keeps = "honest" /\ db = {} /\ stage = "drive"
  /\ boxes = {}

-----------------------------------------------------------------------------
(* The suites: build a system, and grade it if it shipped.  The build's own *)
(* checks, or an earlier check on the same service, may have left rows in   *)
(* its database, those of run 0.                                            *)
First(k) ==
  CASE k = "service" -> "pick" [] k = "agent" -> "stub" [] k = "file" -> "clean"
    [] k = "redis" -> "provision" [] OTHER -> "launch"

RunOneTask(k) ==
  /\ at = "idle" /\ Run + (IF k \in Persistence THEN MaxDrives + 1 ELSE 1) <= MaxRuns
  /\ kind' = k /\ at' = First(k) /\ verdict' = "none" /\ left' = 0
  /\ keeps' \in (IF k \in Persistence THEN {"honest", "hollow", "forgets"} ELSE {"honest"})
  /\ stage' = "drive" /\ leader' = "none"
  /\ db' \in (IF k \in Persistence THEN {{}, {0}} ELSE {{}})
  /\ answers' = {} /\ steps' = 0
  /\ UNCHANGED <<habits, hist, live, owner, port, boxes>>

\* Where the oracle goes when it has its verdict.
Closing == IF kind = "agent" THEN "close" ELSE IF kind = "redis" THEN "teardown" ELSE "idle"
Fail(l) == verdict' = "fail" /\ at' = l

-----------------------------------------------------------------------------
(* Ports.  A server's is bound, read and closed again; the scripted model's *)
(* is bound by the harness itself and stays its own.                        *)
FreePort ==
  /\ at = "pick"
  /\ \/ \E p \in Ports : owner[p] = Free /\ port' = p /\ at' = "launch" /\ UNCHANGED verdict
     \/ (\A p \in Ports : owner[p] # Free) /\ Fail("idle") /\ UNCHANGED port
  /\ UNCHANGED <<habits, kind, left, hist, leader, world, keeps, stage, boxes>>

HostStub ==
  /\ at = "stub"
  /\ \/ \E p \in Ports :
          owner[p] = Free /\ port' = p /\ owner' = [owner EXCEPT ![p] = Stub]
          /\ at' = "launch" /\ UNCHANGED verdict
     \/ (\A p \in Ports : owner[p] # Free) /\ Fail("idle") /\ UNCHANGED <<port, owner>>
  /\ UNCHANGED <<habits, kind, left, hist, leader, live, answers, steps, keeps, db, stage, boxes>>

CloseStub ==
  /\ at = "close" /\ at' = "idle"
  /\ owner' = [owner EXCEPT ![port] = Free]
  /\ UNCHANGED <<habits, kind, verdict, left, hist, leader, live, port, answers, steps, keeps, db,
                 stage, boxes>>

-----------------------------------------------------------------------------
(* Launching, in a session of its own. *)
Attend(k) == CASE k = "service" -> "poll" [] k \in {"script", "agent"} -> "wait" [] OTHER -> "talk"

Launch ==
  /\ at = "launch"
  /\ hist' = Append(hist, [kind |-> kind, port |-> port, grouped |-> FALSE,
                           reads |-> (kind \in Persistence /\ stage = "reads")])
  /\ live' = live \cup {<<Run + 1, "main">>} /\ leader' = "unreaped"
  /\ at' = Attend(kind) /\ left' = IF kind = "service" THEN MaxPolls ELSE left
  /\ UNCHANGED <<habits, kind, verdict, owner, port, answers, steps, keeps, db, stage, boxes>>

LaunchFails ==
  /\ at = "launch" /\ Fail(Closing)
  /\ UNCHANGED <<habits, kind, left, hist, leader, port, world, keeps, stage, boxes>>

-----------------------------------------------------------------------------
(* A server: is the process there, does anything accept, the checks. *)
Polled ==
  /\ at = "poll"
  /\ \/ left = 0 /\ Fail("kill") /\ UNCHANGED leader
     \/ left > 0 /\ Main \notin live /\ Fail("kill") /\ leader' = "reaped"
     \/ left > 0 /\ Main \in live /\ at' = "connect" /\ UNCHANGED <<verdict, leader>>
  /\ UNCHANGED <<habits, kind, left, hist, port, world, keeps, stage, boxes>>

Connect ==
  /\ at = "connect"
  /\ IF owner[port] = Free THEN at' = "poll" /\ left' = left - 1
                           ELSE at' = "check" /\ left' = MaxChecks
  /\ UNCHANGED <<habits, kind, verdict, hist, leader, port, world, keeps, stage, boxes>>

Asked ==
  /\ at = "check" /\ left > 0 /\ left' = left - 1
  /\ IF owner[port] = Free THEN verdict' = "fail" /\ UNCHANGED answers
     ELSE verdict' \in {verdict, "fail"} /\ answers' = answers \cup {owner[port]}
  /\ UNCHANGED <<habits, at, kind, hist, leader, live, owner, port, steps, keeps, db, stage, boxes>>

AllAsked ==
  /\ at = "check" /\ left = 0 /\ at' = "kill"
  /\ UNCHANGED <<habits, kind, verdict, left, hist, leader, port, world, keeps, stage, boxes>>

-----------------------------------------------------------------------------
(* A script, a driver or an agent: wait for it, for a time. *)
Exited ==
  /\ at = "wait" /\ Main \notin live
  /\ leader' = "reaped" /\ at' = "kill"
  /\ UNCHANGED <<habits, kind, verdict, left, hist, port, world, keeps, stage, boxes>>

TimedOut ==
  /\ at = "wait" /\ Main \in live /\ Fail("kill")
  /\ UNCHANGED <<habits, kind, left, hist, leader, port, world, keeps, stage, boxes>>

-----------------------------------------------------------------------------
(* The sandbox: read the output until whoever holds it has ended. *)
ReadToEnd ==
  /\ at = "talk" /\ live \cap Holders(Run) = {} /\ leader' = "reaped"
  /\ \/ kind = "cli" /\ at' = "inspect" /\ UNCHANGED <<verdict, left>>
     \/ kind \in Persistence /\ Fail(Closing) /\ UNCHANGED left
     \/ /\ kind \in Persistence /\ left' = left - 1 /\ UNCHANGED verdict
        /\ at' = IF left > 1 THEN "launch" ELSE "look"
  /\ UNCHANGED <<habits, kind, hist, port, world, keeps, stage, boxes>>

ReadTimesOut ==
  /\ at = "talk" /\ live \cap Holders(Run) # {} /\ Fail("kill")
  /\ UNCHANGED <<habits, kind, left, hist, leader, port, world, keeps, stage, boxes>>

\* Mutant: the output of a killed command is read to its end.
DrainToEnd ==
  /\ at = "drain" /\ live \cap Holders(Run) = {} /\ at' = Closing
  /\ UNCHANGED <<habits, kind, verdict, left, hist, leader, port, world, keeps, stage, boxes>>

\* What is left of the output, for five seconds at most.
Drain ==
  /\ at = "drain" /\ at' = Closing
  /\ UNCHANGED <<habits, kind, verdict, left, hist, leader, port, world, keeps, stage, boxes>>

-----------------------------------------------------------------------------
(* The kill: the leader's process group, as long as the leader, running or  *)
(* ended, was not collected; then its number names no group any more.       *)
AfterKill ==
  IF kind \in Persistence \cup {"cli"} THEN "drain"
  ELSE IF verdict = "fail" THEN Closing ELSE "inspect"

\* Mutant: only the leader is killed.
KillLeader ==
  /\ at = "kill" /\ at' = AfterKill /\ leader' = "none"
  /\ live' = live \ {Main} /\ owner' = Released({Main})
  /\ hist' = [hist EXCEPT ![Run].grouped = (leader = "unreaped")]
  /\ UNCHANGED <<habits, kind, verdict, left, port, answers, steps, keeps, db, stage, boxes>>

KillTree ==
  /\ at = "kill" /\ at' = AfterKill /\ leader' = "none"
  /\ LET killed == IF leader = "unreaped" THEN live \cap Group(Run) ELSE {}
     IN live' = live \ killed /\ owner' = Released(killed)
  /\ hist' = [hist EXCEPT ![Run].grouped = (leader = "unreaped")]
  /\ UNCHANGED <<habits, kind, verdict, left, port, answers, steps, keeps, db, stage, boxes>>

\* The tree, the driver's report, the agent's calls or the output, against the checks.
Inspect ==
  /\ at = "inspect" /\ at' = Closing
  /\ verdict' \in IF steps > MaxTurns THEN {"fail"} ELSE {"ok", "fail"}
  /\ UNCHANGED <<habits, kind, left, hist, leader, port, world, keeps, stage, boxes>>

-----------------------------------------------------------------------------
(* Persistence: clean, drive, look, one more process, look again.  The rows *)
(* looked for are as many as the commands driven.                           *)
\* Mutant: the rows from before are left.
CleanNone ==
  /\ at = "clean" /\ left' = MaxDrives /\ at' = "launch"
  /\ UNCHANGED <<habits, kind, verdict, hist, leader, world, port, keeps, stage, boxes>>

CleanDatastore ==
  /\ at = "clean"
  /\ \/ db' = {} /\ left' = MaxDrives /\ at' = "launch" /\ UNCHANGED verdict
     \/ Fail(Closing) /\ UNCHANGED <<db, left>>
  /\ UNCHANGED <<habits, kind, hist, leader, live, owner, port, answers, steps, keeps, stage,
                 boxes>>

Held == Cardinality(db) = MaxDrives

Look ==
  /\ at = "look"
  /\ \/ ~Held /\ Fail(Closing) /\ UNCHANGED <<stage, left>>
     \/ /\ Held /\ stage = "drive" /\ at' = "launch" /\ left' = 1
        /\ stage' \in {"reads", "repeats"} /\ UNCHANGED verdict
     \/ Held /\ stage # "drive" /\ verdict' = "ok" /\ at' = Closing /\ UNCHANGED <<stage, left>>
  /\ UNCHANGED <<habits, kind, hist, leader, port, world, keeps, boxes>>

\* What the program's command does to its rows.
RowsAfter ==
  (IF keeps = "forgets" THEN {} ELSE db)
    \cup (IF keeps # "hollow" /\ stage # "reads" THEN {Run} ELSE {})

Provision ==
  /\ at = "provision"
  /\ \/ Fail("idle") /\ UNCHANGED boxes
     \/ "docker" \in habits /\ Fail("idle") /\ boxes' = boxes \cup {"stray"}
     \/ boxes' = boxes \cup {"up"} /\ at' = "ready" /\ UNCHANGED verdict
  /\ UNCHANGED <<habits, kind, left, hist, leader, port, world, keeps, stage>>

Probed ==
  /\ at = "ready" /\ ((at' = "clean" /\ UNCHANGED verdict) \/ Fail("teardown"))
  /\ UNCHANGED <<habits, kind, left, hist, leader, port, world, keeps, stage, boxes>>

Teardown ==
  /\ at = "teardown" /\ at' = "idle"
  /\ \/ boxes' = boxes \ {"up"}
     \/ "docker" \in habits /\ boxes' = (boxes \ {"up"}) \cup {"stray"}
  /\ UNCHANGED <<habits, kind, verdict, left, hist, leader, port, world, keeps, stage>>

-----------------------------------------------------------------------------
(* The program, and what else runs on the machine. *)
Fork(x) ==
  /\ x[2] # "apart"
  /\ \E role \in {"kid"} \cup ({"quiet", "apart"} \cap habits) :
       <<x[1], role>> \notin live /\ live' = live \cup {<<x[1], role>>}
  /\ UNCHANGED <<habits, harness, hist, owner, answers, steps, db, keeps, boxes>>

Listen(x) ==
  LET p == hist[x[1]].port IN
  /\ hist[x[1]].kind = "service" /\ owner[p] = Free /\ owner' = [owner EXCEPT ![p] = x]
  /\ UNCHANGED <<habits, harness, hist, live, answers, steps, db, keeps, boxes>>

\* An agent asks the scripted model for its turn, or has a tool of the sandbox run.
Request(x) ==
  LET p == hist[x[1]].port IN
  /\ hist[x[1]].kind = "agent" /\ owner[p] = Stub
  /\ \/ steps <= MaxTurns /\ steps' = steps + 1 /\ UNCHANGED answers
     \/ answers' = answers \cup {x} /\ UNCHANGED steps
  /\ UNCHANGED <<habits, harness, hist, live, owner, db, keeps, boxes>>

\* A helper writes its rows when it likes, whichever check of the database is on;
\* so do the helpers that escaped the build's own checks.
Reads(r) == r # 0 /\ hist[r].reads
Earlier == {0} \X ({"quiet", "apart"} \cap habits)
Write(x) ==
  /\ kind \in Persistence /\ at \in {"launch", "talk", "look"}
  /\ x[2] # "main" /\ ~Reads(x[1]) /\ db' = db \cup {x[1]}
  /\ UNCHANGED <<habits, harness, hist, live, owner, answers, steps, keeps, boxes>>

End(x) ==
  /\ x[2] = "main" => \A y \in Of(x[1]) \ {x} : "daemon" \in habits \/ y[2] = "apart"
  /\ live' = live \ {x} /\ owner' = Released({x})
  /\ db' = IF x = Main /\ at = "talk" /\ kind \in Persistence THEN RowsAfter ELSE db
  /\ UNCHANGED <<habits, harness, hist, answers, steps, keeps, boxes>>

Others ==
  /\ "race" \in habits
  /\ \E p \in Ports : \/ owner[p] = Free /\ owner' = [owner EXCEPT ![p] = Outsider]
                      \/ owner[p] = Outsider /\ owner' = [owner EXCEPT ![p] = Free]
  /\ UNCHANGED <<habits, harness, hist, live, answers, steps, db, keeps, boxes>>

Oracle ==
  \/ FreePort \/ HostStub \/ CloseStub \/ Launch \/ LaunchFails
  \/ Polled \/ Connect \/ Asked \/ AllAsked \/ Exited \/ TimedOut
  \/ ReadToEnd \/ ReadTimesOut \/ Drain \/ KillTree \/ Inspect
  \/ CleanDatastore \/ Look \/ Provision \/ Probed \/ Teardown

OracleNext ==
  \/ \E k \in Kinds : RunOneTask(k)
  \/ Oracle
  \/ \E x \in live : Fork(x) \/ Listen(x) \/ Request(x) \/ End(x)
  \/ \E x \in live \cup Earlier : Write(x)
  \/ Others

\* Every wait of an oracle has a timeout, except for a response that trickles in.
OracleSpec ==
  /\ OracleInit /\ [][OracleNext]_everything
  /\ WF_everything((at = "check" => "drip" \notin habits) /\ Oracle)

-----------------------------------------------------------------------------
OracleTypeOK ==
  /\ habits \in HabitSets /\ kind \in Kinds /\ verdict \in {"none", "ok", "fail"}
  /\ at \in {"idle", "pick", "stub", "close", "launch", "poll", "connect", "check", "wait", "talk",
             "drain", "kill", "inspect", "clean", "look", "provision", "ready", "teardown"}
  /\ left \in 0..(MaxPolls + MaxChecks + MaxDrives) /\ leader \in {"none", "unreaped", "reaped"}
  /\ hist \in Seq([kind : Kinds, port : Ports, grouped : BOOLEAN, reads : BOOLEAN]) /\ Run <= MaxRuns
  /\ live \subseteq (1..Run) \X Roles /\ answers \subseteq ((1..Run) \X Roles) \cup {Outsider}
  /\ owner \in [Ports -> {Free, Outsider, Stub} \cup ((1..Run) \X Roles)] /\ port \in Ports
  /\ steps \in 0..(MaxTurns + 1) /\ db \subseteq 0..Run /\ boxes \subseteq {"up", "stray"}
  /\ keeps \in {"honest", "hollow", "forgets"} /\ stage \in {"drive", "reads", "repeats"}

\* The habits it takes to survive the r-th check, by how that ended.
Excused(r) ==
  IF r = 0 THEN {"quiet", "apart"}
  ELSE IF hist[r].grouped THEN {"apart"}
  ELSE IF hist[r].kind \in {"service", "script", "agent"} THEN {"daemon", "apart"} ELSE {"quiet"}
Escapes(r) == habits \cap Excused(r) # {}

(* What an oracle starts does not outlive it: between two calls, and while  *)
(* one judges what its program left, a process still runs only if it has a  *)
(* session of its own or its leader was collected before the kill; no       *)
(* scripted model listens, and no container runs unless docker timed out    *)
(* (fs_oracle.py:252: "a built program that daemonizes a child never        *)
(* survives a check", as far as it is true).                                *)
NothingOutlives ==
  /\ at \in {"idle", "inspect", "look"} => \A x \in live : Escapes(x[1])
  /\ at = "idle" => /\ \A p \in Ports : owner[p] # Stub
                    /\ "docker" \notin habits => boxes = {}

(* An "ok" is about the program it was asked of, or about one that escaped  *)
(* an earlier check.  Its HTTP answers and tool calls come from the          *)
(* processes of that launch, or else from such an escaped one's, or from     *)
(* strangers that race for the port.  The rows found by a second process     *)
(* that only reads are as many as the commands driven, and those of these    *)
(* commands, but for what an escaped helper wrote; none is from before.      *)
VerdictIsOwn ==
  verdict = "ok" =>
    /\ answers \subseteq ({r \in 1..Run : r = Run \/ Escapes(r)} \X Roles)
                          \cup {o \in {Outsider} : "race" \in habits}
    /\ kind \in Persistence /\ stage = "reads" =>
         /\ Cardinality(db) = MaxDrives
         /\ \A r \in db : \/ r \in (Run - MaxDrives)..(Run - 1)
                          \/ Escapes(r) /\ ~Reads(r)

(* An oracle comes back, whatever its program does with its processes, its  *)
(* output and its port, unless a response never ends.                       *)
OracleReturns == (at # "idle" /\ "drip" \notin habits) ~> (at = "idle")
=============================================================================
