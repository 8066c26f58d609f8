----------------------------- MODULE Heartbeat -----------------------------
(***************************************************************************)
(* heartbeat.py and run_with_heartbeat.py: activities that report they are *)
(* alive, and the reader that tells a finished one from a dead one.  Every *)
(* activity overwrites one file, current.json, by truncating it and then   *)
(* writing it; in between, and for good when the writer is killed there,   *)
(* it reads as nothing.  A thread of the activity's own beats while its    *)
(* body says nothing, and is never joined.                                 *)
(*                                                                         *)
(* Time passes in ticks; a process that lives keeps its deadlines within   *)
(* one, and the bodies and commands take as long as they like.             *)
(***************************************************************************)
EXTENDS Integers

CONSTANTS
  Contexts,  \* `with heartbeat(...)` blocks
  Wrapped,   \* commands run by run_with_heartbeat, with a timeout
  Interval,  \* _KEEPALIVE_S, interval
  Stall,     \* DEFAULT_STALL_S
  Timeout,   \* of a wrapped command
  Patience   \* how long the pipe of a killed one is read

ASSUME HeartbeatAssumption ==
  /\ {Interval, Stall, Timeout, Patience} \subseteq Nat \ {0} /\ Interval <= Stall
  /\ Contexts \cap Wrapped = {}

VARIABLES
  at,      \* where each activity's own thread is
  thread,  \* its keepalive thread
  due,     \* ticks until that beats
  stop,    \* the event that ends it
  current, \* current.json: truncated, left so, to be read or not; and of the last
           \* beat written, whose it is, whether it is terminal, how old
  child,   \* the wrapped command's process
  heirs,   \* processes it started that hold its output open
  left     \* ticks until the wait for it times out

beating == <<at, thread, due, stop, current, child, heirs, left>>
Activities == Contexts \cup Wrapped
After == [start |-> "begun", phase |-> "on", end |-> "ended", failed |-> "over", last |-> "over"]
Writing == DOMAIN After
Running == Writing \cup {"begun", "on", "ended", "reaping", "verdict"}
Live(a) == at[a] \in Running

Goto(a, l) == at' = [at EXCEPT ![a] = l]

\* beat: the file is truncated; then it is written, over what another may have
\* written since, whose end is left if it was longer.
OpenCurrent == current' = [current EXCEPT !.text = "empty"]
Beat(a, terminal) ==
  \E text \in IF current.text \in {"empty", "cut"} THEN {"beat"} ELSE {"beat", "garbled"} :
    current' = [text |-> text, by |-> {a}, terminal |-> terminal, age |-> 0]

\* The activity's own thread does the second half, and goes on.
FillCurrent(a) ==
  /\ at[a] \in Writing
  /\ Goto(a, After[at[a]]) /\ Beat(a, at[a] \in {"end", "failed", "last"})
  /\ UNCHANGED <<thread, due, stop, child, heirs, left>>

\* START, in either kind.
Enter(a) ==
  /\ at[a] = "new"
  /\ Goto(a, "start") /\ OpenCurrent
  /\ UNCHANGED <<thread, due, stop, child, heirs, left>>

-----------------------------------------------------------------------------
(* heartbeat(): START, the body's phases, END or ERROR, and then the event. *)
Keepalive(a) ==
  /\ thread' = [thread EXCEPT ![a] = "wait"] /\ due' = [due EXCEPT ![a] = Interval]

Body(a) ==
  /\ a \in Contexts /\ at[a] = "begun"
  /\ Goto(a, "on") /\ Keepalive(a)
  /\ UNCHANGED <<stop, current, child, heirs, left>>

Phase(a) ==
  /\ a \in Contexts /\ at[a] = "on"
  /\ Goto(a, "phase") /\ OpenCurrent
  /\ UNCHANGED <<thread, due, stop, child, heirs, left>>

End(a) ==
  /\ a \in Contexts /\ at[a] = "on"
  /\ Goto(a, "end") /\ OpenCurrent
  /\ UNCHANGED <<thread, due, stop, child, heirs, left>>

SetStop(a) ==
  /\ at[a] = "ended"
  /\ Goto(a, "over") /\ stop' = [stop EXCEPT ![a] = TRUE]
  /\ UNCHANGED <<thread, due, current, child, heirs, left>>

\* Ctrl-C, in either kind, is no Exception: only `finally` runs.
Abort(a) ==
  /\ at[a] \in {"on", "reaping"}
  /\ Goto(a, "dead") /\ stop' = [stop EXCEPT ![a] = TRUE]
  /\ UNCHANGED <<thread, due, current, child, heirs, left>>

-----------------------------------------------------------------------------
(* The keepalive thread: `while not stop.wait(interval): beat(...)`. *)
Wake(a) ==
  /\ thread[a] = "wait"
  /\ \/ stop[a] /\ thread' = [thread EXCEPT ![a] = "off"]
     \/ ~stop[a] /\ due[a] = 0 /\ thread' = [thread EXCEPT ![a] = "beat"]
  /\ UNCHANGED <<at, due, stop, current, child, heirs, left>>

\* It writes what it prepared, whatever its activity has written since.
Open(a) ==
  /\ thread[a] = "beat"
  /\ OpenCurrent /\ thread' = [thread EXCEPT ![a] = "open"]
  /\ UNCHANGED <<at, due, stop, child, heirs, left>>

\* Mutant: it beats once.
WriteOnce(a) ==
  /\ thread[a] = "open"
  /\ Beat(a, FALSE) /\ thread' = [thread EXCEPT ![a] = "off"]
  /\ UNCHANGED <<at, due, stop, child, heirs, left>>

\* Mutant: what it says begins like a terminal beat.
WriteDone(a) ==
  /\ thread[a] = "open"
  /\ Beat(a, TRUE) /\ Keepalive(a)
  /\ UNCHANGED <<at, stop, child, heirs, left>>

Write(a) ==
  /\ thread[a] = "open"
  /\ Beat(a, FALSE) /\ Keepalive(a)
  /\ UNCHANGED <<at, stop, child, heirs, left>>

-----------------------------------------------------------------------------
(* run_with_heartbeat. *)
Spawn(a) ==
  /\ a \in Wrapped /\ at[a] = "begun"
  /\ Goto(a, "on") /\ Keepalive(a)
  /\ child' = [child EXCEPT ![a] = "runs"] /\ left' = [left EXCEPT ![a] = Timeout]
  /\ UNCHANGED <<stop, current, heirs>>

SpawnRaises(a) ==
  /\ a \in Wrapped /\ at[a] = "begun"
  /\ Goto(a, "failed") /\ OpenCurrent
  /\ UNCHANGED <<thread, due, stop, child, heirs, left>>

PipeClosed(a) == child[a] # "runs" /\ ~heirs[a]
Stopped(a) == Goto(a, "verdict") /\ stop' = [stop EXCEPT ![a] = TRUE]

Communicated(a) ==
  /\ at[a] \in {"on", "reaping"} /\ a \in Wrapped /\ PipeClosed(a)
  /\ Stopped(a)
  /\ UNCHANGED <<thread, due, current, child, heirs, left>>

\* proc.kill: the process, not those it started.
TimesOut(a) ==
  /\ at[a] = "on" /\ a \in Wrapped /\ left[a] = 0
  /\ child' = [child EXCEPT ![a] = "exited"]
  /\ Goto(a, "reaping") /\ left' = [left EXCEPT ![a] = Patience]
  /\ UNCHANGED <<thread, due, stop, current, heirs>>

\* Mutant: the output of a killed command is awaited without a timeout.
NeverGivesUp(a) == FALSE /\ UNCHANGED beating

GivesUp(a) ==
  /\ at[a] = "reaping" /\ left[a] = 0
  /\ Stopped(a)
  /\ UNCHANGED <<thread, due, current, child, heirs, left>>

Verdict(a) ==
  /\ at[a] = "verdict"
  /\ Goto(a, "last") /\ OpenCurrent
  /\ UNCHANGED <<thread, due, stop, child, heirs, left>>

-----------------------------------------------------------------------------
(* What the code has no say in: the command, the kernel, the clock. *)
Fork(a) ==
  /\ child[a] = "runs" /\ heirs' = [heirs EXCEPT ![a] = TRUE]
  /\ UNCHANGED <<at, thread, due, stop, current, child, left>>
HeirsExit(a) ==
  /\ heirs[a] /\ heirs' = [heirs EXCEPT ![a] = FALSE]
  /\ UNCHANGED <<at, thread, due, stop, current, child, left>>
Exit(a) ==
  /\ child[a] = "runs" /\ child' = [child EXCEPT ![a] = "exited"]
  /\ UNCHANGED <<at, thread, due, stop, current, heirs, left>>

\* The activity's process is killed, or ends, and its threads are gone: one of them
\* perhaps in the middle of a write.
Die(a) ==
  /\ at[a] # "new" /\ (Live(a) \/ thread[a] # "off")
  /\ Goto(a, IF at[a] = "ended" THEN "over" ELSE IF Live(a) THEN "dead" ELSE at[a])
  /\ thread' = [thread EXCEPT ![a] = "off"]
  /\ current' = [current EXCEPT !.text =
       IF @ = "empty" /\ (at[a] \in Writing \/ thread[a] = "open") THEN "cut" ELSE @]
  /\ UNCHANGED <<due, stop, child, heirs, left>>

Late(a) ==
  \/ thread[a] \in {"beat", "open"}
  \/ thread[a] = "wait" /\ (due[a] = 0 \/ stop[a])
  \/ at[a] \in Writing \cup {"begun", "ended", "verdict"}
  \/ a \in Wrapped /\ at[a] \in {"on", "reaping"} /\ (left[a] = 0 \/ PipeClosed(a))
Less(n) == IF n = 0 THEN 0 ELSE n - 1
Tick ==
  /\ \A a \in Activities : ~Late(a)
  /\ due' = [a \in Activities |-> IF thread[a] = "wait" THEN Less(due[a]) ELSE due[a]]
  /\ left' = [a \in Activities |-> IF Live(a) THEN Less(left[a]) ELSE left[a]]
  /\ current' = [current EXCEPT !.age = IF @ > Stall THEN @ ELSE @ + 1]
  /\ UNCHANGED <<at, thread, stop, child, heirs>>

-----------------------------------------------------------------------------
BeatInit ==
  /\ at = [a \in Activities |-> "new"] /\ thread = [a \in Activities |-> "off"]
  /\ due = [a \in Activities |-> 0] /\ stop = [a \in Activities |-> FALSE]
  /\ current = [text |-> "empty", by |-> {}, terminal |-> FALSE, age |-> 0]
  /\ child = [a \in Activities |-> "none"] /\ heirs = [a \in Activities |-> FALSE]
  /\ left = [a \in Activities |-> 0]

Own(a) ==
  \/ FillCurrent(a) \/ Body(a) \/ SetStop(a) \/ Spawn(a) \/ SpawnRaises(a)
  \/ Communicated(a) \/ TimesOut(a) \/ GivesUp(a) \/ Verdict(a)
Thread(a) == Wake(a) \/ Open(a) \/ Write(a)
External(a) == Fork(a) \/ HeirsExit(a) \/ Exit(a) \/ Die(a)
BeatNext ==
  \/ Tick
  \/ \E a \in Activities :
       \/ Own(a) \/ Thread(a) \/ External(a)
       \/ Enter(a) \/ Phase(a) \/ End(a) \/ Abort(a)
\* Time passes, however often a body beats, and the threads of what lives go on.
BeatSpec ==
  /\ BeatInit /\ [][BeatNext]_beating
  /\ SF_beating(Tick) /\ \A a \in Activities : WF_beating(Own(a)) /\ WF_beating(Thread(a))

-----------------------------------------------------------------------------
(* status(): a file that is missing or does not parse is "idle". *)
Idle == current.text # "beat"
Stalled == ~Idle /\ current.age > Stall /\ ~current.terminal

(* Every variable has the values the code can give it. *)
BeatTypeOK ==
  /\ at \in [Activities -> Running \cup {"new", "over", "dead"}]
  /\ thread \in [Activities -> {"off", "wait", "beat", "open"}]
  /\ due \in [Activities -> 0..Interval] /\ stop \in [Activities -> BOOLEAN]
  /\ current \in [text : {"empty", "cut", "beat", "garbled"}, by : SUBSET Activities,
                  terminal : BOOLEAN, age : 0..Stall + 1]
  /\ child \in [Activities -> {"none", "runs", "exited"}] /\ heirs \in [Activities -> BOOLEAN]
  /\ left \in [Activities -> Nat]

(* "Stalled" is never said while anything that reports is alive, whoever     *)
(* wrote last: a long silent body is not taken for a wedged one.             *)
StalledMeansSilent == Stalled => \A a \in Activities : ~Live(a)

(* A process that was killed in the middle is noticed: what it left in       *)
(* current.json becomes stale unless something else runs or has finished.    *)
(* (A kill between the two halves of a write, or two writes at a time, leave *)
(* a file that does not parse and reads as idle for good.)                   *)
DeadIsNoticed == \A a \in Activities :
  at[a] = "dead" ~>
    \/ Stalled \/ current.text \in {"cut", "garbled"}
    \/ \E b \in Activities : Live(b) \/ (at[b] = "over" /\ b \in current.by)

(* A command does not outlive its verdict.                                   *)
VerdictIsFinal == \A a \in Wrapped : at[a] = "over" => child[a] # "runs"

(* A wrapped command's run ends, though its descendants never do.            *)
RunEnds == \A a \in Wrapped : at[a] = "on" ~> at[a] \in {"over", "dead"}

(* heartbeat.py:97: "A TERMINAL beat means the op finished -- it is not      *)
(* 'stalled' no matter how long ago."                                        *)
FinishedIsNotStalled == Stalled => \E a \in current.by : at[a] # "over"
=============================================================================
