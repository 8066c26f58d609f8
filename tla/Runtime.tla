------------------------------ MODULE Runtime ------------------------------
(***************************************************************************)
(* The decision gate of harness/coding_loop.py (Runtime.apply), the        *)
(* per-edit checkpoint ring of harness/checkpoint_ring.py, and the CLI     *)
(* commands of harness/cli.py that edit the workspace or take edits back:  *)
(* /patch, /run, a subagent's run, /fix, /agent, /undo, /rewind, /mode.    *)
(*                                                                         *)
(* One CLI session runs one command at a time; a command issues Decisions  *)
(* one after another, each through a Runtime it chose.  The workspace is   *)
(* shared with the world: shell commands and other processes write to it.  *)
(***************************************************************************)
EXTENDS Naturals, Sequences, FiniteSets

CONSTANTS
    Paths,         \* the files of the workspace
    Contents,      \* what a file can hold
    Absent,        \* the content of a file that does not exist
    Unsafe,        \* contents, and commands, the tools' own gate refuses
    RingMax,       \* CheckpointRing's maxlen
    Inputs,        \* the commands and outside events of this instance
    UserModes,     \* the modes the user switches between
    RuleTables,    \* the permission tables a user may have configured
    Allowlist,     \* the `tools:` of the delegated subagent
    HookKinds,     \* what the user's hooks may do: "block" a call, "write" a file
    Interactive,   \* "yes" when the Runtimes have an ask_callback
    MaxWrites      \* bound on the writes of one /fix or /agent run

Types == {"code.write_file", "code.apply_patch", "shell.exec"}
Actions == {"allow", "ask", "deny"}
Modes == {"plan", "default", "acceptEdits"}

ASSUME RuntimeAssumption ==
    /\ IsFiniteSet(Paths)
    /\ Absent \notin Contents
    /\ Unsafe \subseteq Contents
    /\ RingMax \in Nat \ {0}
    /\ MaxWrites \in Nat
    /\ UserModes \subseteq Modes
    /\ RuleTables \subseteq [Types -> Actions]
    /\ Allowlist \subseteq Types
    /\ HookKinds \subseteq {"block", "write"}

\* The Runtimes the CLI builds: its own `self.rt`, _write_runtime(), the narrowed
\* one of a subagent, and the unconfigured Runtime() of fix_loop and its kin.
Runtimes == {"primary", "write", "subagent", "bare"}

VARIABLES
    disk,    \* the workspace
    mode,    \* the REPL mode, shared by every configured Runtime
    rules,   \* permission_rules, loaded once per CLI
    ring,    \* the checkpoint ring, oldest entry first
    snap,    \* the whole-run snapshot /agent took
    undoable, \* whether there is such a snapshot: "yes" or "no"
    cmd,     \* the running command
    call,    \* the Runtime.apply in progress
    touched  \* ghost: files others wrote since the running /undo or /rewind began

vars == <<disk, mode, rules, ring, snap, undoable, cmd, call, touched>>
-----------------------------------------------------------------------------
Content == Contents \cup {Absent}
Disks == [Paths -> Content]
Nowhere == [p \in Paths |-> Absent]
\* d with the files of v put back; a file v does not have is left as it is.
Over(v, d) == [p \in Paths |-> IF v[p] = Absent THEN d[p] ELSE v[p]]

Decision == [type : Types, path : Paths, content : Content]
Step == [rt : Runtimes, d : Decision]
Entry == [path : Paths, before : Content]

\* A command: the Decisions it has still to apply, what it remembers per file
\* (/fix: the original text; /undo, /rewind: what it reported as restored),
\* whether an apply raised, and a count.
Command == [name : {"prompt", "single", "fix", "agent", "undo", "rewind"},
            todo : Seq(Step), memo : Disks, errs : {"none", "some"}, n : Nat]
Prompt == [name |-> "prompt", todo |-> <<>>, memo |-> Nowhere, errs |-> "none", n |-> 0]

\* A call of Runtime.apply, and the pre-edit content it captured.
Call == [stage : {"none", "hooks", "gate", "capture", "execute", "record"}, before : Content]
NoCall == [stage |-> "none", before |-> Absent]

WriteTypes == {"code.write_file", "code.apply_patch"}
Withheld == WriteTypes \cup {"shell.exec"}       \* PLAN_MODE_WITHHELD_TYPES
AutoApproved == WriteTypes                       \* ACCEPT_EDITS_AUTO_TYPES

Configured(rt) == rt # "bare"
HasRing(rt) == rt \in {"primary", "subagent"}
ModeOf(rt) == IF Configured(rt) THEN mode ELSE "default"

Init ==
    /\ disk \in Disks
    /\ mode = "default"
    /\ rules \in RuleTables
    /\ ring = <<>>
    /\ snap = Nowhere
    /\ undoable = "no"
    /\ cmd = Prompt
    /\ call = NoCall
    /\ touched = {}
-----------------------------------------------------------------------------
\* The Decision being applied, and its Runtime.
Now == Head(cmd.todo)
Restoring == cmd.name \in {"undo", "rewind"}

\* How a command goes on after a Decision: rt.apply returned normally, which the
\* description of a withheld Decision does too, and /undo and /rewind report the
\* file as restored; or it raised, and only /fix gives up on what was to follow.
Returned ==
    cmd' = [cmd EXCEPT !.todo = Tail(@),
                       !.memo = IF Restoring
                                THEN [@ EXCEPT ![Now.d.path] = Now.d.content] ELSE @]

\* Mutant: an exception of rt.apply is swallowed and the file reported restored.
RaisedSwallowed ==
    cmd' = [cmd EXCEPT !.todo = Tail(@), !.memo = [@ EXCEPT ![Now.d.path] = Now.d.content]]

Raised ==
    cmd' = [cmd EXCEPT !.errs = "some", !.todo = IF cmd.name = "fix" THEN <<>> ELSE Tail(@)]

\* cmd_rewind leaves a file alone that the rewound edit created.
Skip ==
    /\ cmd.todo # <<>> /\ call = NoCall
    /\ Now.d.content = Absent
    /\ cmd' = [cmd EXCEPT !.todo = Tail(@)]
    /\ UNCHANGED <<disk, touched, mode, rules, ring, snap, undoable, call>>

\* Runtime.apply up to plan mode: a withheld Decision returns at once.
Begin ==
    /\ cmd.todo # <<>> /\ call = NoCall
    /\ Now.d.content # Absent
    /\ IF ModeOf(Now.rt) = "plan" /\ Now.d.type \in Withheld
       THEN Returned /\ UNCHANGED call
       ELSE call' = [call EXCEPT !.stage = "hooks"] /\ UNCHANGED cmd
    /\ UNCHANGED <<disk, touched, mode, rules, ring, snap, undoable>>

\* Somebody else, a shell command for one, writes a file.
SomeWrite ==
    \E p \in Paths, c \in Contents :
        /\ disk' = [disk EXCEPT ![p] = c]
        /\ touched' = IF Restoring THEN touched \cup {p} ELSE touched

\* Hooks are shell commands too; only a configured Runtime has them.
HookEffect ==
    \/ UNCHANGED <<disk, touched>>
    \/ "write" \in HookKinds /\ Configured(Now.rt) /\ SomeWrite

\* PreToolUse hooks run before the gate sees the Decision; one that exits
\* non-zero refuses it, one that is killed by its timeout does not.
Hooks ==
    /\ call.stage = "hooks"
    /\ HookEffect
    /\ \/ call' = [call EXCEPT !.stage = "gate"] /\ UNCHANGED cmd
       \/ /\ Configured(Now.rt) /\ "block" \in HookKinds
          /\ call' = NoCall /\ Raised
    /\ UNCHANGED <<mode, rules, ring, snap, undoable>>

\* validate_decision: the tools' own validate(): the code-safety scan of what is
\* written and the denylist of shell commands.
GateAccepts(d) == d.content \notin Unsafe

Allowlisted(rt, d) == rt = "subagent" /\ Allowlist # {} => d.type \in Allowlist

\* The permission rules; `approved` is the user's answer when one is asked.
Permitted(rt, d, approved) ==
    Configured(rt) =>
        \/ rules[d.type] = "allow"
        \/ rules[d.type] = "ask" /\ \/ mode = "acceptEdits" /\ d.type \in AutoApproved
                                    \/ Interactive = "yes" /\ approved

\* Mutant: an allow rule is honoured before the hard gate is consulted.
RulesBeforeGate(rt, d, approved) ==
    /\ GateAccepts(d) \/ (Configured(rt) /\ rules[d.type] = "allow")
    /\ Allowlisted(rt, d)
    /\ Permitted(rt, d, approved)

\* The hard gate, then the subagent's allowlist, then the permission rules.
Authorizes(rt, d, approved) ==
    /\ GateAccepts(d)
    /\ Allowlisted(rt, d)
    /\ Permitted(rt, d, approved)

Gate ==
    /\ call.stage = "gate"
    /\ \E approved \in BOOLEAN :
         IF Authorizes(Now.rt, Now.d, approved)
         THEN call' = [call EXCEPT !.stage = "capture"] /\ UNCHANGED cmd
         ELSE call' = NoCall /\ Raised
    /\ UNCHANGED <<disk, touched, mode, rules, ring, snap, undoable>>

\* The pre-edit content is read just before the executor runs.
Capture ==
    /\ call.stage = "capture"
    /\ call' = [call EXCEPT !.stage = "execute", !.before = disk[Now.d.path]]
    /\ UNCHANGED <<disk, touched, mode, rules, ring, snap, undoable, cmd>>

\* executor.apply: the tool performs the effect, or raises without one (a patch
\* whose old text is not there); a patch of no text creates an absent file.
Execute ==
    /\ call.stage = "execute"
    /\ \/ /\ Now.d.type \in WriteTypes
          /\ disk' = [disk EXCEPT ![Now.d.path] = Now.d.content]
          /\ touched' = touched \ {Now.d.path}
          /\ call' = [call EXCEPT !.stage = "record"] /\ UNCHANGED cmd
       \/ /\ Now.d.type = "shell.exec"
          /\ UNCHANGED <<disk, touched>> \/ SomeWrite
          /\ call' = [call EXCEPT !.stage = "record"] /\ UNCHANGED cmd
       \/ /\ Now.d.type = "code.apply_patch"
          /\ call' = NoCall /\ Raised
          /\ UNCHANGED <<disk, touched>>
    /\ UNCHANGED <<mode, rules, ring, snap, undoable>>

\* CheckpointRing.record on a deque of bounded length.
Push(r, e) == IF Len(r) < RingMax THEN Append(r, e) ELSE Append(Tail(r), e)

NewEntry == [path |-> Now.d.path, before |-> call.before]
Checkpointed == HasRing(Now.rt) /\ Now.d.type \in WriteTypes

\* Only an applied write of a Runtime that has the ring is checkpointed; then the
\* PostToolUse hooks run and apply returns.
Record ==
    /\ call.stage = "record"
    /\ ring' = IF Checkpointed THEN Push(ring, NewEntry) ELSE ring
    /\ HookEffect
    /\ call' = NoCall
    /\ Returned
    /\ UNCHANGED <<mode, rules, snap, undoable>>
-----------------------------------------------------------------------------
Idle == cmd.name = "prompt" /\ call = NoCall
Finished(name) == cmd.name = name /\ cmd.todo = <<>> /\ call = NoCall
Do(rt, type, p, c) == [rt |-> rt, d |-> [type |-> type, path |-> p, content |-> c]]
Run(name, todo, memo, n) ==
    cmd' = [name |-> name, todo |-> todo, memo |-> memo, errs |-> "none", n |-> n]

\* cmd_patch applies through self.rt; cmd_run does too, and so does a subagent
\* that was routed to it, with self.rt narrowed for the turn.
Single(rt, type, p, c) ==
    /\ Idle
    /\ Run("single", <<Do(rt, type, p, c)>>, Nowhere, 0)
    /\ UNCHANGED <<disk, touched, mode, rules, ring, snap, undoable, call>>

Patch(p, c) == "patch" \in Inputs /\ Single("primary", "code.apply_patch", p, c)
RunShell(rt, p, c) == "run" \in Inputs /\ Single(rt, "shell.exec", p, c)

EndSingle ==
    /\ Finished("single")
    /\ cmd' = Prompt
    /\ UNCHANGED <<disk, touched, mode, rules, ring, snap, undoable, call>>

\* fix_loop: write an attempt, run the tests, try again, through a Runtime() of
\* its own.  When the attempts are spent, the deterministic repairs put the
\* original text back with a plain write_text; a stub keeps its last attempt.
Fix(p) ==
    /\ Idle /\ "fix" \in Inputs /\ disk[p] # Absent
    /\ Run("fix", <<>>, [Nowhere EXCEPT ![p] = disk[p]], 0)
    /\ UNCHANGED <<disk, touched, mode, rules, ring, snap, undoable, call>>

FixAttempt(p, c) ==
    /\ Finished("fix") /\ cmd.n < MaxWrites /\ cmd.memo[p] # Absent
    /\ cmd' = [cmd EXCEPT !.todo = <<Do("bare", "code.write_file", p, c),
                                     Do("bare", "shell.exec", p, c)>>, !.n = @ + 1]
    /\ UNCHANGED <<disk, touched, mode, rules, ring, snap, undoable, call>>

EndFix ==
    /\ Finished("fix")
    /\ disk' = disk \/ disk' = Over(cmd.memo, disk)
    /\ cmd' = Prompt
    /\ UNCHANGED <<touched, mode, rules, ring, snap, undoable, call>>

\* cmd_agent: snapshot the files there are, then let the structured flow write
\* through _write_runtime() or a loop's own Runtime.
Agent ==
    /\ Idle /\ "agent" \in Inputs
    /\ snap' = disk /\ undoable' = "yes"
    /\ Run("agent", <<>>, Nowhere, 0)
    /\ UNCHANGED <<disk, touched, mode, rules, ring, call>>

AgentWrite(rt, p, c) ==
    /\ Finished("agent") /\ cmd.n < MaxWrites
    /\ cmd' = [cmd EXCEPT !.todo = <<Do(rt, "code.write_file", p, c)>>, !.n = @ + 1]
    /\ UNCHANGED <<disk, touched, mode, rules, ring, snap, undoable, call>>

EndAgent ==
    /\ Finished("agent")
    /\ cmd' = Prompt
    /\ UNCHANGED <<disk, touched, mode, rules, ring, snap, undoable, call>>

\* cmd_undo: write back every file of the snapshot, in the order the snapshot
\* happens to have them; a failed write does not stop the others, and only a run
\* without one gives the snapshot up.
Listings(S) == {s \in [1..Cardinality(S) -> S] : \A i, j \in DOMAIN s : s[i] = s[j] => i = j}

Undo ==
    /\ Idle /\ "undo" \in Inputs /\ undoable = "yes"
    /\ \E s \in Listings({p \in Paths : snap[p] # Absent}) :
         Run("undo", [i \in DOMAIN s |-> Do("write", "code.write_file", s[i], snap[s[i]])],
             Nowhere, 0)
    /\ UNCHANGED <<disk, touched, mode, rules, ring, snap, undoable, call>>

\* Mutant: the snapshot is cleared although a file could not be restored.
EndUndoAlwaysClears ==
    /\ Finished("undo")
    /\ undoable' = "no"
    /\ cmd' = Prompt /\ touched' = {}
    /\ UNCHANGED <<disk, mode, rules, ring, snap, call>>

EndUndo ==
    /\ Finished("undo")
    /\ undoable' = IF cmd.errs = "none" THEN "no" ELSE undoable
    /\ cmd' = Prompt /\ touched' = {}
    /\ UNCHANGED <<disk, mode, rules, ring, snap, call>>

\* Mutant: the entries are restored oldest first.
OldestFirst(n) ==
    [i \in 1..n |-> LET e == ring[Len(ring) - n + i]
                    IN  Do("write", "code.write_file", e.path, e.before)]

\* CheckpointRing.last_n: newest first.
RestoreSteps(n) ==
    [i \in 1..n |-> LET e == ring[Len(ring) + 1 - i]
                    IN  Do("write", "code.write_file", e.path, e.before)]

\* cmd_rewind: one restoring write per entry, the newest first; whatever became
\* of them, the n entries are then dropped.
Rewind(n) ==
    /\ Idle /\ "rewind" \in Inputs
    /\ n \in 1..Len(ring)
    /\ Run("rewind", RestoreSteps(n), Nowhere, n)
    /\ UNCHANGED <<disk, touched, mode, rules, ring, snap, undoable, call>>

EndRewind ==
    /\ Finished("rewind")
    /\ ring' = SubSeq(ring, 1, Len(ring) - cmd.n)
    /\ cmd' = Prompt /\ touched' = {}
    /\ UNCHANGED <<disk, mode, rules, snap, undoable, call>>

\* cmd_mode sets the mode of the CLI and of its Runtime.
SetMode(m) ==
    /\ Idle /\ "mode" \in Inputs
    /\ mode' = m
    /\ UNCHANGED <<disk, touched, rules, ring, snap, undoable, cmd, call>>

\* Another process in the same workspace (a background job, an editor).
Outside ==
    /\ "outside" \in Inputs
    /\ SomeWrite
    /\ UNCHANGED <<mode, rules, ring, snap, undoable, cmd, call>>
-----------------------------------------------------------------------------
Apply == Skip \/ Begin \/ Hooks \/ Gate \/ Capture \/ Execute \/ Record

Commands ==
    \/ \E p \in Paths, c \in Contents :
         \/ Patch(p, c) \/ FixAttempt(p, c)
         \/ \E rt \in {"primary", "subagent"} : RunShell(rt, p, c)
         \/ \E rt \in {"write", "bare"} : AgentWrite(rt, p, c)
    \/ \E p \in Paths : Fix(p)
    \/ \E n \in 1..RingMax : Rewind(n)
    \/ \E m \in UserModes : SetMode(m)
    \/ Agent \/ Undo
    \/ EndSingle \/ EndFix \/ EndAgent \/ EndUndo \/ EndRewind

Next == Apply \/ Commands \/ Outside

Spec == Init /\ [][Next]_vars
-----------------------------------------------------------------------------
\* Type invariant.
TypeOK ==
    /\ disk \in Disks
    /\ mode \in Modes
    /\ rules \in [Types -> Actions]
    /\ ring \in Seq(Entry) /\ Len(ring) <= RingMax
    /\ snap \in Disks
    /\ undoable \in {"yes", "no"}
    /\ cmd \in Command
    /\ call \in Call
    /\ touched \subseteq Paths
    /\ call # NoCall => cmd.todo # <<>>
    /\ cmd.name = "rewind" => cmd.n <= Len(ring)

\* A step that runs a tool runs it on a Decision that the hard gate accepts, that
\* the subagent's allowlist names, that no rule of the user denies, and, if it
\* was asked about, that a user or acceptEdits could approve; and never in plan
\* mode, for a Runtime that knows the mode (coding_loop.py, Runtime.apply:
\* "a user allow rule can never un-block something the hard gate just refused").
Sanctioned ==
    /\ GateAccepts(Now.d)
    /\ Allowlisted(Now.rt, Now.d)
    /\ Permitted(Now.rt, Now.d, TRUE)
    /\ ModeOf(Now.rt) # "plan"
EffectsSanctioned ==
    [][call.stage = "execute" /\ call'.stage = "record" => Sanctioned]_vars

\* When /undo or /rewind is about to report, every file it says it restored holds
\* what it says it holds, unless somebody else wrote the file meanwhile.  (In plan
\* mode nothing is restored and the report says it is.)
HonestRestore ==
    Restoring /\ cmd.todo = <<>> /\ mode # "plan" =>
        \A p \in Paths \ touched : cmd.memo[p] # Absent => disk[p] = cmd.memo[p]

\* The snapshot of the last /agent run is only given up when every file it holds
\* is back in place, as far as it is up to /undo (cmd_undo: "never clears the
\* snapshot, so /undo can be retried").
SnapshotKeptUntilRestored ==
    [][undoable = "yes" /\ undoable' = "no" /\ mode # "plan" =>
         \A p \in Paths \ touched : snap[p] # Absent => disk[p] = snap[p]]_vars
=============================================================================
