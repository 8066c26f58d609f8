--------------------------- MODULE RuntimeProofs ---------------------------
(***************************************************************************)
(* Proofs about Runtime for any workspace, rule table, allowlist, set of   *)
(* hooks and length of the checkpoint ring, and that a session of /patch   *)
(* and /rewind implements EditHistory.                                     *)
(***************************************************************************)
EXTENDS RuntimeRefinement, FiniteSetTheorems, WellFoundedInduction, TLAPS

USE RuntimeAssumption

\* The steps that touch a command and its Decisions keep it a command.
LEMMA NowIsStep == ASSUME TypeOK, cmd.todo # <<>>
                   PROVE  Now \in Step /\ Tail(cmd.todo) \in Seq(Step)
  BY DEF TypeOK, Command, Now

LEMMA ReturnedIsCommand ==
  ASSUME TypeOK, cmd.todo # <<>>, Returned
  PROVE  cmd' \in Command /\ cmd'.name = cmd.name /\ cmd'.n = cmd.n
<1>1. Now \in Step /\ Tail(cmd.todo) \in Seq(Step)
  BY NowIsStep
<1> DEFINE m == IF cmd.name \in {"undo", "rewind"}
                THEN [cmd.memo EXCEPT ![Now.d.path] = Now.d.content] ELSE cmd.memo
<1>2. m \in Disks
  BY <1>1 DEF TypeOK, Command, Step, Decision, Disks
<1>3. cmd' = [cmd EXCEPT !.todo = Tail(cmd.todo), !.memo = m]
  BY DEF Returned, Restoring
<1> HIDE DEF m
<1> QED
  BY <1>1, <1>2, <1>3 DEF TypeOK, Command

LEMMA RaisedIsCommand ==
  ASSUME TypeOK, cmd.todo # <<>>, Raised
  PROVE  cmd' \in Command /\ cmd'.name = cmd.name /\ cmd'.n = cmd.n
<1>1. Now \in Step /\ Tail(cmd.todo) \in Seq(Step)
  BY NowIsStep
<1> DEFINE t == IF cmd.name = "fix" THEN <<>> ELSE Tail(cmd.todo)
<1>2. t \in Seq(Step)
  BY <1>1
<1>3. cmd' = [cmd EXCEPT !.errs = "some", !.todo = t]
  BY DEF Raised
<1> HIDE DEF t
<1> QED
  BY <1>2, <1>3 DEF TypeOK, Command

\* A command that starts is a command.
LEMMA RunIsCommand ==
  ASSUME NEW name \in {"prompt", "single", "fix", "agent", "undo", "rewind"},
         NEW todo \in Seq(Step), NEW memo \in Disks, NEW n \in Nat,
         Run(name, todo, memo, n)
  PROVE  cmd' \in Command /\ cmd'.name = name /\ cmd'.n = n /\ cmd'.todo = todo
  BY DEF Run, Command

\* An attempt of /fix or /agent is one more write of a running command.
LEMMA AttemptIsCommand ==
  ASSUME TypeOK, NEW todo \in Seq(Step),
         cmd' = [cmd EXCEPT !.todo = todo, !.n = cmd.n + 1]
  PROVE  cmd' \in Command /\ cmd'.name = cmd.name
<1>1. PICK k \in Nat : k = cmd.n + 1
  BY DEF TypeOK, Command
<1>2. cmd' = [cmd EXCEPT !.todo = todo, !.n = k]
  BY <1>1
<1> QED
  BY <1>2 DEF TypeOK, Command

LEMMA DoIsStep ==
  ASSUME NEW rt \in Runtimes, NEW t \in Types, NEW p \in Paths, NEW c \in Content
  PROVE  Do(rt, t, p, c) \in Step
  BY DEF Do, Step, Decision

LEMMA PromptIsCommand == Prompt \in Command /\ Nowhere \in Disks
  BY DEF Prompt, Command, Nowhere, Disks, Content

\* A push keeps the ring a ring of bounded length, and never a shorter one.
LEMMA PushBounded ==
  ASSUME NEW r \in Seq(Entry), Len(r) <= RingMax, NEW e \in Entry
  PROVE  Push(r, e) \in Seq(Entry) /\ Len(Push(r, e)) <= RingMax /\ Len(Push(r, e)) >= Len(r)
<1>1. CASE Len(r) < RingMax
  BY <1>1 DEF Push
<1>2. CASE ~(Len(r) < RingMax)
  <2>1. Len(r) = RingMax /\ r # <<>>
    BY <1>2
  <2>2. Tail(r) \in Seq(Entry) /\ Len(Tail(r)) = Len(r) - 1
    BY <2>1
  <2> QED
    BY <1>2, <2>1, <2>2 DEF Push
<1> QED
  BY <1>1, <1>2

LEMMA InitType == Init => TypeOK
  BY PromptIsCommand DEF Init, TypeOK, NoCall, Call, Content, Modes, Prompt, Disks, Nowhere

\* Every step of every command, and of the world, keeps the types.
LEMMA NextType == TypeOK /\ [Next]_vars => TypeOK'
<1> SUFFICES ASSUME TypeOK, [Next]_vars PROVE TypeOK'
  OBVIOUS
<1>a. \A d \in Disks, p \in Paths, c \in Content : [d EXCEPT ![p] = c] \in Disks
  BY DEF Disks
<1>b. SomeWrite => disk' \in Disks /\ touched' \subseteq Paths
  <2> SUFFICES ASSUME SomeWrite PROVE disk' \in Disks /\ touched' \subseteq Paths
    OBVIOUS
  <2>1. PICK p \in Paths, c \in Contents :
          /\ disk' = [disk EXCEPT ![p] = c]
          /\ touched' = IF Restoring THEN touched \cup {p} ELSE touched
    BY DEF SomeWrite
  <2>2. c \in Content
    BY DEF Content
  <2> QED
    BY <1>a, <2>1, <2>2 DEF TypeOK
<1>c. NoCall \in Call
  BY DEF NoCall, Call, Content
<1>d. \A st \in {"hooks", "gate", "capture", "execute", "record"} :
         [call EXCEPT !.stage = st] \in Call
  BY DEF TypeOK, Call
<1>1. CASE Skip
  <2>1. cmd' \in Command /\ cmd'.name = cmd.name /\ cmd'.n = cmd.n
    BY <1>1, NowIsStep DEF Skip, TypeOK, Command
  <2> QED
    BY <1>1, <2>1 DEF Skip, TypeOK
<1>2. CASE Begin
  <2>1. CASE Returned /\ UNCHANGED call
    BY <1>2, <2>1, ReturnedIsCommand DEF Begin, TypeOK
  <2>2. CASE call' = [call EXCEPT !.stage = "hooks"] /\ UNCHANGED cmd
    BY <1>2, <2>2, <1>d DEF Begin, TypeOK
  <2> QED
    BY <1>2, <2>1, <2>2 DEF Begin
<1>3. CASE Hooks
  <2>1. call # NoCall /\ cmd.todo # <<>>
    BY <1>3 DEF Hooks, NoCall, TypeOK
  <2>2. disk' \in Disks /\ touched' \subseteq Paths
    BY <1>3, <1>b DEF Hooks, HookEffect, TypeOK
  <2>3. CASE call' = [call EXCEPT !.stage = "gate"] /\ UNCHANGED cmd
    BY <1>3, <2>1, <2>2, <2>3, <1>d DEF Hooks, TypeOK
  <2>4. CASE call' = NoCall /\ Raised
    BY <1>3, <2>1, <2>2, <2>4, <1>c, RaisedIsCommand DEF Hooks, TypeOK
  <2> QED
    BY <1>3, <2>3, <2>4 DEF Hooks
<1>4. CASE Gate
  <2>1. call # NoCall /\ cmd.todo # <<>>
    BY <1>4 DEF Gate, NoCall, TypeOK
  <2>2. CASE call' = [call EXCEPT !.stage = "capture"] /\ UNCHANGED cmd
    BY <1>4, <2>1, <2>2, <1>d DEF Gate, TypeOK
  <2>3. CASE call' = NoCall /\ Raised
    BY <1>4, <2>1, <2>3, <1>c, RaisedIsCommand DEF Gate, TypeOK
  <2> QED
    BY <1>4, <2>2, <2>3 DEF Gate
<1>5. CASE Capture
  <2>1. call # NoCall /\ cmd.todo # <<>>
    BY <1>5 DEF Capture, NoCall, TypeOK
  <2>2. disk[Now.d.path] \in Content
    BY <2>1, NowIsStep DEF TypeOK, Step, Decision, Disks
  <2>3. call' \in Call
    BY <1>5, <2>2 DEF Capture, TypeOK, Call
  <2> QED
    BY <1>5, <2>1, <2>3 DEF Capture, TypeOK
<1>6. CASE Execute
  <2>1. call # NoCall /\ cmd.todo # <<>>
    BY <1>6 DEF Execute, NoCall, TypeOK
  <2>2. Now.d.path \in Paths /\ Now.d.content \in Content
    BY <2>1, NowIsStep DEF Step, Decision
  <2>3. disk' \in Disks /\ touched' \subseteq Paths
    BY <1>6, <2>2, <1>a, <1>b DEF Execute, TypeOK
  <2>4. CASE call' = [call EXCEPT !.stage = "record"] /\ UNCHANGED cmd
    BY <1>6, <2>1, <2>3, <2>4, <1>d DEF Execute, TypeOK
  <2>5. CASE call' = NoCall /\ Raised
    BY <1>6, <2>1, <2>3, <2>5, <1>c, RaisedIsCommand DEF Execute, TypeOK
  <2> QED
    BY <1>6, <2>4, <2>5 DEF Execute
<1>7. CASE Record
  <2>1. call # NoCall /\ cmd.todo # <<>>
    BY <1>7 DEF Record, NoCall, TypeOK
  <2>2. disk' \in Disks /\ touched' \subseteq Paths
    BY <1>7, <1>b DEF Record, HookEffect, TypeOK
  <2>3. NewEntry \in Entry
    BY <2>1, NowIsStep DEF NewEntry, Entry, Step, Decision, TypeOK, Call
  <2>4. ring' \in Seq(Entry) /\ Len(ring') <= RingMax /\ Len(ring') >= Len(ring)
    BY <1>7, <2>3, PushBounded DEF Record, TypeOK
  <2>5. cmd' \in Command /\ cmd'.name = cmd.name /\ cmd'.n = cmd.n
    BY <1>7, <2>1, ReturnedIsCommand DEF Record
  <2>6. cmd'.n \in Nat /\ Len(ring) \in Nat /\ Len(ring') \in Nat
    BY <2>4, <2>5 DEF Command, TypeOK
  <2>7. cmd'.name = "rewind" => cmd'.n <= Len(ring')
    BY <2>4, <2>5, <2>6 DEF TypeOK
  <2>8. call' = NoCall /\ UNCHANGED <<mode, rules, snap, undoable>>
    BY <1>7 DEF Record
  <2> QED
    BY <2>2, <2>4, <2>5, <2>7, <2>8, <1>c DEF TypeOK
<1>8. CASE Commands
  <2> USE PromptIsCommand
  <2>1. ASSUME NEW rt \in Runtimes, NEW t \in Types, NEW p \in Paths, NEW c \in Contents,
               Single(rt, t, p, c) PROVE TypeOK'
    <3>1. <<Do(rt, t, p, c)>> \in Seq(Step)
      BY DoIsStep DEF Content
    <3>2. cmd' \in Command /\ cmd'.name = "single"
      BY <2>1, <3>1, RunIsCommand DEF Single
    <3> QED
      BY <2>1, <3>2 DEF Single, Idle, TypeOK
  <2>2. ASSUME NEW p \in Paths, Fix(p) PROVE TypeOK'
    <3>1. [Nowhere EXCEPT ![p] = disk[p]] \in Disks
      BY <1>a DEF TypeOK, Disks
    <3>2. cmd' \in Command /\ cmd'.name = "fix"
      <4>1. Run("fix", <<>>, [Nowhere EXCEPT ![p] = disk[p]], 0) /\ <<>> \in Seq(Step)
        BY <2>2 DEF Fix
      <4> QED
        BY <3>1, <4>1, RunIsCommand
    <3> QED
      BY <2>2, <3>2 DEF Fix, Idle, TypeOK
  <2>3. ASSUME NEW p \in Paths, NEW c \in Contents, FixAttempt(p, c) PROVE TypeOK'
    <3> DEFINE t == <<Do("bare", "code.write_file", p, c), Do("bare", "shell.exec", p, c)>>
    <3>1. t \in Seq(Step)
      BY DoIsStep DEF Content, Runtimes, Types
    <3>2. cmd' = [cmd EXCEPT !.todo = t, !.n = cmd.n + 1]
      BY <2>3 DEF FixAttempt
    <3> HIDE DEF t
    <3>3. cmd' \in Command /\ cmd'.name = "fix"
      BY <2>3, <3>1, <3>2, AttemptIsCommand DEF FixAttempt, Finished
    <3> QED
      BY <2>3, <3>3 DEF FixAttempt, Finished, TypeOK
  <2>4. ASSUME NEW rt \in {"write", "bare"}, NEW p \in Paths, NEW c \in Contents,
               AgentWrite(rt, p, c) PROVE TypeOK'
    <3> DEFINE t == <<Do(rt, "code.write_file", p, c)>>
    <3>1. t \in Seq(Step)
      BY DoIsStep DEF Content, Runtimes, Types
    <3>2. cmd' = [cmd EXCEPT !.todo = t, !.n = cmd.n + 1]
      BY <2>4 DEF AgentWrite
    <3> HIDE DEF t
    <3>3. cmd' \in Command /\ cmd'.name = "agent"
      BY <2>4, <3>1, <3>2, AttemptIsCommand DEF AgentWrite, Finished
    <3> QED
      BY <2>4, <3>3 DEF AgentWrite, Finished, TypeOK
  <2>5. ASSUME NEW n \in 1..RingMax, Rewind(n) PROVE TypeOK'
    <3>1. n \in Nat /\ n <= Len(ring)
      BY <2>5 DEF Rewind
    <3>2. \A i \in 1..n : ring[Len(ring) + 1 - i] \in Entry
      BY <3>1 DEF TypeOK
    <3>3. \A i \in 1..n : RestoreSteps(n)[i] \in Step
      BY <3>2, DoIsStep DEF RestoreSteps, Entry, Runtimes, Types
    <3>4. RestoreSteps(n) \in Seq(Step)
      BY <3>1, <3>3 DEF RestoreSteps
    <3>5. cmd' \in Command /\ cmd'.name = "rewind" /\ cmd'.n = n
      BY <2>5, <3>1, <3>4, RunIsCommand DEF Rewind
    <3> QED
      BY <2>5, <3>1, <3>5 DEF Rewind, Idle, TypeOK
  <2>6. ASSUME NEW m \in UserModes, SetMode(m) PROVE TypeOK'
    BY <2>6 DEF SetMode, TypeOK
  <2>7. CASE Agent
    <3>1. cmd' \in Command /\ cmd'.name = "agent"
      <4>1. Run("agent", <<>>, Nowhere, 0) /\ <<>> \in Seq(Step)
        BY <2>7 DEF Agent
      <4> QED
        BY <4>1, RunIsCommand
    <3> QED
      BY <2>7, <3>1 DEF Agent, Idle, TypeOK
  <2>8. CASE Undo
    <3>1. PICK s \in Listings({p \in Paths : snap[p] # Absent}) :
            Run("undo", [i \in DOMAIN s |-> Do("write", "code.write_file", s[i], snap[s[i]])],
                Nowhere, 0)
      BY <2>8 DEF Undo
    <3> DEFINE t == [i \in DOMAIN s |-> Do("write", "code.write_file", s[i], snap[s[i]])]
    <3>2. t \in Seq(Step)
      <4> DEFINE S == {p \in Paths : snap[p] # Absent}
      <4>1. s \in [1..Cardinality(S) -> S]
        BY DEF Listings
      <4>2. \A i \in DOMAIN s : t[i] \in Step
        BY <4>1, DoIsStep DEF TypeOK, Disks, Runtimes, Types
      <4>3. Cardinality(S) \in Nat
        BY FS_Subset, FS_CardinalityType
      <4> QED
        BY <4>1, <4>2, <4>3
    <3>3. cmd' \in Command /\ cmd'.name = "undo"
      BY <3>1, <3>2, RunIsCommand
    <3> QED
      BY <2>8, <3>3 DEF Undo, Idle, TypeOK
  <2>9. CASE EndSingle
    BY <2>9 DEF EndSingle, Finished, TypeOK, Prompt
  <2>10. CASE EndFix
    <3>1. Over(cmd.memo, disk) \in Disks
      BY DEF Over, TypeOK, Command, Disks
    <3> QED
      BY <2>10, <3>1 DEF EndFix, Finished, TypeOK, Prompt
  <2>11. CASE EndAgent
    BY <2>11 DEF EndAgent, Finished, TypeOK, Prompt
  <2>12. CASE EndUndo
    BY <2>12 DEF EndUndo, Finished, TypeOK, Prompt
  <2>13. CASE EndRewind
    <3>1. cmd.n \in Nat /\ cmd.n <= Len(ring)
      BY <2>13 DEF EndRewind, Finished, TypeOK, Command
    <3>2. ring' \in Seq(Entry) /\ Len(ring') <= RingMax
      BY <2>13, <3>1 DEF EndRewind, TypeOK
    <3> QED
      BY <2>13, <3>2 DEF EndRewind, Finished, TypeOK, Prompt
  <2> QED
    BY <1>8, <2>1, <2>2, <2>3, <2>4, <2>5, <2>6, <2>7, <2>8, <2>9, <2>10, <2>11, <2>12, <2>13
       DEF Commands, Patch, RunShell, Runtimes, Types
<1>9. CASE Outside
  BY <1>9, <1>b DEF Outside, TypeOK
<1>10. CASE UNCHANGED vars
  BY <1>10 DEF vars, TypeOK
<1> QED
  BY <1>1, <1>2, <1>3, <1>4, <1>5, <1>6, <1>7, <1>8, <1>9, <1>10 DEF Next, Apply

\* The session stays well typed, and the ring within its bound.
THEOREM TypeCorrect == Spec => []TypeOK
  BY InitType, NextType, PTL DEF Spec
-----------------------------------------------------------------------------
\* What the gate decided stays true until the tool has run: past the gate, the
\* Decision being applied is a sanctioned one, and from the moment apply goes past
\* plan mode the mode cannot become plan before apply returns.
PastTheGate ==
    /\ call.stage # "none" => ModeOf(Now.rt) # "plan"
    /\ call.stage \in {"capture", "execute", "record"} => Sanctioned

\* An approval nobody gave is one somebody could give.
LEMMA GateSanctions ==
  ASSUME NEW approved \in BOOLEAN, Authorizes(Now.rt, Now.d, approved), ModeOf(Now.rt) # "plan"
  PROVE  Sanctioned
<1>1. CASE approved = TRUE
  BY <1>1 DEF Authorizes, Sanctioned
<1>2. CASE approved = FALSE
  BY <1>2 DEF Authorizes, Sanctioned, Permitted
<1> QED
  BY <1>1, <1>2

\* A step that leaves the Decision, its mode and the rules alone leaves what was
\* decided about it alone.
LEMMA StillSanctioned ==
  ASSUME UNCHANGED <<cmd, mode, rules>>
  PROVE  /\ Sanctioned => Sanctioned'
         /\ ModeOf(Now.rt)' = ModeOf(Now.rt)
  BY DEF Sanctioned, ModeOf, Now, GateAccepts, Allowlisted, Permitted, Configured

LEMMA NextPastTheGate == TypeOK /\ PastTheGate /\ [Next]_vars => PastTheGate'
<1> SUFFICES ASSUME TypeOK, PastTheGate, [Next]_vars PROVE PastTheGate'
  OBVIOUS
<1>1. CASE call' = NoCall
  BY <1>1 DEF PastTheGate, NoCall
<1>2. ASSUME UNCHANGED <<cmd, mode, rules, call>> PROVE PastTheGate'
  BY <1>2, StillSanctioned DEF PastTheGate
<1>3. ASSUME UNCHANGED <<cmd, mode, rules>>, call'.stage \in {"capture", "execute", "record"},
             call.stage # "none", Sanctioned
      PROVE PastTheGate'
  BY <1>3, StillSanctioned DEF PastTheGate
<1>4. CASE Begin
  <2>1. CASE Returned /\ UNCHANGED call
    BY <1>1, <1>4, <2>1 DEF Begin
  <2>2. CASE call' = [call EXCEPT !.stage = "hooks"] /\ UNCHANGED cmd
    <3>1. call'.stage = "hooks"
      BY <2>2 DEF TypeOK, Call
    <3>2. Now.d.type \in Withheld
      BY <1>4, NowIsStep DEF Begin, Step, Decision, Types, Withheld, WriteTypes
    <3>3. ModeOf(Now.rt) # "plan"
      BY <1>4, <2>2, <3>1, <3>2 DEF Begin, NoCall
    <3> QED
      BY <1>4, <2>2, <3>1, <3>3, StillSanctioned DEF PastTheGate, Begin
  <2> QED
    BY <1>4, <2>1, <2>2 DEF Begin
<1>5. CASE Hooks
  <2>1. CASE call' = [call EXCEPT !.stage = "gate"] /\ UNCHANGED cmd
    <3>1. call'.stage = "gate"
      BY <2>1 DEF TypeOK, Call
    <3> QED
      BY <1>5, <2>1, <3>1, StillSanctioned DEF PastTheGate, Hooks
  <2> QED
    BY <1>1, <1>5, <2>1 DEF Hooks
<1>6. CASE Gate
  <2>1. PICK approved \in BOOLEAN :
          IF Authorizes(Now.rt, Now.d, approved)
          THEN call' = [call EXCEPT !.stage = "capture"] /\ UNCHANGED cmd
          ELSE call' = NoCall /\ Raised
    BY <1>6 DEF Gate
  <2>2. CASE Authorizes(Now.rt, Now.d, approved)
    <3>1. call'.stage = "capture" /\ UNCHANGED <<cmd, mode, rules>>
      BY <1>6, <2>1, <2>2 DEF TypeOK, Call, Gate
    <3>2. call.stage # "none" /\ ModeOf(Now.rt) # "plan"
      BY <1>6 DEF Gate, PastTheGate
    <3> QED
      BY <1>3, <2>2, <3>1, <3>2, GateSanctions
  <2> QED
    BY <1>1, <2>1, <2>2
<1>7. CASE Capture
  <2>1. call'.stage = "execute" /\ UNCHANGED <<cmd, mode, rules>>
    BY <1>7 DEF Capture, TypeOK, Call
  <2> QED
    BY <1>3, <1>7, <2>1 DEF Capture, PastTheGate
<1>8. CASE Execute
  <2>1. CASE call' = [call EXCEPT !.stage = "record"] /\ UNCHANGED cmd
    <3>1. call'.stage = "record" /\ UNCHANGED <<cmd, mode, rules>>
      BY <1>8, <2>1 DEF Execute, TypeOK, Call
    <3> QED
      BY <1>3, <1>8, <3>1 DEF Execute, PastTheGate
  <2> QED
    BY <1>1, <1>8, <2>1 DEF Execute
<1>9. CASE Record
  BY <1>1, <1>9 DEF Record
<1>10. CASE Outside
  BY <1>2, <1>10 DEF Outside
<1>11. CASE UNCHANGED vars
  BY <1>2, <1>11 DEF vars
<1>12. CASE Skip
  BY <1>1, <1>12 DEF Skip
<1>13. CASE Commands
  BY <1>1, <1>13
     DEF Commands, Patch, RunShell, Single, Fix, FixAttempt, AgentWrite, Rewind, SetMode, Agent,
         Undo, EndSingle, EndFix, EndAgent, EndUndo, EndRewind, Idle, Finished
<1> QED
  BY <1>4, <1>5, <1>6, <1>7, <1>8, <1>9, <1>10, <1>11, <1>12, <1>13 DEF Next, Apply

\* A tool only ever runs on a Decision that the gate, the allowlist, the rules and
\* the mode let through, for any tables, hooks and contents.
THEOREM OnlySanctionedEffects == Spec => EffectsSanctioned
<1>1. Init => PastTheGate
  BY DEF Init, PastTheGate, NoCall
<1>2. PastTheGate => (call.stage = "execute" => Sanctioned)
  BY DEF PastTheGate
<1>3. PastTheGate /\ [Next]_vars =>
        [call.stage = "execute" /\ call'.stage = "record" => Sanctioned]_vars
  BY <1>2
<1> QED
  BY <1>1, <1>3, InitType, NextType, NextPastTheGate, PTL DEF Spec, EffectsSanctioned
-----------------------------------------------------------------------------
\* Between its writes, /undo or /rewind has on disk all it says it restored and
\* nobody wrote since; while a write is being recorded, its file already holds the
\* new content but the report still the old one.
RestoreStep == {s \in Step : s.d.type = "code.write_file"}
InFlight(p) == call.stage = "record" /\ p = Now.d.path
RestoreInv ==
    Restoring =>
        /\ cmd.todo \in Seq(RestoreStep)
        /\ mode # "plan" /\ call.stage = "record" =>
             Now.d.path \in touched \/ disk[Now.d.path] = Now.d.content
        /\ mode # "plan" =>
             \A p \in Paths \ touched :
                 cmd.memo[p] # Absent /\ ~InFlight(p) => disk[p] = cmd.memo[p]

LEMMA NowIsRestore ==
  ASSUME RestoreInv, Restoring, cmd.todo # <<>>
  PROVE  /\ Now \in RestoreStep /\ Tail(cmd.todo) \in Seq(RestoreStep)
         /\ Now.d.type = "code.write_file" /\ Now.d.path \in Paths /\ Now.d.content \in Content
  BY DEF RestoreInv, Now, RestoreStep, Step, Decision

\* Whoever else writes during /undo or /rewind is noted.
Meddling == UNCHANGED <<disk, touched>> \/ SomeWrite
LEMMA MeddlingIsNoted ==
  ASSUME TypeOK, Restoring, Meddling
  PROVE  /\ touched \subseteq touched'
         /\ \A p \in Paths \ touched' : disk'[p] = disk[p]
<1>1. CASE UNCHANGED <<disk, touched>>
  BY <1>1
<1>2. CASE SomeWrite
  <2>1. PICK q \in Paths, c \in Contents :
          disk' = [disk EXCEPT ![q] = c] /\ touched' = touched \cup {q}
    BY <1>2 DEF SomeWrite
  <2> QED
    BY <2>1 DEF TypeOK, Disks
<1> QED
  BY <1>1, <1>2 DEF Meddling

\* A step that only others write in takes nothing from the report.
LEMMA MeddlingKeepsRestores ==
  ASSUME TypeOK, RestoreInv, Meddling, UNCHANGED <<mode, cmd>>,
         UNCHANGED call \/ (call.stage # "record" /\ call'.stage # "record")
  PROVE  RestoreInv'
<1> SUFFICES ASSUME Restoring PROVE RestoreInv'
  BY DEF RestoreInv, Restoring
<1>1. touched \subseteq touched' /\ \A p \in Paths \ touched' : disk'[p] = disk[p]
  BY MeddlingIsNoted
<1>2. cmd.todo \in Seq(RestoreStep) /\ (call.stage = "record" => Now.d.path \in Paths)
  <2>1. call.stage = "record" => cmd.todo # <<>>
    BY DEF TypeOK, NoCall
  <2> QED
    BY <2>1, NowIsRestore DEF RestoreInv
<1>3. CASE UNCHANGED call
  BY <1>1, <1>2, <1>3 DEF RestoreInv, Restoring, InFlight, Now
<1>4. CASE call.stage # "record" /\ call'.stage # "record"
  BY <1>1, <1>2, <1>4 DEF RestoreInv, Restoring, InFlight
<1> QED
  BY <1>3, <1>4

\* An apply that ends without having run its tool takes nothing from the report.
LEMMA RaisedKeepsRestores ==
  ASSUME TypeOK, RestoreInv, cmd.todo # <<>>, call.stage # "record",
         Raised, call' = NoCall, Meddling, UNCHANGED mode
  PROVE  RestoreInv'
<1>1. cmd'.name = cmd.name /\ cmd'.memo = cmd.memo
      /\ (Restoring => cmd'.todo = Tail(cmd.todo))
  BY DEF Raised, TypeOK, Command, Restoring
<1>2. call'.stage = "none"
  BY DEF NoCall
<1>3. Restoring => touched \subseteq touched' /\ \A p \in Paths \ touched' : disk'[p] = disk[p]
  BY MeddlingIsNoted
<1> QED
  BY <1>1, <1>2, <1>3, NowIsRestore DEF RestoreInv, Restoring, InFlight

LEMMA NextRestores ==
  ASSUME TypeOK, RestoreInv, [Next]_vars
  PROVE  RestoreInv'
<1>1. ASSUME UNCHANGED <<disk, touched, mode, cmd>>, call.stage # "record", call'.stage # "record"
      PROVE  RestoreInv'
  BY <1>1, MeddlingKeepsRestores DEF Meddling
<1>2. CASE Skip
  <2>1. cmd'.name = cmd.name /\ cmd'.memo = cmd.memo /\ cmd'.todo = Tail(cmd.todo)
    BY <1>2 DEF Skip, TypeOK, Command
  <2>2. call.stage = "none" /\ call'.stage = "none"
    BY <1>2 DEF Skip, NoCall
  <2> QED
    BY <1>2, <2>1, <2>2, NowIsRestore DEF Skip, RestoreInv, Restoring, InFlight
<1>3. CASE Begin
  <2>1. CASE call' = [call EXCEPT !.stage = "hooks"] /\ UNCHANGED cmd
    <3>1. call.stage # "record" /\ call'.stage # "record"
      BY <1>3, <2>1 DEF Begin, NoCall, TypeOK, Call
    <3> QED
      BY <1>1, <1>3, <2>1, <3>1 DEF Begin
  <2>2. CASE mode = "plan" /\ Returned /\ UNCHANGED call
    <3>1. cmd.todo # <<>> /\ UNCHANGED mode
      BY <1>3 DEF Begin
    <3>2. cmd'.name = cmd.name /\ cmd'.todo = Tail(cmd.todo)
      BY <2>2 DEF Returned, TypeOK, Command
    <3> QED
      BY <2>2, <3>1, <3>2, NowIsRestore DEF RestoreInv, Restoring
  <2>3. ModeOf(Now.rt) = "plan" => mode = "plan"
    BY DEF ModeOf
  <2> QED
    BY <1>3, <2>1, <2>2, <2>3 DEF Begin
<1>4. CASE Hooks
  <2>1. Meddling /\ UNCHANGED mode /\ cmd.todo # <<>> /\ call.stage # "record"
    BY <1>4 DEF Hooks, HookEffect, Meddling, TypeOK, NoCall
  <2>2. CASE call' = [call EXCEPT !.stage = "gate"] /\ UNCHANGED cmd
    <3>1. call'.stage # "record"
      BY <2>2 DEF TypeOK, Call
    <3> QED
      BY <2>1, <2>2, <3>1, MeddlingKeepsRestores
  <2>3. CASE call' = NoCall /\ Raised
    BY <2>1, <2>3, RaisedKeepsRestores
  <2> QED
    BY <1>4, <2>2, <2>3 DEF Hooks
<1>5. CASE Gate
  <2>1. UNCHANGED <<disk, touched, mode>> /\ cmd.todo # <<>> /\ call.stage # "record"
    BY <1>5 DEF Gate, TypeOK, NoCall
  <2>2. CASE call' = [call EXCEPT !.stage = "capture"] /\ UNCHANGED cmd
    <3>1. call'.stage # "record"
      BY <2>2 DEF TypeOK, Call
    <3> QED
      BY <1>1, <2>1, <2>2, <3>1
  <2>3. CASE call' = NoCall /\ Raised
    BY <2>1, <2>3, RaisedKeepsRestores DEF Meddling
  <2> QED
    BY <1>5, <2>2, <2>3 DEF Gate
<1>6. CASE Capture
  <2>1. call'.stage # "record" /\ call.stage # "record"
    BY <1>6 DEF Capture, TypeOK, Call
  <2> QED
    BY <1>1, <1>6, <2>1 DEF Capture
<1>7. CASE Execute
  <2>1. cmd.todo # <<>> /\ call.stage # "record" /\ UNCHANGED mode
    BY <1>7 DEF Execute, TypeOK, NoCall
  <2>2. CASE call' = NoCall /\ Raised /\ UNCHANGED <<disk, touched>>
    BY <2>1, <2>2, RaisedKeepsRestores DEF Meddling
  <2>3. CASE ~Restoring /\ UNCHANGED cmd
    BY <2>1, <2>3 DEF RestoreInv, Restoring
  <2>4. CASE /\ Restoring /\ UNCHANGED cmd
             /\ call' = [call EXCEPT !.stage = "record"]
             /\ disk' = [disk EXCEPT ![Now.d.path] = Now.d.content]
             /\ touched' = touched \ {Now.d.path}
    <3>1. call'.stage = "record" /\ Now' = Now
      BY <2>4 DEF TypeOK, Call, Now
    <3>2. disk'[Now.d.path] = Now.d.content
          /\ \A p \in Paths : p # Now.d.path => disk'[p] = disk[p]
      BY <2>1, <2>4, NowIsRestore DEF TypeOK, Disks
    <3> QED
      BY <2>1, <2>4, <3>1, <3>2 DEF RestoreInv, Restoring, InFlight
  <2>5. Restoring => Now.d.type = "code.write_file"
    BY <2>1, NowIsRestore
  <2> QED
    BY <1>7, <2>2, <2>3, <2>4, <2>5 DEF Execute
<1>8. CASE Record
  <2>1. cmd.todo # <<>> /\ UNCHANGED mode /\ call'.stage = "none" /\ call.stage = "record"
    BY <1>8 DEF Record, TypeOK, NoCall
  <2>2. cmd'.name = cmd.name
    BY <1>8, <2>1, ReturnedIsCommand DEF Record
  <2>3. CASE ~Restoring
    BY <2>1, <2>2, <2>3 DEF RestoreInv, Restoring
  <2>4. CASE Restoring
    <3>1. cmd'.todo = Tail(cmd.todo)
          /\ cmd'.memo = [cmd.memo EXCEPT ![Now.d.path] = Now.d.content]
      BY <1>8, <2>4 DEF Record, Returned, Restoring, TypeOK, Command
    <3>2. cmd'.memo[Now.d.path] = Now.d.content
          /\ \A p \in Paths : p # Now.d.path => cmd'.memo[p] = cmd.memo[p]
      BY <2>1, <2>4, <3>1, NowIsRestore DEF TypeOK, Command, Disks
    <3>3. mode # "plan" => Now.d.path \in touched \/ disk[Now.d.path] = Now.d.content
      BY <2>1, <2>4 DEF RestoreInv
    <3>4. touched \subseteq touched' /\ \A p \in Paths \ touched' : disk'[p] = disk[p]
      BY <1>8, <2>4, MeddlingIsNoted DEF Record, HookEffect, Meddling
    <3> QED
      BY <2>1, <2>2, <2>4, <3>1, <3>2, <3>3, <3>4, NowIsRestore DEF RestoreInv, Restoring, InFlight
  <2> QED
    BY <2>3, <2>4
<1>9. CASE Outside
  BY <1>9, MeddlingKeepsRestores DEF Outside, Meddling
<1>10. CASE UNCHANGED vars
  BY <1>10 DEF vars, RestoreInv, Restoring, InFlight, Now
<1>11. CASE Commands
  <2>1. ASSUME ~Restoring', UNCHANGED mode PROVE RestoreInv'
    BY <2>1 DEF RestoreInv
  <2>2. ASSUME NEW n \in 1..RingMax, Rewind(n) PROVE RestoreInv'
    <3>1. n \in Nat /\ n <= Len(ring)
      BY <2>2 DEF Rewind
    <3>2. \A i \in 1..n : ring[Len(ring) + 1 - i] \in Entry
      BY <3>1 DEF TypeOK
    <3>3. \A i \in 1..n : RestoreSteps(n)[i] \in RestoreStep
      <4>1. ASSUME NEW e \in Entry PROVE Do("write", "code.write_file", e.path, e.before) \in RestoreStep
        BY DoIsStep DEF Entry, Runtimes, Types, RestoreStep, Do
      <4> QED
        BY <3>2, <4>1 DEF RestoreSteps
    <3>4. RestoreSteps(n) \in Seq(RestoreStep)
      BY <3>1, <3>3 DEF RestoreSteps
    <3>5. cmd'.todo = RestoreSteps(n) /\ cmd'.memo = Nowhere /\ call'.stage = "none" /\ UNCHANGED mode
      BY <2>2 DEF Rewind, Run, Idle, NoCall
    <3> QED
      BY <3>4, <3>5 DEF RestoreInv, Nowhere
  <2>3. ASSUME Undo PROVE RestoreInv'
    <3>1. PICK s \in Listings({p \in Paths : snap[p] # Absent}) :
            Run("undo", [i \in DOMAIN s |-> Do("write", "code.write_file", s[i], snap[s[i]])],
                Nowhere, 0)
      BY <2>3 DEF Undo
    <3> DEFINE t == [i \in DOMAIN s |-> Do("write", "code.write_file", s[i], snap[s[i]])]
               S == {p \in Paths : snap[p] # Absent}
    <3>2. t \in Seq(RestoreStep)
      <4>1. s \in [1..Cardinality(S) -> S]
        BY DEF Listings
      <4>2. \A i \in DOMAIN s : t[i] \in RestoreStep
        BY <4>1, DoIsStep DEF TypeOK, Disks, Runtimes, Types, RestoreStep, Do
      <4>3. Cardinality(S) \in Nat
        BY FS_Subset, FS_CardinalityType
      <4> QED
        BY <4>1, <4>2, <4>3
    <3>3. cmd'.todo = t /\ cmd'.memo = Nowhere
      BY <3>1 DEF Run
    <3>4. call'.stage = "none" /\ UNCHANGED mode
      BY <2>3 DEF Undo, Idle, NoCall
    <3> QED
      BY <3>2, <3>3, <3>4 DEF RestoreInv, Nowhere
  <2>4. ASSUME NEW m \in UserModes, SetMode(m) PROVE RestoreInv'
    BY <2>4 DEF SetMode, Idle, RestoreInv, Restoring
  <2>5. ASSUME NEW rt \in Runtimes, NEW t \in Types, NEW p \in Paths, NEW c \in Contents,
               Single(rt, t, p, c) PROVE RestoreInv'
    BY <2>1, <2>5 DEF Single, Run, Restoring
  <2>6. ASSUME NEW p \in Paths, Fix(p) PROVE RestoreInv'
    BY <2>1, <2>6 DEF Fix, Run, Restoring
  <2>7. CASE Agent
    BY <2>1, <2>7 DEF Agent, Run, Restoring
  <2>8. ASSUME NEW p \in Paths, NEW c \in Contents, FixAttempt(p, c) PROVE RestoreInv'
    <3>1. cmd'.name = "fix"
      BY <2>8 DEF FixAttempt, Finished, TypeOK, Command
    <3> QED
      BY <2>1, <2>8, <3>1 DEF FixAttempt, Restoring
  <2>9. ASSUME NEW rt \in {"write", "bare"}, NEW p \in Paths, NEW c \in Contents,
               AgentWrite(rt, p, c) PROVE RestoreInv'
    <3>1. cmd'.name = "agent"
      BY <2>9 DEF AgentWrite, Finished, TypeOK, Command
    <3> QED
      BY <2>1, <2>9, <3>1 DEF AgentWrite, Restoring
  <2>10. CASE EndSingle \/ EndFix \/ EndAgent \/ EndUndo \/ EndRewind
    <3>1. cmd' = Prompt /\ UNCHANGED mode
      BY <2>10 DEF EndSingle, EndFix, EndAgent, EndUndo, EndRewind
    <3> QED
      BY <2>1, <3>1 DEF Prompt, Restoring
  <2> QED
    BY <1>11, <2>2, <2>3, <2>4, <2>5, <2>6, <2>7, <2>8, <2>9, <2>10
       DEF Commands, Patch, RunShell, Runtimes, Types
<1> QED
  BY <1>2, <1>3, <1>4, <1>5, <1>6, <1>7, <1>8, <1>9, <1>10, <1>11 DEF Next, Apply

\* Outside plan mode /undo and /rewind report as restored only what is on disk, or
\* was until somebody else wrote it, whichever of their writes are refused, for any
\* ring, hooks and rules.
THEOREM RestoresAreHonest == Spec => []HonestRestore
<1>1. Init => RestoreInv
  BY DEF Init, RestoreInv, Restoring, Prompt
<1>2. TypeOK /\ RestoreInv /\ [Next]_vars => RestoreInv'
  BY NextRestores
<1>3. TypeOK /\ RestoreInv => HonestRestore
  <2> SUFFICES ASSUME TypeOK, RestoreInv, Restoring, cmd.todo = <<>>, mode # "plan",
                      NEW p \in Paths \ touched, cmd.memo[p] # Absent
               PROVE  disk[p] = cmd.memo[p]
    BY DEF HonestRestore
  <2>1. ~InFlight(p)
    BY DEF TypeOK, NoCall, InFlight
  <2> QED
    BY <2>1 DEF RestoreInv
<1> QED
  BY <1>1, <1>2, <1>3, InitType, NextType, PTL DEF Spec
-----------------------------------------------------------------------------
\* What /undo still has to write and what it says it restored are the files of the
\* snapshot, all of them unless a write was refused.
UndoInv ==
    cmd.name = "undo" =>
        /\ \A i \in DOMAIN cmd.todo :
              cmd.todo[i].d.content # Absent /\ cmd.todo[i].d.content = snap[cmd.todo[i].d.path]
        /\ cmd.errs = "none" =>
             \A p \in Paths : snap[p] # Absent =>
                 cmd.memo[p] = snap[p] \/ \E i \in DOMAIN cmd.todo : cmd.todo[i].d.path = p

\* A listing of a set of files has all of them.
LEMMA ListingIsComplete ==
  ASSUME NEW S \in SUBSET Paths, NEW s \in Listings(S), NEW p \in S
  PROVE  \E i \in DOMAIN s : s[i] = p
<1>1. IsFiniteSet(S) /\ Cardinality(S) \in Nat
  BY FS_Subset, FS_CardinalityType
<1>2. IsFiniteSet(1..Cardinality(S)) /\ Cardinality(1..Cardinality(S)) = Cardinality(S)
  <2>1. Cardinality(S) >= 1
    BY <1>1, FS_EmptySet
  <2> QED
    BY <1>1, <2>1, FS_Interval
<1>3. s \in Injection(1..Cardinality(S), S)
  BY DEF Listings, Injection, IsInjective
<1>4. s \in Surjection(1..Cardinality(S), S)
  BY <1>1, <1>2, <1>3, FS_Injection
<1> QED
  BY <1>4 DEF Surjection

\* A write that is over, however it ended, is either reported or an error.
LEMMA WriteOver ==
  ASSUME TypeOK, UndoInv, cmd.todo # <<>>, UNCHANGED snap, Returned \/ Raised
  PROVE  UndoInv'
<1> SUFFICES ASSUME cmd.name = "undo" PROVE UndoInv'
  BY DEF UndoInv, Returned, Raised, TypeOK, Command
<1>1. Now \in Step /\ Tail(cmd.todo) \in Seq(Step)
  BY NowIsStep
<1>2. cmd'.name = cmd.name /\ cmd'.todo = Tail(cmd.todo)
  BY DEF Returned, Raised, TypeOK, Command
<1>3. \A i \in DOMAIN cmd'.todo : cmd'.todo[i] = cmd.todo[i + 1] /\ i + 1 \in DOMAIN cmd.todo
  BY <1>2 DEF TypeOK, Command
<1>4. \A i \in DOMAIN cmd'.todo :
         /\ cmd'.todo[i].d.content # Absent
         /\ cmd'.todo[i].d.content = snap[cmd'.todo[i].d.path]
  BY <1>3 DEF UndoInv
<1>5. CASE Raised
  <2>1. cmd'.errs = "some"
    BY <1>5 DEF Raised, TypeOK, Command
  <2> QED
    BY <1>2, <1>4, <2>1 DEF UndoInv
<1>6. CASE Returned
  <2>1. cmd'.errs = cmd.errs /\ cmd'.memo = [cmd.memo EXCEPT ![Now.d.path] = Now.d.content]
    BY <1>6 DEF Returned, Restoring, TypeOK, Command
  <2>2. cmd'.memo[Now.d.path] = Now.d.content
        /\ \A p \in Paths : p # Now.d.path => cmd'.memo[p] = cmd.memo[p]
    BY <1>1, <2>1 DEF TypeOK, Command, Disks, Step, Decision
  <2>3. Now.d.content = snap[Now.d.path]
    BY DEF UndoInv, Now, TypeOK, Command
  <2>4. ASSUME NEW p \in Paths, p # Now.d.path, NEW i \in DOMAIN cmd.todo, cmd.todo[i].d.path = p
        PROVE  \E j \in DOMAIN cmd'.todo : cmd'.todo[j].d.path = p
    <3>1. i # 1
      BY <2>4 DEF Now
    <3>2. i - 1 \in DOMAIN cmd'.todo
      BY <1>2, <3>1 DEF TypeOK, Command
    <3> QED
      BY <1>3, <2>4, <3>2 DEF TypeOK, Command
  <2>5. cmd'.errs = "none" =>
          \A p \in Paths : snap[p] # Absent =>
              cmd'.memo[p] = snap[p] \/ \E i \in DOMAIN cmd'.todo : cmd'.todo[i].d.path = p
    BY <2>1, <2>2, <2>3, <2>4 DEF UndoInv
  <2> QED
    BY <1>2, <1>4, <2>5 DEF UndoInv
<1> QED
  BY <1>5, <1>6

LEMMA NextUndo == ASSUME TypeOK, UndoInv, [Next]_vars PROVE UndoInv'
<1>1. ASSUME UNCHANGED <<cmd, snap>> PROVE UndoInv'
  BY <1>1 DEF UndoInv
<1>2. ASSUME cmd'.name # "undo" PROVE UndoInv'
  BY <1>2 DEF UndoInv
<1>3. CASE Skip
  <2>1. cmd.name # "undo"
    BY <1>3 DEF Skip, UndoInv, Now, TypeOK, Command
  <2>2. cmd'.name = cmd.name
    BY <1>3 DEF Skip, TypeOK, Command
  <2> QED
    BY <1>2, <2>1, <2>2
<1>4. CASE Begin
  BY <1>1, <1>4, WriteOver DEF Begin
<1>5. CASE Hooks
  <2>1. cmd.todo # <<>>
    BY <1>5 DEF Hooks, TypeOK, NoCall
  <2> QED
    BY <1>1, <1>5, <2>1, WriteOver DEF Hooks
<1>6. CASE Gate
  <2>1. cmd.todo # <<>> /\ UNCHANGED snap
    BY <1>6 DEF Gate, TypeOK, NoCall
  <2>2. UNCHANGED cmd \/ Raised
    BY <1>6 DEF Gate
  <2> QED
    BY <1>1, <2>1, <2>2, WriteOver
<1>7. CASE Capture
  BY <1>1, <1>7 DEF Capture
<1>8. CASE Execute
  <2>1. cmd.todo # <<>> /\ UNCHANGED snap /\ (UNCHANGED cmd \/ Raised)
    BY <1>8 DEF Execute, TypeOK, NoCall
  <2> QED
    BY <1>1, <2>1, WriteOver
<1>9. CASE Record
  <2>1. cmd.todo # <<>>
    BY <1>9 DEF Record, TypeOK, NoCall
  <2> QED
    BY <1>9, <2>1, WriteOver DEF Record
<1>10. CASE Outside
  BY <1>1, <1>10 DEF Outside
<1>11. CASE UNCHANGED vars
  BY <1>1, <1>11 DEF vars
<1>12. CASE Undo
  <2> DEFINE S == {p \in Paths : snap[p] # Absent}
  <2>1. PICK s \in Listings(S) :
          Run("undo", [i \in DOMAIN s |-> Do("write", "code.write_file", s[i], snap[s[i]])],
              Nowhere, 0)
    BY <1>12 DEF Undo
  <2>2. UNCHANGED snap /\ DOMAIN cmd'.todo = DOMAIN s
    BY <1>12, <2>1 DEF Undo, Run
  <2>3. \A i \in DOMAIN s : s[i] \in S
    BY DEF Listings
  <2>4. \A i \in DOMAIN s : cmd'.todo[i].d.path = s[i] /\ cmd'.todo[i].d.content = snap[s[i]]
    BY <2>1 DEF Run, Do
  <2>5. \A p \in S : \E i \in DOMAIN s : s[i] = p
    BY ListingIsComplete
  <2> QED
    BY <2>2, <2>3, <2>4, <2>5 DEF UndoInv
<1>13. CASE Commands /\ ~Undo
  <2>1. ASSUME NEW p \in Paths, NEW c \in Contents, FixAttempt(p, c) \/
               \E rt \in {"write", "bare"} : AgentWrite(rt, p, c)
        PROVE  cmd'.name # "undo"
    BY <2>1 DEF FixAttempt, AgentWrite, Finished, TypeOK, Command
  <2>2. ASSUME NEW m \in UserModes, SetMode(m) PROVE UndoInv'
    BY <1>1, <2>2 DEF SetMode
  <2> QED
    BY <1>2, <1>13, <2>1, <2>2
       DEF Commands, Patch, RunShell, Single, Fix, Rewind, Agent, Run,
           EndSingle, EndFix, EndAgent, EndUndo, EndRewind, Prompt
<1> QED
  BY <1>3, <1>4, <1>5, <1>6, <1>7, <1>8, <1>9, <1>10, <1>11, <1>12, <1>13 DEF Next, Apply

\* Outside plan mode /undo only gives its snapshot up when every file of it is back,
\* or was until somebody else wrote it.
THEOREM SnapshotIsKept == Spec => SnapshotKeptUntilRestored
<1>1. Init => RestoreInv /\ UndoInv
  BY DEF Init, RestoreInv, UndoInv, Restoring, Prompt
<1>2. TypeOK /\ RestoreInv /\ UndoInv /\ [Next]_vars => RestoreInv' /\ UndoInv'
  BY NextRestores, NextUndo
<1>3. ASSUME TypeOK, RestoreInv, UndoInv, [Next]_vars,
             undoable = "yes", undoable' = "no", mode # "plan",
             NEW p \in Paths \ touched, snap[p] # Absent
      PROVE  disk[p] = snap[p]
  <2>1. EndUndo /\ cmd.errs = "none"
    BY <1>3 DEF Next, vars, Apply, Commands, Skip, Begin, Hooks, Gate, Capture, Execute, Record,
                Patch, RunShell, Single, Fix, FixAttempt, Agent, AgentWrite, Undo, Rewind, SetMode,
                EndSingle, EndFix, EndAgent, EndUndo, EndRewind, Outside
  <2>2. cmd.name = "undo" /\ cmd.todo = <<>> /\ ~InFlight(p)
    BY <2>1 DEF EndUndo, Finished, NoCall, InFlight
  <2>3. cmd.memo[p] = snap[p]
    BY <1>3, <2>1, <2>2 DEF UndoInv
  <2> QED
    BY <1>3, <2>2, <2>3 DEF RestoreInv, Restoring
<1>4. TypeOK /\ RestoreInv /\ UndoInv /\ [Next]_vars =>
        [undoable = "yes" /\ undoable' = "no" /\ mode # "plan" =>
           \A p \in Paths \ touched : snap[p] # Absent => disk[p] = snap[p]]_vars
  BY <1>3
<1> QED
  BY <1>1, <1>2, <1>4, InitType, NextType, PTL DEF Spec, SnapshotKeptUntilRestored
-----------------------------------------------------------------------------
(***************************************************************************)
(* The checkpoint ring as a history of workspaces (RuntimeRefinement).     *)
(***************************************************************************)
\* A non-empty set of numbers has a least one, and a bounded one a greatest.
LEMMA LeastExists ==
  ASSUME NEW S \in SUBSET Nat, S # {}
  PROVE  \E n \in S : \A m \in S : n <= m
<1> DEFINE R == {ss \in Nat \X Nat : ss[1] < ss[2]}
<1>1. IsWellFoundedOn(R, Nat)
  BY NatLessThanWellFounded DEF OpToRel
<1>2. PICK n \in S : \A m \in S : ~(<<m, n>> \in R)
  <2> HIDE DEF R
  <2> QED
    BY <1>1, WFMin
<1>3. ASSUME NEW m \in S
      PROVE  n <= m
  <2>1. <<m, n>> \in Nat \X Nat /\ <<m, n>>[1] = m /\ <<m, n>>[2] = n
    OBVIOUS
  <2>2. ~(m < n)
    BY <1>2, <2>1
  <2> QED
    BY <2>2
<1> QED
  BY <1>3

LEMMA GreatestExists ==
  ASSUME NEW n \in Nat, NEW S \in SUBSET (1..n), S # {}
  PROVE  \E m \in S : \A k \in S : k <= m
<1> DEFINE T == {n - k : k \in S}
<1>1. T \in SUBSET Nat /\ T # {}
  <2>1. \A k \in S : n - k \in Nat
    OBVIOUS
  <2>2. PICK k \in S : TRUE
    OBVIOUS
  <2>3. n - k \in T
    BY <2>2
  <2> QED
    BY <2>1, <2>3
<1>2. PICK t \in T : \A u \in T : t <= u
  <2> HIDE DEF T
  <2> QED
    BY <1>1, LeastExists
<1>3. PICK m \in S : t = n - m
  OBVIOUS
<1>4. ASSUME NEW k \in S
      PROVE  k <= m
  <2>1. t <= n - k
    BY <1>2
  <2> QED
    BY <1>3, <2>1
<1> QED
  BY <1>4

\* The entries of p from the i-th on, and p's content at the time of the i-th.
Later(r, i, p) == {j \in i..Len(r) : r[j].path = p}
Version(r, d, i, p) ==
  IF Later(r, i, p) = {} THEN d[p]
  ELSE r[CHOOSE j \in Later(r, i, p) : \A k \in Later(r, i, p) : j <= k].before
Versions(r, d) == [i \in 1..Len(r) |-> [p \in Paths |-> Version(r, d, i, p)]]

\* Entry j is the first one of p from the i-th on.
FirstIs(r, i, p, j) ==
  /\ j \in i..Len(r) /\ r[j].path = p
  /\ \A k \in Later(r, i, p) : j <= k

LEMMA VersionSaved ==
  ASSUME NEW r \in Seq(Entry), NEW d, NEW i \in Nat, NEW p, NEW j \in Nat, FirstIs(r, i, p, j)
  PROVE  Version(r, d, i, p) = r[j].before
<1> DEFINE S == Later(r, i, p)
<1>1. j \in S /\ \A k \in S : j <= k
  BY DEF FirstIs, Later
<1>2. S \subseteq Nat
  BY DEF Later
<1>3. (CHOOSE m \in S : \A k \in S : m <= k) = j
  <2> HIDE DEF S
  <2>1. \A m \in S : (\A k \in S : m <= k) => m = j
    BY <1>1, <1>2
  <2> QED
    BY <1>1, <2>1
<1> QED
  BY <1>1, <1>3 DEF Version

LEMMA VersionNow ==
  ASSUME NEW r, NEW d, NEW i, NEW p, Later(r, i, p) = {}
  PROVE  Version(r, d, i, p) = d[p]
BY DEF Version

LEMMA FirstExists ==
  ASSUME NEW r \in Seq(Entry), NEW i \in Nat, NEW p, Later(r, i, p) # {}
  PROVE  \E j \in Nat : FirstIs(r, i, p, j)
<1>1. Later(r, i, p) \in SUBSET Nat
  BY DEF Later
<1>2. PICK j \in Later(r, i, p) : \A k \in Later(r, i, p) : j <= k
  BY <1>1, LeastExists
<1> QED
  BY <1>1, <1>2 DEF FirstIs, Later

\* An edit: the new entry is the last one, and says what the file held.
LEMMA VersionsOfAppend ==
  ASSUME NEW r \in Seq(Entry), NEW d \in Disks, NEW p \in Paths, NEW c \in Contents
  PROVE  LET s == Append(r, [path |-> p, before |-> d[p]])
             f == [d EXCEPT ![p] = c]
         IN  /\ \A i \in 1..Len(r) : \A q \in Paths : Version(s, f, i, q) = Version(r, d, i, q)
             /\ \A q \in Paths : Version(s, f, Len(r) + 1, q) = d[q]
<1> DEFINE e == [path |-> p, before |-> d[p]]
           s == Append(r, e)
           f == [d EXCEPT ![p] = c]
<1>1. e \in Entry /\ e.path = p /\ e.before = d[p]
  BY DEF Entry, Disks, Content
<1>2. /\ Len(r) \in Nat /\ s \in Seq(Entry) /\ Len(s) = Len(r) + 1 /\ s[Len(r) + 1] = e
      /\ \A i \in 1..Len(r) : s[i] = r[i]
  <2> HIDE DEF e
  <2> QED
    BY <1>1
<1>3. f \in Disks /\ \A q \in Paths : q # p => f[q] = d[q]
  BY DEF Disks, Content
<1> HIDE DEF e, s, f
<1>4. ASSUME NEW i \in 1..Len(s), NEW q \in Paths
      PROVE  /\ Later(r, i, q) # {} => Version(s, f, i, q) = Version(r, d, i, q)
             /\ Later(r, i, q) = {} => Version(s, f, i, q) = d[q]
  <2>0. i \in Nat
    OBVIOUS
  <2>1. CASE Later(r, i, q) # {}
    <3>1. PICK j \in Nat : FirstIs(r, i, q, j)
      BY <2>0, <2>1, FirstExists
    <3>2. s[j] = r[j]
      BY <1>2, <3>1 DEF FirstIs
    <3>3. FirstIs(s, i, q, j)
      <4>1. j \in i..Len(s) /\ s[j].path = q
        BY <1>2, <3>1, <3>2 DEF FirstIs
      <4>2. ASSUME NEW k \in Later(s, i, q)
            PROVE  j <= k
        BY <1>2, <3>1, <4>2 DEF FirstIs, Later
      <4> QED
        BY <4>1, <4>2 DEF FirstIs
    <3>4. Version(r, d, i, q) = r[j].before
      BY <2>0, <3>1, VersionSaved
    <3>5. Version(s, f, i, q) = s[j].before
      BY <1>2, <2>0, <3>3, VersionSaved
    <3> QED
      BY <2>1, <3>2, <3>4, <3>5
  <2>2. CASE Later(r, i, q) = {} /\ q = p
    <3>1. FirstIs(s, i, q, Len(r) + 1)
      <4>1. ASSUME NEW k \in Later(s, i, q)
            PROVE  k = Len(r) + 1
        BY <1>2, <2>0, <2>2, <4>1 DEF Later
      <4> QED
        BY <1>1, <1>2, <2>2, <4>1 DEF FirstIs
    <3>2. Version(s, f, i, q) = s[Len(r) + 1].before
      BY <1>2, <2>0, <3>1, VersionSaved
    <3> QED
      BY <1>1, <1>2, <2>2, <3>2
  <2>3. CASE Later(r, i, q) = {} /\ q # p
    <3>1. Later(s, i, q) = {}
      BY <1>1, <1>2, <2>0, <2>3 DEF Later
    <3> QED
      BY <1>3, <2>3, <3>1, VersionNow
  <2> QED
    BY <2>1, <2>2, <2>3
<1>5. ASSUME NEW q \in Paths
      PROVE  Later(r, Len(r) + 1, q) = {}
  BY <1>2 DEF Later
<1>6. ASSUME NEW i \in 1..Len(r), NEW q \in Paths
      PROVE  Version(s, f, i, q) = Version(r, d, i, q)
  <2>1. i \in 1..Len(s)
    BY <1>2
  <2> QED
    BY <1>4, <2>1, VersionNow
<1>7. ASSUME NEW q \in Paths
      PROVE  Version(s, f, Len(r) + 1, q) = d[q]
  <2>1. Len(r) + 1 \in 1..Len(s)
    BY <1>2
  <2> QED
    BY <1>4, <1>5, <2>1
<1> QED
  BY <1>6, <1>7 DEF s, f, e

\* The oldest entry falls off: every version is one place further on.
LEMMA VersionsOfTail ==
  ASSUME NEW r \in Seq(Entry), r # <<>>, NEW d, NEW i \in 1..Len(r) - 1, NEW q
  PROVE  Version(Tail(r), d, i, q) = Version(r, d, i + 1, q)
<1> DEFINE s == Tail(r)
<1>1. /\ s \in Seq(Entry) /\ Len(r) \in Nat /\ Len(s) = Len(r) - 1 /\ Len(s) \in Nat
      /\ \A k \in 1..Len(s) : s[k] = r[k + 1]
  OBVIOUS
<1>2. i \in Nat /\ i + 1 \in Nat
  OBVIOUS
<1> HIDE DEF s
<1>3. CASE Later(r, i + 1, q) = {}
  <2>1. ASSUME NEW k \in Later(s, i, q)
        PROVE  k + 1 \in Later(r, i + 1, q)
    <3>1. k \in 1..Len(s) /\ s[k] = r[k + 1] /\ k >= i /\ s[k].path = q
      BY <1>1, <1>2, <2>1 DEF Later
    <3> QED
      BY <1>1, <1>2, <3>1 DEF Later
  <2>2. Later(s, i, q) = {}
    BY <1>3, <2>1
  <2> QED
    BY <1>3, <2>2, VersionNow DEF s
<1>4. CASE Later(r, i + 1, q) # {}
  <2>1. PICK j \in Nat : FirstIs(r, i + 1, q, j)
    BY <1>2, <1>4, FirstExists
  <2>2. PICK m \in Nat : m = j - 1
    BY <2>1, <1>2 DEF FirstIs
  <2>3. m \in 1..Len(s) /\ s[m] = r[j]
    <3>1. m \in 1..Len(s) /\ m + 1 = j
      BY <1>1, <2>1, <2>2, <1>2 DEF FirstIs
    <3> QED
      BY <1>1, <3>1
  <2>4. FirstIs(s, i, q, m)
    <3>1. m \in i..Len(s) /\ s[m].path = q
      BY <1>2, <2>1, <2>2, <2>3 DEF FirstIs
    <3>2. ASSUME NEW k \in Later(s, i, q)
          PROVE  m <= k
      <4>1. k \in 1..Len(s) /\ s[k] = r[k + 1] /\ k >= i
        BY <1>1, <1>2, <3>2 DEF Later
      <4>2. k + 1 \in Later(r, i + 1, q)
        BY <1>1, <1>2, <4>1, <3>2 DEF Later
      <4>3. j <= k + 1
        BY <2>1, <4>2 DEF FirstIs
      <4> QED
        BY <2>2, <4>1, <4>3
    <3> QED
      BY <3>1, <3>2 DEF FirstIs
  <2>5. Version(r, d, i + 1, q) = r[j].before
    BY <1>2, <2>1, VersionSaved
  <2>6. Version(s, d, i, q) = s[m].before
    BY <1>1, <1>2, <2>4, VersionSaved
  <2> QED
    BY <2>3, <2>5, <2>6 DEF s
<1> QED
  BY <1>3, <1>4

LEMMA VersionsType ==
  ASSUME NEW r \in Seq(Entry), NEW d \in Disks
  PROVE  /\ Versions(r, d) \in Seq(Disks) /\ Len(Versions(r, d)) = Len(r)
         /\ \A i \in 1..Len(r) : \A p \in Paths : Versions(r, d)[i][p] = Version(r, d, i, p)
<1>1. ASSUME NEW i \in 1..Len(r), NEW p \in Paths
      PROVE  Version(r, d, i, p) \in Content
  <2>1. CASE Later(r, i, p) = {}
    <3>1. Version(r, d, i, p) = d[p]
      BY <2>1, VersionNow
    <3> QED
      BY <3>1 DEF Disks
  <2>2. CASE Later(r, i, p) # {}
    <3>1. PICK j \in Nat : FirstIs(r, i, p, j)
      BY <2>2, FirstExists
    <3>2. Version(r, d, i, p) = r[j].before
      BY <3>1, VersionSaved
    <3>3. r[j] \in Entry
      BY <3>1 DEF FirstIs
    <3> QED
      BY <3>2, <3>3 DEF Entry
  <2> QED
    BY <2>1, <2>2
<1>2. ASSUME NEW i \in 1..Len(r)
      PROVE  [p \in Paths |-> Version(r, d, i, p)] \in Disks
  BY <1>1 DEF Disks
<1>3. Len(r) \in Nat
  OBVIOUS
<1>4. Versions(r, d) \in [1..Len(r) -> Disks]
  BY <1>2 DEF Versions
<1>5. Versions(r, d) \in Seq(Disks) /\ Len(Versions(r, d)) = Len(r)
  BY <1>3, <1>4
<1>6. \A i \in 1..Len(r) : Versions(r, d)[i] = [p \in Paths |-> Version(r, d, i, p)]
  BY DEF Versions
<1> QED
  BY <1>5, <1>6

\* Two histories of workspaces are the same if every version of every file is.
LEMMA SameHistory ==
  ASSUME NEW g \in Seq(Disks), NEW h \in Seq(Disks), Len(g) = Len(h),
         \A i \in 1..Len(g) : \A p \in Paths : g[i][p] = h[i][p]
  PROVE  g = h
<1>1. Len(g) \in Nat /\ g \in [1..Len(g) -> Disks] /\ h \in [1..Len(g) -> Disks]
  OBVIOUS
<1>2. ASSUME NEW i \in 1..Len(g)
      PROVE  g[i] = h[i]
  <2>1. g[i] \in [Paths -> Content] /\ h[i] \in [Paths -> Content]
    BY <1>1 DEF Disks
  <2> QED
    BY <2>1
<1> QED
  BY <1>1, <1>2

LEMMA FullRing ==
  ASSUME NEW r \in Seq(Entry), Len(r) <= RingMax, ~(Len(r) < RingMax)
  PROVE  r # <<>> /\ Len(r) \in Nat \ {0}
<1>1. Len(r) = RingMax /\ r # <<>>
  OBVIOUS
<1> QED
  BY <1>1

\* An edit of a file is remembered: the versions grow by the workspace as it was,
\* and when the ring is full the oldest of them is forgotten.
LEMMA EditIsRemembered ==
  ASSUME NEW r \in Seq(Entry), Len(r) <= RingMax, NEW d \in Disks, NEW p \in Paths, NEW c \in Contents
  PROVE  Versions(Push(r, [path |-> p, before |-> d[p]]), [d EXCEPT ![p] = c])
           = Abstract!Remember(Versions(r, d), d)
<1> DEFINE e == [path |-> p, before |-> d[p]]
           f == [d EXCEPT ![p] = c]
           V == Versions(r, d)
<1>1. e \in Entry /\ f \in Disks
  BY DEF Entry, Disks, Content
<1>2. V \in Seq(Disks) /\ Len(V) = Len(r) /\ Len(r) \in Nat
  BY VersionsType
<1>3. \A i \in 1..Len(r) : \A q \in Paths : V[i][q] = Version(r, d, i, q)
  BY VersionsType
<1>4. CASE Len(r) < RingMax
  <2> DEFINE s == Append(r, e)
             W == Versions(s, f)
  <2>1. s \in Seq(Entry) /\ Len(s) = Len(r) + 1 /\ Push(r, e) = s
    <3> HIDE DEF e
    <3> QED
      BY <1>1, <1>4 DEF Push
  <2>2. /\ W \in Seq(Disks) /\ Len(W) = Len(s)
        /\ \A i \in 1..Len(s) : \A q \in Paths : W[i][q] = Version(s, f, i, q)
    <3> HIDE DEF s, f
    <3> QED
      BY <1>1, <2>1, VersionsType
  <2>3. /\ \A i \in 1..Len(r) : \A q \in Paths : Version(s, f, i, q) = Version(r, d, i, q)
        /\ \A q \in Paths : Version(s, f, Len(r) + 1, q) = d[q]
    BY VersionsOfAppend
  <2> DEFINE A == Append(V, d)
  <2>4. /\ A \in Seq(Disks) /\ Len(A) = Len(r) + 1 /\ A[Len(r) + 1] = d
        /\ \A i \in 1..Len(r) : A[i] = V[i]
    <3> HIDE DEF V
    <3> QED
      BY <1>2
  <2> HIDE DEF V, W, A, s, f
  <2>5. ASSUME NEW i \in 1..Len(W), NEW q \in Paths
        PROVE  W[i][q] = A[i][q]
    <3>1. CASE i \in 1..Len(r)
      BY <1>3, <2>1, <2>2, <2>3, <2>4, <3>1
    <3>2. CASE i = Len(r) + 1
      BY <2>1, <2>2, <2>3, <2>4, <3>2
    <3> QED
      BY <1>2, <2>1, <2>2, <3>1, <3>2
  <2>6. W = A
    BY <2>1, <2>2, <2>4, <2>5, SameHistory
  <2>7. Abstract!Remember(V, d) = A
    BY <1>2, <1>4 DEF Abstract!Remember, A
  <2> QED
    BY <2>1, <2>6, <2>7 DEF W, V, f
<1>5. CASE ~(Len(r) < RingMax)
  <2> DEFINE t == Tail(r)
             s == Append(t, e)
             W == Versions(s, f)
  <2>0. r # <<>> /\ Len(r) \in Nat \ {0}
    BY <1>5, FullRing
  <2>t. t \in Seq(Entry) /\ Len(t) = Len(r) - 1 /\ Len(t) \in Nat
    BY <2>0
  <2>1. s \in Seq(Entry) /\ Len(s) = Len(r) /\ Push(r, e) = s
    <3> HIDE DEF e
    <3>1. Push(r, e) = s
      BY <1>5 DEF Push
    <3> HIDE DEF t
    <3> QED
      BY <1>1, <2>t, <2>0, <3>1
  <2>2. /\ W \in Seq(Disks) /\ Len(W) = Len(s)
        /\ \A i \in 1..Len(s) : \A q \in Paths : W[i][q] = Version(s, f, i, q)
    <3> HIDE DEF s, f
    <3> QED
      BY <1>1, <2>1, VersionsType
  <2>3. /\ \A i \in 1..Len(t) : \A q \in Paths : Version(s, f, i, q) = Version(t, d, i, q)
        /\ \A q \in Paths : Version(s, f, Len(t) + 1, q) = d[q]
    <3> HIDE DEF t
    <3> QED
      BY <2>t, VersionsOfAppend
  <2>4. \A i \in 1..Len(t) : \A q \in Paths : Version(t, d, i, q) = Version(r, d, i + 1, q)
    BY <2>0, <2>t, VersionsOfTail
  <2> DEFINE A == Append(Tail(V), d)
  <2>5. /\ A \in Seq(Disks) /\ Len(A) = Len(r) /\ A[Len(r)] = d
        /\ \A i \in 1..Len(t) : A[i] = V[i + 1]
    <3> DEFINE T == Tail(V)
    <3>1. T \in Seq(Disks) /\ Len(T) = Len(t) /\ \A i \in 1..Len(t) : T[i] = V[i + 1]
      <4> HIDE DEF V
      <4> QED
        BY <1>2, <2>0, <2>t
    <3> HIDE DEF T, t
    <3>2. A = Append(T, d)
      BY DEF T
    <3> HIDE DEF A
    <3> QED
      BY <2>0, <2>t, <3>1, <3>2
  <2> HIDE DEF V, W, A, s, f, t
  <2>6. ASSUME NEW i \in 1..Len(W), NEW q \in Paths
        PROVE  W[i][q] = A[i][q]
    <3>1. CASE i \in 1..Len(t)
      <4>1. W[i][q] = Version(r, d, i + 1, q)
        BY <2>1, <2>2, <2>3, <2>4, <3>1
      <4>2. i + 1 \in 1..Len(r)
        BY <2>t, <2>0, <3>1
      <4> QED
        BY <1>3, <2>5, <3>1, <4>1, <4>2
    <3>2. CASE i = Len(r)
      <4>1. Len(t) + 1 = Len(r)
        BY <2>t, <2>0
      <4> QED
        BY <2>1, <2>2, <2>3, <2>5, <3>2, <4>1
    <3> QED
      BY <2>t, <2>0, <2>1, <2>2, <3>1, <3>2
  <2>7. W = A
    BY <2>1, <2>2, <2>5, <2>6, SameHistory
  <2>8. Abstract!Remember(V, d) = A
    BY <1>2, <1>5 DEF Abstract!Remember, A
  <2> QED
    BY <2>1, <2>7, <2>8 DEF W, V, f
<1> QED
  BY <1>4, <1>5

\* No tool deletes a file: once edited, it is there, whatever is taken back.
NoDeletes(r, d) ==
  \A j \in DOMAIN r : /\ d[r[j].path] # Absent
                      /\ \A m \in Later(r, j + 1, r[j].path) : r[m].before # Absent

\* What is left of p when the entries from the k-th on are restored, newest
\* first, and those of files that did not exist are skipped.
RestoredTo(r, d, k, p, v) ==
  \/ \E j \in Later(r, k, p) : /\ r[j].before # Absent /\ v = r[j].before
                               /\ \A m \in Later(r, k, p) : m < j => r[m].before = Absent
  \/ (\A j \in Later(r, k, p) : r[j].before = Absent) /\ v = d[p]

OldestVersion(h, d, k, p) ==
  LET S == {i \in k..Len(h) : h[i][p] # Absent}
  IN  IF S = {} THEN d[p] ELSE h[CHOOSE i \in S : \A j \in S : i <= j][p]

LEMMA RestoredIsOldest ==
  ASSUME NEW r \in Seq(Entry), NEW d \in Disks, NEW k \in 1..Len(r), NEW p \in Paths, NEW v,
         RestoredTo(r, d, k, p, v)
  PROVE  OldestVersion(Versions(r, d), d, k, p) = v
<1> DEFINE V == Versions(r, d)
           S == {i \in k..Len(V) : V[i][p] # Absent}
<1>1. /\ Len(V) = Len(r) /\ Len(r) \in Nat /\ k \in Nat
      /\ \A i \in 1..Len(r) : V[i][p] = Version(r, d, i, p)
  BY VersionsType
<1> HIDE DEF V
<1>2. S \in SUBSET Nat
  BY <1>1
<1>3. CASE S = {}
  <2>1. OldestVersion(V, d, k, p) = d[p]
    BY <1>3 DEF OldestVersion
  <2>2. ASSUME NEW j \in Later(r, k, p), r[j].before # Absent
        PROVE  FALSE
    <3>1. j \in k..Len(r) /\ j \in Nat /\ FirstIs(r, j, p, j)
      BY <1>1, <2>2 DEF Later, FirstIs
    <3>2. Version(r, d, j, p) = r[j].before
      BY <3>1, VersionSaved
    <3>3. j \in S
      BY <1>1, <2>2, <3>1, <3>2
    <3> QED
      BY <1>3, <3>3
  <2>3. v = d[p]
    BY <2>2 DEF RestoredTo
  <2> QED
    BY <2>1, <2>3 DEF V
<1>4. CASE S # {}
  <2> DEFINE i == CHOOSE a \in S : \A b \in S : a <= b
  <2>1. i \in S /\ \A b \in S : i <= b
    <3>1. \E a \in S : \A b \in S : a <= b
      <4> HIDE DEF S
      <4> QED
        BY <1>2, <1>4, LeastExists
    <3> HIDE DEF S
    <3> QED
      BY <3>1
  <2>2. OldestVersion(V, d, k, p) = V[i][p]
    BY <1>4 DEF OldestVersion
  <2> HIDE DEF i
  <2>3. i \in k..Len(r) /\ i \in Nat /\ i \in 1..Len(r) /\ V[i][p] = Version(r, d, i, p)
        /\ V[i][p] # Absent
    BY <1>1, <2>1
  <2>4. CASE Later(r, i, p) = {}
    <3>1. V[i][p] = d[p]
      BY <2>3, <2>4, VersionNow
    <3>2. ASSUME NEW j \in Later(r, k, p), r[j].before # Absent
          PROVE  FALSE
      <4>1. j \in k..Len(r) /\ j \in Nat /\ FirstIs(r, j, p, j)
        BY <1>1, <3>2 DEF Later, FirstIs
      <4>2. Version(r, d, j, p) = r[j].before
        BY <4>1, VersionSaved
      <4>3. j \in S
        BY <1>1, <3>2, <4>1, <4>2
      <4>4. i <= j
        BY <2>1, <4>3
      <4>5. j \in Later(r, i, p)
        BY <1>1, <2>3, <3>2, <4>1, <4>4 DEF Later
      <4> QED
        BY <2>4, <4>5
    <3>3. v = d[p]
      BY <3>2 DEF RestoredTo
    <3> QED
      BY <2>2, <3>1, <3>3 DEF V
  <2>5. CASE Later(r, i, p) # {}
    <3>1. PICK j \in Nat : FirstIs(r, i, p, j)
      BY <2>3, <2>5, FirstExists
    <3>2. V[i][p] = r[j].before
      BY <2>3, <3>1, VersionSaved
    <3>3. j \in Later(r, k, p) /\ r[j].before # Absent
      BY <1>1, <2>3, <3>1, <3>2 DEF FirstIs, Later
    <3>4. PICK l \in Later(r, k, p) :
            /\ r[l].before # Absent /\ v = r[l].before
            /\ \A m \in Later(r, k, p) : m < l => r[m].before = Absent
      BY <3>3 DEF RestoredTo
    <3>5. l \in k..Len(r) /\ l \in Nat /\ FirstIs(r, l, p, l)
      BY <1>1, <3>4 DEF Later, FirstIs
    <3>6. l \in S
      <4>1. Version(r, d, l, p) = r[l].before
        BY <3>5, VersionSaved
      <4> QED
        BY <1>1, <3>4, <3>5, <4>1
    <3>7. l \in Later(r, i, p)
      BY <1>1, <2>1, <2>3, <3>4, <3>5, <3>6 DEF Later
    <3>8. j <= l
      BY <3>1, <3>7 DEF FirstIs
    <3>9. ~(j < l)
      BY <3>3, <3>4
    <3>10. j = l
      BY <3>1, <3>5, <3>8, <3>9
    <3> QED
      BY <2>2, <3>2, <3>4, <3>10 DEF V
  <2> QED
    BY <2>4, <2>5
<1> QED
  BY <1>3, <1>4

LEMMA PrefixOfRing ==
  ASSUME NEW r \in Seq(Entry), NEW k \in 1..Len(r)
  PROVE  /\ SubSeq(r, 1, k - 1) \in Seq(Entry) /\ Len(SubSeq(r, 1, k - 1)) = k - 1
         /\ \A i \in 1..k-1 : SubSeq(r, 1, k - 1)[i] = r[i]
OBVIOUS

\* Going back: a version older than the k-th stays as it was, unless its file did
\* not exist in the k-th, whose place its oldest content takes.
LEMMA OlderVersions ==
  ASSUME NEW r \in Seq(Entry), NEW d \in Disks, NoDeletes(r, d), NEW k \in 1..Len(r),
         NEW f \in Disks, NEW i \in 1..k-1, NEW p \in Paths, RestoredTo(r, d, k, p, f[p])
  PROVE  Version(SubSeq(r, 1, k - 1), f, i, p)
           = IF Version(r, d, k, p) = Absent THEN f[p] ELSE Version(r, d, i, p)
<1> DEFINE s == SubSeq(r, 1, k - 1)
<1>1. /\ s \in Seq(Entry) /\ Len(s) = k - 1 /\ \A j \in 1..k-1 : s[j] = r[j]
      /\ k \in Nat /\ i \in Nat /\ Len(r) \in Nat
  BY PrefixOfRing
<1> HIDE DEF s
<1>2. CASE Later(s, i, p) = {}
  <2>1. Version(s, f, i, p) = f[p]
    BY <1>2, VersionNow
  <2>2. ASSUME NEW j \in Later(r, i, p)
        PROVE  j \in Later(r, k, p)
    <3>1. j \in i..Len(r) /\ r[j].path = p
      BY <2>2 DEF Later
    <3>2. ~(j \in 1..k-1)
      BY <1>1, <1>2, <3>1 DEF Later
    <3> QED
      BY <1>1, <3>1, <3>2 DEF Later
  <2>3. ASSUME NEW j \in Later(r, k, p)
        PROVE  j \in Later(r, i, p)
    BY <1>1, <2>3 DEF Later
  <2>4. CASE Later(r, k, p) = {}
    <3>1. f[p] = d[p]
      BY <2>4 DEF RestoredTo
    <3>2. Version(r, d, k, p) = d[p] /\ Version(r, d, i, p) = d[p]
      BY <2>2, <2>4, VersionNow
    <3> QED
      BY <2>1, <3>1, <3>2 DEF s
  <2>5. CASE Later(r, k, p) # {}
    <3>1. PICK j \in Nat : FirstIs(r, k, p, j)
      BY <1>1, <2>5, FirstExists
    <3>2. FirstIs(r, i, p, j)
      BY <1>1, <2>2, <3>1 DEF FirstIs
    <3>3. Version(r, d, k, p) = r[j].before /\ Version(r, d, i, p) = r[j].before
      BY <1>1, <3>1, <3>2, VersionSaved
    <3>4. ASSUME r[j].before # Absent
          PROVE  f[p] = r[j].before
      <4>1. j \in Later(r, k, p)
        BY <3>1 DEF FirstIs, Later
      <4>2. PICK l \in Later(r, k, p) :
              /\ f[p] = r[l].before
              /\ \A m \in Later(r, k, p) : m < l => r[m].before = Absent
        BY <3>4, <4>1 DEF RestoredTo
      <4>3. j <= l /\ ~(j < l)
        BY <3>1, <3>4, <4>1, <4>2 DEF FirstIs
      <4>4. l \in Nat
        BY <1>1, <4>2 DEF Later
      <4>5. j = l
        BY <3>1, <4>3, <4>4
      <4> QED
        BY <4>2, <4>5
    <3> QED
      BY <2>1, <3>3, <3>4 DEF s
  <2> QED
    BY <2>4, <2>5
<1>3. CASE Later(s, i, p) # {}
  <2>1. PICK j \in Nat : FirstIs(s, i, p, j)
    BY <1>1, <1>3, FirstExists
  <2>2. j \in i..k-1 /\ j \in 1..Len(r) /\ s[j] = r[j] /\ r[j].path = p
    BY <1>1, <2>1 DEF FirstIs
  <2>3. FirstIs(r, i, p, j)
    <3>1. ASSUME NEW m \in Later(r, i, p)
          PROVE  j <= m
      <4>1. m \in i..Len(r) /\ r[m].path = p
        BY <3>1 DEF Later
      <4>2. CASE m <= k - 1
        <5>1. m \in Later(s, i, p)
          BY <1>1, <4>1, <4>2 DEF Later
        <5> QED
          BY <2>1, <5>1 DEF FirstIs
      <4>3. CASE ~(m <= k - 1)
        BY <1>1, <2>2, <4>1, <4>3
      <4> QED
        BY <4>2, <4>3
    <3> QED
      BY <1>1, <2>2, <3>1 DEF FirstIs
  <2>4. Version(s, f, i, p) = s[j].before /\ Version(r, d, i, p) = r[j].before
    BY <1>1, <2>1, <2>3, VersionSaved
  <2>5. Version(r, d, k, p) # Absent
    <3>1. /\ d[p] # Absent
          /\ \A m \in Later(r, j + 1, p) : r[m].before # Absent
      BY <1>1, <2>2 DEF NoDeletes
    <3>2. CASE Later(r, k, p) = {}
      BY <3>1, <3>2, VersionNow
    <3>3. CASE Later(r, k, p) # {}
      <4>1. PICK m \in Nat : FirstIs(r, k, p, m)
        BY <1>1, <3>3, FirstExists
      <4>2. m \in Later(r, j + 1, p)
        BY <1>1, <2>2, <4>1 DEF FirstIs, Later
      <4>3. Version(r, d, k, p) = r[m].before
        BY <1>1, <4>1, VersionSaved
      <4> QED
        BY <3>1, <4>2, <4>3
    <3> QED
      BY <3>2, <3>3
  <2> QED
    BY <2>2, <2>4, <2>5 DEF s
<1> QED
  BY <1>2, <1>3

\* What an edit and going back do to NoDeletes.
LEMMA EditDeletesNothing ==
  ASSUME NEW r \in Seq(Entry), Len(r) <= RingMax, NEW d \in Disks, NoDeletes(r, d),
         NEW p \in Paths, NEW c \in Contents
  PROVE  NoDeletes(Push(r, [path |-> p, before |-> d[p]]), [d EXCEPT ![p] = c])
<1> DEFINE e == [path |-> p, before |-> d[p]]
           f == [d EXCEPT ![p] = c]
<1>1. e \in Entry /\ e.path = p /\ e.before = d[p]
  BY DEF Entry, Disks, Content
<1>2. f[p] # Absent /\ \A q \in Paths : d[q] # Absent => f[q] # Absent
  <2>1. c # Absent
    OBVIOUS
  <2>2. f[p] = c /\ \A q \in Paths : q # p => f[q] = d[q]
    BY DEF Disks
  <2> QED
    BY <2>1, <2>2
<1> HIDE DEF e, f
<1>3. ASSUME NEW t \in Seq(Entry), NoDeletes(t, d)
      PROVE  NoDeletes(Append(t, e), f)
  <2> DEFINE s == Append(t, e)
  <2>1. /\ Len(t) \in Nat /\ s \in Seq(Entry) /\ Len(s) = Len(t) + 1 /\ s[Len(t) + 1] = e
        /\ \A i \in 1..Len(t) : s[i] = t[i] /\ t[i] \in Entry
    BY <1>1
  <2> HIDE DEF s
  <2>2. ASSUME NEW j \in 1..Len(t)
        PROVE  /\ f[s[j].path] # Absent
               /\ \A m \in Later(s, j + 1, s[j].path) : s[m].before # Absent
    <3>1. /\ s[j] = t[j] /\ t[j].path \in Paths /\ d[t[j].path] # Absent
          /\ \A m \in Later(t, j + 1, t[j].path) : t[m].before # Absent
      BY <1>3, <2>1 DEF NoDeletes, Entry
    <3>2. ASSUME NEW m \in Later(s, j + 1, s[j].path)
          PROVE  s[m].before # Absent
      <4>1. m \in j+1..Len(s) /\ s[m].path = s[j].path
        BY <3>2 DEF Later
      <4>2. CASE m \in 1..Len(t)
        <5>1. m \in Later(t, j + 1, t[j].path)
          BY <2>1, <3>1, <4>1, <4>2 DEF Later
        <5> QED
          BY <2>1, <3>1, <4>2, <5>1
      <4>3. CASE m = Len(t) + 1
        BY <1>1, <2>1, <3>1, <4>1, <4>3
      <4>4. m \in 1..Len(t) \/ m = Len(t) + 1
        BY <2>1, <4>1
      <4> QED
        BY <4>2, <4>3, <4>4
    <3> QED
      BY <1>2, <3>1, <3>2
  <2>3. ASSUME NEW j, j = Len(t) + 1
        PROVE  /\ f[s[j].path] # Absent
               /\ \A m \in Later(s, j + 1, s[j].path) : s[m].before # Absent
    BY <1>1, <1>2, <2>1, <2>3 DEF Later
  <2>4. ASSUME NEW j \in DOMAIN s
        PROVE  j \in 1..Len(t) \/ j = Len(t) + 1
    BY <2>1
  <2> QED
    BY <2>2, <2>3, <2>4 DEF NoDeletes, s
<1>4. CASE Len(r) < RingMax
  BY <1>3, <1>4 DEF Push, e, f
<1>5. CASE ~(Len(r) < RingMax)
  <2> DEFINE t == Tail(r)
  <2>1. r # <<>> /\ Len(r) \in Nat \ {0}
    BY <1>5, FullRing
  <2>2. /\ t \in Seq(Entry) /\ Len(t) = Len(r) - 1 /\ Len(t) \in Nat
        /\ \A i \in 1..Len(t) : t[i] = r[i + 1]
    BY <2>1
  <2> HIDE DEF t
  <2>3. ASSUME NEW j \in DOMAIN t
        PROVE  /\ d[t[j].path] # Absent
               /\ \A m \in Later(t, j + 1, t[j].path) : t[m].before # Absent
    <3>1. j \in 1..Len(t) /\ j + 1 \in DOMAIN r /\ t[j] = r[j + 1]
      BY <2>1, <2>2
    <3>2. /\ d[r[j + 1].path] # Absent
          /\ \A m \in Later(r, (j + 1) + 1, r[j + 1].path) : r[m].before # Absent
      BY <3>1 DEF NoDeletes
    <3>3. ASSUME NEW m \in Later(t, j + 1, t[j].path)
          PROVE  t[m].before # Absent
      <4>1. m \in 1..Len(t) /\ m >= j + 1 /\ t[m] = r[m + 1] /\ t[m].path = t[j].path
        BY <2>2, <3>1, <3>3 DEF Later
      <4>2. m + 1 \in Later(r, (j + 1) + 1, r[j + 1].path)
        BY <2>2, <2>1, <3>1, <4>1 DEF Later
      <4> QED
        BY <3>2, <4>1, <4>2
    <3> QED
      BY <3>1, <3>2, <3>3
  <2>4. NoDeletes(t, d)
    BY <2>3 DEF NoDeletes
  <2> QED
    BY <1>3, <1>5, <2>2, <2>4 DEF Push, e, f, t
<1> QED
  BY <1>4, <1>5

LEMMA GoingBackDeletesNothing ==
  ASSUME NEW r \in Seq(Entry), NEW d, NoDeletes(r, d), NEW k \in 1..Len(r), NEW f,
         \A p \in Paths : RestoredTo(r, d, k, p, f[p])
  PROVE  NoDeletes(SubSeq(r, 1, k - 1), f)
<1> DEFINE s == SubSeq(r, 1, k - 1)
<1>1. /\ s \in Seq(Entry) /\ Len(s) = k - 1 /\ \A j \in 1..k-1 : s[j] = r[j]
      /\ k \in Nat /\ Len(r) \in Nat
  BY PrefixOfRing
<1> HIDE DEF s
<1>2. ASSUME NEW j \in DOMAIN s
      PROVE  /\ f[s[j].path] # Absent
             /\ \A m \in Later(s, j + 1, s[j].path) : s[m].before # Absent
  <2>1. j \in 1..k-1 /\ j \in 1..Len(r) /\ s[j] = r[j] /\ r[j].path \in Paths
    <3>1. j \in 1..k-1 /\ j \in 1..Len(r) /\ s[j] = r[j]
      BY <1>1
    <3>2. r[j] \in Entry
      BY <3>1
    <3> QED
      BY <3>1, <3>2 DEF Entry
  <2>2. /\ d[r[j].path] # Absent
        /\ \A m \in Later(r, j + 1, r[j].path) : r[m].before # Absent
    BY <2>1 DEF NoDeletes
  <2>3. f[r[j].path] # Absent
    BY <2>1, <2>2 DEF RestoredTo
  <2>4. ASSUME NEW m \in Later(s, j + 1, s[j].path)
        PROVE  s[m].before # Absent
    <3>1. m \in 1..k-1 /\ m >= j + 1 /\ s[m] = r[m] /\ s[m].path = s[j].path
      BY <1>1, <2>1, <2>4 DEF Later
    <3>2. m \in Later(r, j + 1, r[j].path)
      BY <1>1, <2>1, <3>1 DEF Later
    <3> QED
      BY <2>2, <3>1, <3>2
  <2> QED
    BY <2>1, <2>3, <2>4
<1> QED
  BY <1>2 DEF NoDeletes, s

\* What a file will hold once the restores t are done: what the last of them that
\* is not skipped writes.
Restores(t, p) == {i \in DOMAIN t : t[i].d.path = p /\ t[i].d.content # Absent}
Target(t, d, p) ==
  IF Restores(t, p) = {} THEN d[p]
  ELSE t[CHOOSE i \in Restores(t, p) : \A j \in Restores(t, p) : j <= i].d.content

LastIs(t, p, i) == i \in Restores(t, p) /\ \A j \in Restores(t, p) : j <= i

LEMMA TargetIsLast ==
  ASSUME NEW t \in Seq(Step), NEW d, NEW p, NEW i, LastIs(t, p, i)
  PROVE  Target(t, d, p) = t[i].d.content
<1> DEFINE S == Restores(t, p)
<1>1. i \in S /\ (\A j \in S : j <= i) /\ S \subseteq Nat
  BY DEF LastIs, Restores
<1>2. (CHOOSE m \in S : \A j \in S : j <= m) = i
  <2> HIDE DEF S
  <2>1. \A m \in S : (\A j \in S : j <= m) => m = i
    BY <1>1
  <2> QED
    BY <1>1, <2>1
<1> QED
  BY <1>1, <1>2 DEF Target

LEMMA LastExists ==
  ASSUME NEW t \in Seq(Step), NEW p, Restores(t, p) # {}
  PROVE  \E i : LastIs(t, p, i)
<1>1. Len(t) \in Nat /\ Restores(t, p) \in SUBSET (1..Len(t))
  BY DEF Restores
<1> QED
  BY <1>1, GreatestExists DEF LastIs

\* A restore that is done, or skipped, changes nothing of what is to come.
LEMMA PoppedTarget ==
  ASSUME NEW t \in Seq(Step), t # <<>>, NEW d, NEW p,
         Head(t).d.content = Absent \/ d[Head(t).d.path] = Head(t).d.content
  PROVE  Target(Tail(t), d, p) = Target(t, d, p)
<1> DEFINE s == Tail(t)
<1>1. /\ s \in Seq(Step) /\ Len(t) \in Nat /\ Len(s) = Len(t) - 1 /\ Len(s) \in Nat
      /\ DOMAIN s = 1..Len(s) /\ DOMAIN t = 1..Len(t)
      /\ \A k \in 1..Len(s) : s[k] = t[k + 1]
  OBVIOUS
<1>2. Head(t) = t[1]
  OBVIOUS
<1> HIDE DEF s
<1>3. ASSUME NEW i \in Restores(s, p)
      PROVE  i + 1 \in Restores(t, p)
  BY <1>1, <1>3 DEF Restores
<1>4. ASSUME NEW i \in Restores(t, p), i # 1
      PROVE  i - 1 \in Restores(s, p) /\ i \in Nat
  <2>1. i \in 1..Len(t) /\ i - 1 \in 1..Len(s) /\ (i - 1) + 1 = i
    BY <1>1, <1>4 DEF Restores
  <2>2. s[i - 1] = t[i]
    BY <1>1, <2>1
  <2> QED
    BY <1>1, <1>4, <2>1, <2>2 DEF Restores
<1>5. CASE Restores(s, p) # {}
  <2>1. PICK i : LastIs(s, p, i)
    BY <1>1, <1>5, LastExists
  <2>2. i \in 1..Len(s) /\ s[i] = t[i + 1]
    BY <1>1, <2>1 DEF LastIs, Restores
  <2>3. ASSUME NEW j \in Restores(t, p)
        PROVE  j <= i + 1
    <3>1. CASE j = 1
      BY <2>2, <3>1
    <3>2. CASE j # 1
      <4>1. j - 1 <= i /\ j \in Nat
        BY <1>4, <2>1, <3>2 DEF LastIs
      <4> QED
        BY <2>2, <4>1
    <3> QED
      BY <3>1, <3>2
  <2>4. LastIs(t, p, i + 1)
    BY <1>3, <2>1, <2>3 DEF LastIs
  <2>5. Target(t, d, p) = t[i + 1].d.content
    BY <2>4, TargetIsLast
  <2>6. Target(s, d, p) = s[i].d.content
    BY <1>1, <2>1, TargetIsLast
  <2> QED
    BY <2>2, <2>5, <2>6 DEF s
<1>6. CASE Restores(s, p) = {}
  <2>1. Target(s, d, p) = d[p]
    BY <1>6 DEF Target
  <2>2. CASE 1 \in Restores(t, p)
    <3>1. LastIs(t, p, 1)
      BY <1>4, <1>6, <2>2 DEF LastIs
    <3>2. Target(t, d, p) = t[1].d.content
      BY <3>1, TargetIsLast
    <3> QED
      BY <1>2, <2>1, <2>2, <3>2 DEF Restores, s
  <2>3. CASE 1 \notin Restores(t, p)
    <3>1. Restores(t, p) = {}
      BY <1>4, <1>6, <2>3
    <3> QED
      BY <2>1, <3>1 DEF Target, s
  <2> QED
    BY <2>2, <2>3
<1> QED
  BY <1>5, <1>6

LEMMA WrittenTarget ==
  ASSUME NEW t \in Seq(Step), t # <<>>, Head(t).d.content # Absent, NEW d \in Disks, NEW p \in Paths
  PROVE  Target(t, [d EXCEPT ![Head(t).d.path] = Head(t).d.content], p) = Target(t, d, p)
<1> DEFINE q == Head(t).d.path
           f == [d EXCEPT ![q] = Head(t).d.content]
<1>1. CASE Restores(t, p) = {}
  <2>1. 1 \in DOMAIN t /\ Head(t) = t[1]
    OBVIOUS
  <2>2. p # q
    BY <1>1, <2>1 DEF Restores
  <2>3. f[p] = d[p]
    BY <2>2 DEF Disks
  <2>4. Target(t, f, p) = f[p] /\ Target(t, d, p) = d[p]
    BY <1>1 DEF Target
  <2> QED
    BY <2>3, <2>4
<1>2. CASE Restores(t, p) # {}
  BY <1>2 DEF Target
<1> QED
  BY <1>1, <1>2

\* /rewind n restores what is left of every file from the n-th last entry on.
LEMMA RewindTarget ==
  ASSUME NEW r \in Seq(Entry), NEW n \in 1..Len(r), NEW d, NEW p, NEW t \in Seq(Step), Len(t) = n,
         \A i \in 1..n : /\ t[i].d.path = r[Len(r) + 1 - i].path
                         /\ t[i].d.content = r[Len(r) + 1 - i].before
  PROVE  RestoredTo(r, d, Len(r) + 1 - n, p, Target(t, d, p))
<1>1. PICK k : k = Len(r) + 1 - n
  OBVIOUS
<1>2. Len(r) \in Nat /\ n \in Nat /\ k \in 1..Len(r) /\ k \in Nat /\ DOMAIN t = 1..n
  BY <1>1
<1>3. ASSUME NEW j \in Later(r, k, p), r[j].before # Absent
      PROVE  Len(r) + 1 - j \in Restores(t, p)
  <2>1. PICK i : i = Len(r) + 1 - j
    OBVIOUS
  <2>2. j \in k..Len(r) /\ r[j].path = p
    BY <1>3 DEF Later
  <2>3. i \in 1..n /\ Len(r) + 1 - i = j
    BY <1>1, <1>2, <2>1, <2>2
  <2>4. t[i].d.path = r[j].path /\ t[i].d.content = r[j].before
    BY <2>3
  <2> QED
    BY <1>2, <1>3, <2>1, <2>2, <2>3, <2>4 DEF Restores
<1>4. CASE Restores(t, p) = {}
  <2>1. Target(t, d, p) = d[p]
    BY <1>4 DEF Target
  <2>2. \A j \in Later(r, k, p) : r[j].before = Absent
    BY <1>3, <1>4
  <2> QED
    BY <1>1, <2>1, <2>2 DEF RestoredTo
<1>5. CASE Restores(t, p) # {}
  <2>1. PICK i : LastIs(t, p, i)
    BY <1>5, LastExists
  <2>2. PICK j : j = Len(r) + 1 - i
    OBVIOUS
  <2>3. i \in 1..n /\ j \in k..Len(r) /\ i = Len(r) + 1 - j
    BY <1>1, <1>2, <2>1, <2>2 DEF LastIs, Restores
  <2>4. t[i].d.path = r[j].path /\ t[i].d.content = r[j].before
    BY <2>2, <2>3
  <2>5. j \in Later(r, k, p) /\ r[j].before # Absent
    BY <2>1, <2>3, <2>4 DEF LastIs, Restores, Later
  <2>6. Target(t, d, p) = r[j].before
    BY <2>1, <2>4, TargetIsLast
  <2>7. ASSUME NEW m \in Later(r, k, p), m < j, r[m].before # Absent
        PROVE  FALSE
    <3>1. Len(r) + 1 - m <= i
      BY <1>3, <2>1, <2>7 DEF LastIs
    <3>2. m \in k..Len(r)
      BY <2>7 DEF Later
    <3> QED
      BY <1>2, <2>3, <2>7, <3>1, <3>2
  <2> QED
    BY <1>1, <2>5, <2>6, <2>7 DEF RestoredTo
<1> QED
  BY <1>4, <1>5

\* What the mapping says, by the running command; in the next state too.
DocOf(name, t, d) == [p \in Paths |-> IF name = "rewind" THEN Target(t, d, p) ELSE d[p]]

WrittenLast(S, t, d, p) ==
  IF S = {} THEN d[p] ELSE t[CHOOSE i \in S : \A j \in S : j <= i].d.content

LEMMA GreatestTarget ==
  ASSUME NEW t \in Seq(Step), NEW d, NEW p, NEW S, S = Restores(t, p)
  PROVE  WrittenLast(S, t, d, p) = Target(t, d, p)
<1> USE DEF WrittenLast
<1>1. CASE S = {}
  BY <1>1 DEF Target
<1>2. CASE S # {}
  <2>1. PICK i : LastIs(t, p, i)
    BY <1>2, LastExists
  <2>2. i \in S /\ (\A j \in S : j <= i) /\ S \subseteq Nat
    BY <2>1 DEF LastIs, Restores
  <2>3. \A m \in S : (\A j \in S : j <= m) => m = i
    BY <2>2
  <2>4. (CHOOSE m \in S : \A j \in S : j <= m) = i
    BY <2>2, <2>3
  <2>5. Target(t, d, p) = t[i].d.content
    BY <2>1, TargetIsLast
  <2> QED
    BY <1>2, <2>4, <2>5
<1> QED
  BY <1>1, <1>2

LEMMA DocBarIs ==
  ASSUME TypeOK, TypeOK'
  PROVE  /\ DocBar = DocOf(cmd.name, cmd.todo, disk)
         /\ DocBar' = DocOf(cmd'.name, cmd'.todo, disk')
<1>0. cmd.todo \in Seq(Step) /\ cmd'.todo \in Seq(Step)
  BY DEF TypeOK, Command
<1>1. \A p \in Paths : /\ cmd.name = "rewind" => Pending(p) = Restores(cmd.todo, p)
                       /\ cmd.name # "rewind" => Pending(p) = {}
  BY DEF Pending, Restores
<1>2. \A p \in Paths : /\ cmd'.name = "rewind" => Pending(p)' = Restores(cmd'.todo, p)
                       /\ cmd'.name # "rewind" => Pending(p)' = {}
  BY DEF Pending, Restores
<1>3. ASSUME NEW p \in Paths
      PROVE  WrittenLast(Pending(p), cmd.todo, disk, p)
               = (IF cmd.name = "rewind" THEN Target(cmd.todo, disk, p) ELSE disk[p])
  <2>1. CASE cmd.name = "rewind"
    BY <1>0, <1>1, <2>1, GreatestTarget
  <2>2. CASE cmd.name # "rewind"
    BY <1>1, <2>2 DEF WrittenLast
  <2> QED
    BY <2>1, <2>2
<1>4. ASSUME NEW p \in Paths
      PROVE  WrittenLast(Pending(p)', cmd'.todo, disk', p)
               = (IF cmd'.name = "rewind" THEN Target(cmd'.todo, disk', p) ELSE disk'[p])
  <2>1. CASE cmd'.name = "rewind"
    BY <1>0, <1>2, <2>1, GreatestTarget
  <2>2. CASE cmd'.name # "rewind"
    BY <1>2, <2>2 DEF WrittenLast
  <2> QED
    BY <2>1, <2>2
<1>5. DocBar = DocOf(cmd.name, cmd.todo, disk)
  BY <1>3, Zenon DEF DocBar, DocOf, WrittenLast
<1>6. DocBar' = DocOf(cmd'.name, cmd'.todo, disk')
  BY <1>4, Zenon DEF DocBar, DocOf, WrittenLast
<1> QED
  BY <1>5, <1>6

LEMMA DocOfPresent ==
  ASSUME NEW name, NEW t, NEW d \in Disks, name # "rewind" \/ t = <<>>
  PROVE  DocOf(name, t, d) = d
<1>1. t = <<>> => \A p \in Paths : Target(t, d, p) = d[p]
  BY DEF Target, Restores
<1> QED
  BY <1>1 DEF DocOf, Disks

LEMMA RingBarIs ==
  /\ cmd.name = "rewind" => RingBar = SubSeq(ring, 1, Len(ring) - cmd.n)
  /\ cmd.name # "rewind" /\ ~(call.stage = "record" /\ Checkpointed) => RingBar = ring
  /\ cmd.name # "rewind" /\ call.stage = "record" /\ Checkpointed => RingBar = Push(ring, NewEntry)
  /\ cmd'.name = "rewind" => RingBar' = SubSeq(ring', 1, Len(ring') - cmd'.n)
  /\ cmd'.name # "rewind" /\ call'.stage # "record" => RingBar' = ring'
  /\ cmd'.name # "rewind" /\ call'.stage = "record" /\ Checkpointed' => RingBar' = Push(ring', NewEntry')
BY DEF RingBar

\* A session of /patch and /rewind, in which nothing stops a restore.
PatchesAndRewinds ==
  /\ Inputs \subseteq {"patch", "rewind"}
  /\ HookKinds = {} /\ Unsafe = {}
  /\ \A table \in RuleTables : table["code.write_file"] = "allow"

\* Whose commands keep to their Decisions, and whose calls to what they captured.
InSession ==
  /\ mode = "default" /\ rules["code.write_file"] = "allow"
  /\ cmd.name \in {"prompt", "single", "rewind"}
  /\ cmd.name = "prompt" => cmd.todo = <<>>
  /\ cmd.name = "single" /\ cmd.todo # <<>> =>
       /\ Now.rt = "primary" /\ Now.d.type = "code.apply_patch" /\ Now.d.content \in Contents
       /\ Tail(cmd.todo) = <<>>
  /\ cmd.name = "rewind" =>
       /\ cmd.n \in 1..Len(ring)
       /\ \A i \in DOMAIN cmd.todo : cmd.todo[i].rt = "write" /\ cmd.todo[i].d.type = "code.write_file"
  /\ call # NoCall => Now.d.content # Absent
  /\ call.stage = "execute" => call.before = disk[Now.d.path]
  /\ call.stage = "record" => disk[Now.d.path] = Now.d.content

\* What a step of the session is to the history of workspaces.
Edits(p, c) ==
  /\ RingBar' = Push(RingBar, [path |-> p, before |-> DocBar[p]])
  /\ DocBar' = [DocBar EXCEPT ![p] = c]
GoesBack(n) ==
  /\ RingBar' = SubSeq(RingBar, 1, Len(RingBar) - n)
  /\ \A p \in Paths : RestoredTo(RingBar, DocBar, Len(RingBar) + 1 - n, p, DocBar'[p])
Stays == UNCHANGED <<RingBar, DocBar>>
Moves ==
  \/ Stays
  \/ \E p \in Paths, c \in Contents : Edits(p, c)
  \/ \E n \in 1..Len(RingBar) : GoesBack(n)

LEMMA CallHasStep ==
  ASSUME TypeOK, InSession, cmd.todo # <<>>
  PROVE  /\ Now \in Step /\ Now.d.path \in Paths
         /\ cmd.todo \in Seq(Step) /\ Now = cmd.todo[1]
         /\ Tail(cmd.todo) \in Seq(Step) /\ cmd.name \in {"single", "rewind"}
         /\ cmd.name = "rewind" => Now.rt = "write" /\ Now.d.type = "code.write_file"
<1>1. cmd.todo \in Seq(Step)
  BY DEF TypeOK, Command
<1>2. 1 \in DOMAIN cmd.todo /\ Now = cmd.todo[1] /\ Now \in Step /\ Tail(cmd.todo) \in Seq(Step)
  BY <1>1 DEF Now
<1>3. Now.d.path \in Paths
  BY <1>2 DEF Step, Decision
<1> QED
  BY <1>1, <1>2, <1>3 DEF InSession

\* A command that goes on to its next Decision keeps to the rest of them.
LEMMA NextDecision ==
  ASSUME TypeOK, InSession, cmd.todo # <<>>, cmd'.todo = Tail(cmd.todo), cmd'.name = cmd.name,
         cmd'.n = cmd.n, Len(ring') >= Len(ring), Len(ring') \in Nat, call' = NoCall,
         mode' = mode, rules' = rules
  PROVE  InSession'
<1>1. call'.stage = "none"
  BY DEF NoCall
<1>2. CASE cmd.name = "single"
  <2>1. cmd'.todo = <<>>
    BY <1>2 DEF InSession
  <2> QED
    BY <1>1, <1>2, <2>1 DEF InSession
<1>3. CASE cmd.name = "rewind"
  <2>1. cmd.todo \in Seq(Step)
    BY CallHasStep
  <2>2. /\ DOMAIN cmd.todo = 1..Len(cmd.todo) /\ Len(cmd.todo) \in Nat
        /\ \A i \in DOMAIN Tail(cmd.todo) : /\ i + 1 \in DOMAIN cmd.todo
                                            /\ Tail(cmd.todo)[i] = cmd.todo[i + 1]
    BY <2>1
  <2>3. \A i \in DOMAIN cmd'.todo : cmd'.todo[i].rt = "write" /\ cmd'.todo[i].d.type = "code.write_file"
    BY <1>3, <2>2 DEF InSession
  <2>4. cmd'.n \in 1..Len(ring')
    BY <1>3 DEF InSession, TypeOK
  <2> QED
    BY <1>1, <1>3, <2>3, <2>4 DEF InSession
<1> QED
  BY <1>2, <1>3, CallHasStep

LEMMA PoppedCommand ==
  ASSUME TypeOK, cmd.todo # <<>>,
         Returned \/ (Raised /\ cmd.name # "fix") \/ cmd' = [cmd EXCEPT !.todo = Tail(@)]
  PROVE  cmd'.todo = Tail(cmd.todo) /\ cmd'.name = cmd.name /\ cmd'.n = cmd.n
<1>1. cmd \in Command
  BY DEF TypeOK
<1> QED
  BY <1>1 DEF Command, Returned, Raised

\* Nothing in such a session starts another command or lets the world write.
LEMMA OnlyPatchesAndRewinds ==
  ASSUME TypeOK, InSession, PatchesAndRewinds, Next
  PROVE  \/ Apply
         \/ \E p \in Paths, c \in Contents : Patch(p, c)
         \/ \E n \in 1..RingMax : Rewind(n)
         \/ EndSingle \/ EndRewind
<1>1. ~Outside /\ ~Agent /\ ~Undo /\ ~EndFix /\ ~EndAgent /\ ~EndUndo
  BY DEF PatchesAndRewinds, InSession, Outside, Agent, Undo, EndFix, EndAgent, EndUndo, Finished
<1>2. \A p \in Paths, c \in Contents :
        /\ ~FixAttempt(p, c) /\ ~Fix(p)
        /\ \A rt \in Runtimes : ~RunShell(rt, p, c) /\ ~AgentWrite(rt, p, c)
  BY DEF PatchesAndRewinds, InSession, FixAttempt, Fix, RunShell, AgentWrite, Finished
<1>3. \A p \in Paths : ~Fix(p)
  BY DEF PatchesAndRewinds, Fix
<1>4. \A m \in UserModes : ~SetMode(m)
  BY DEF PatchesAndRewinds, SetMode
<1>5. {"primary", "subagent", "write", "bare"} \subseteq Runtimes
  BY DEF Runtimes
<1> QED
  BY <1>1, <1>2, <1>3, <1>4, <1>5 DEF Next, Commands

\* Skip, Begin, Hooks, Gate and Capture decide; none of them moves the history.
LEMMA DecidingSteps ==
  ASSUME TypeOK, TypeOK', InSession, PatchesAndRewinds, Skip \/ Begin \/ Hooks \/ Gate \/ Capture
  PROVE  InSession' /\ Stays
<1>0. cmd.todo # <<>> /\ UNCHANGED <<disk, ring, mode, rules>> /\ call.stage \notin {"execute", "record"}
  BY DEF Skip, Begin, Hooks, Gate, Capture, HookEffect, PatchesAndRewinds, TypeOK, NoCall
<1>1. /\ Now \in Step /\ Now.d.path \in Paths /\ Now.d.type \in WriteTypes
      /\ cmd.todo \in Seq(Step) /\ cmd.name \in {"single", "rewind"}
      /\ cmd.name = "rewind" => Now.rt = "write" /\ Now.d.type = "code.write_file"
  BY <1>0, CallHasStep DEF InSession, WriteTypes
<1>c. \/ call' \in {call, NoCall}
      \/ \E s \in {"hooks", "gate", "capture"} : call' = [call EXCEPT !.stage = s]
      \/ call' = [call EXCEPT !.stage = "execute", !.before = disk[Now.d.path]]
  BY DEF Skip, Begin, Hooks, Gate, Capture
<1>2. call'.stage # "record" /\ (call'.stage = "execute" => call'.before = disk[Now.d.path])
  <2>1. call \in Call /\ NoCall.stage = "none"
    BY DEF TypeOK, NoCall
  <2> QED
    BY <1>0, <1>c, <2>1 DEF Call
<1>3. CASE UNCHANGED cmd
  <2>1. Stays
    BY <1>0, <1>2, <1>3, DocBarIs, RingBarIs DEF Stays
  <2>2. Now' = Now /\ (call # NoCall \/ (Begin /\ Now.d.content # Absent))
    BY <1>3, <1>0 DEF Now, Skip, Begin, Hooks, Gate, Capture, NoCall, TypeOK, Command
  <2>3. Now.d.content # Absent
    BY <2>2 DEF InSession
  <2> QED
    BY <1>0, <1>2, <1>3, <2>1, <2>2, <2>3 DEF InSession
<1>4. CASE Skip
  <2>1. cmd'.todo = Tail(cmd.todo) /\ cmd'.name = cmd.name /\ cmd'.n = cmd.n
    BY <1>0, <1>4, PoppedCommand DEF Skip
  <2>2. call' = NoCall /\ Now.d.content = Absent
    BY <1>4 DEF Skip
  <2>3. cmd.name = "rewind"
    BY <1>0, <1>1, <2>2 DEF InSession
  <2>4. Len(ring) \in Nat
    BY DEF TypeOK
  <2>5. InSession'
    BY <1>0, <2>1, <2>2, <2>4, NextDecision
  <2>6. \A p \in Paths : Target(cmd'.todo, disk', p) = Target(cmd.todo, disk, p)
    BY <1>0, <1>1, <2>1, <2>2, PoppedTarget DEF Now
  <2>7. DocBar' = DocBar
    BY <2>1, <2>3, <2>6, DocBarIs DEF DocOf
  <2>8. RingBar' = RingBar
    BY <1>0, <2>1, <2>3, RingBarIs
  <2> QED
    BY <2>5, <2>7, <2>8 DEF Stays
<1>5. CASE Raised /\ call' = NoCall /\ cmd.name = "single"
  <2>1. cmd'.todo = Tail(cmd.todo) /\ cmd'.name = cmd.name /\ cmd'.n = cmd.n
    BY <1>0, <1>5, PoppedCommand
  <2>2. Len(ring) \in Nat
    BY DEF TypeOK
  <2>3. InSession'
    BY <1>0, <1>5, <2>1, <2>2, NextDecision
  <2>4. DocBar' = DocBar
    BY <1>0, <1>5, <2>1, DocBarIs, DocOfPresent DEF TypeOK
  <2>5. RingBar' = RingBar
    BY <1>0, <1>2, <1>5, <2>1, RingBarIs
  <2> QED
    BY <2>3, <2>4, <2>5 DEF Stays
<1>6. \/ UNCHANGED cmd \/ Skip
      \/ Raised /\ call' = NoCall /\ cmd.name = "single"
  <2>1. CASE Begin
    BY <2>1 DEF Begin, InSession, ModeOf
  <2>2. CASE Hooks
    BY <2>2 DEF Hooks, PatchesAndRewinds
  <2>3. CASE Gate
    <3>1. cmd.name = "rewind" => \A approved \in BOOLEAN : Authorizes(Now.rt, Now.d, approved)
      BY <1>1 DEF Authorizes, GateAccepts, Allowlisted, Permitted, PatchesAndRewinds, InSession
    <3> QED
      BY <1>1, <2>3, <3>1 DEF Gate
  <2>4. CASE Capture
    BY <2>4 DEF Capture
  <2> QED
    BY <2>1, <2>2, <2>3, <2>4
<1> QED
  BY <1>3, <1>4, <1>5, <1>6

\* Execute: the write of a patch is the edit; that of a restore, and a patch that
\* does not apply, change nothing of what the history says.
LEMMA ExecuteSteps ==
  ASSUME TypeOK, TypeOK', InSession, Execute
  PROVE  InSession' /\ Moves
<1>0. cmd.todo # <<>> /\ UNCHANGED <<ring, mode, rules>> /\ call.stage = "execute" /\ call # NoCall
  BY DEF Execute, TypeOK, NoCall
<1>1. /\ Now \in Step /\ Now.d.path \in Paths
      /\ cmd.todo \in Seq(Step) /\ cmd.name \in {"single", "rewind"}
      /\ cmd.name = "rewind" => Now.rt = "write" /\ Now.d.type = "code.write_file"
      /\ cmd.name = "single" => /\ Now.rt = "primary" /\ Now.d.type = "code.apply_patch"
                                /\ Now.d.content \in Contents
  BY <1>0, CallHasStep DEF InSession
<1>2. disk \in Disks /\ disk' \in Disks /\ call.before = disk[Now.d.path] /\ Now.d.content # Absent
  BY <1>0 DEF TypeOK, InSession
<1>3. CASE /\ disk' = [disk EXCEPT ![Now.d.path] = Now.d.content]
           /\ call' = [call EXCEPT !.stage = "record"] /\ UNCHANGED cmd
  <2>1. Now' = Now /\ call'.stage = "record" /\ call'.before = call.before /\ disk'[Now.d.path] = Now.d.content
    BY <1>1, <1>2, <1>3 DEF Now, TypeOK, Call, Disks
  <2>2. InSession'
    BY <1>0, <1>2, <1>3, <2>1 DEF InSession
  <2>3. CASE cmd.name = "rewind"
    <3>1. \A p \in Paths : Target(cmd.todo, disk', p) = Target(cmd.todo, disk, p)
      BY <1>0, <1>1, <1>2, <1>3, WrittenTarget DEF Now
    <3>2. DocBar' = DocBar
      BY <1>3, <2>3, <3>1, DocBarIs DEF DocOf
    <3>3. RingBar' = RingBar
      BY <1>0, <1>3, <2>3, RingBarIs
    <3> QED
      BY <2>2, <3>2, <3>3 DEF Moves, Stays
  <2>4. CASE cmd.name = "single"
    <3>1. DocBar = disk /\ DocBar' = disk'
      <4>1. DocOf(cmd.name, cmd.todo, disk) = disk
        BY <1>2, <2>4, DocOfPresent
      <4>2. cmd' = cmd
        BY <1>3
      <4>3. DocOf(cmd'.name, cmd'.todo, disk') = disk'
        BY <1>2, <2>4, <4>2, DocOfPresent
      <4> QED
        BY <4>1, <4>3, DocBarIs
    <3>2. RingBar = ring
      BY <1>0, <2>4, RingBarIs
    <3>3. Checkpointed'
      BY <1>1, <2>1, <2>4 DEF Checkpointed, HasRing, WriteTypes
    <3>4. NewEntry' = [path |-> Now.d.path, before |-> disk[Now.d.path]]
      BY <1>2, <2>1 DEF NewEntry
    <3>5. RingBar' = Push(ring, [path |-> Now.d.path, before |-> disk[Now.d.path]])
      BY <1>0, <1>3, <2>1, <2>4, <3>3, <3>4, RingBarIs
    <3>6. Edits(Now.d.path, Now.d.content)
      BY <1>3, <3>1, <3>2, <3>5 DEF Edits
    <3> QED
      BY <1>1, <2>2, <2>4, <3>6 DEF Moves
  <2> QED
    BY <1>1, <2>3, <2>4
<1>4. CASE Now.d.type = "code.apply_patch" /\ call' = NoCall /\ Raised /\ UNCHANGED disk
  <2>0. cmd.name = "single"
    BY <1>1, <1>4
  <2>1. cmd'.todo = Tail(cmd.todo) /\ cmd'.name = cmd.name /\ cmd'.n = cmd.n
    BY <1>0, <1>4, <2>0, PoppedCommand
  <2>2. Len(ring) \in Nat /\ call'.stage # "record"
    BY <1>4 DEF TypeOK, NoCall
  <2>3. InSession'
    BY <1>0, <1>4, <2>1, <2>2, NextDecision
  <2>4. DocBar' = DocBar
    BY <1>2, <1>4, <2>0, <2>1, DocBarIs, DocOfPresent
  <2>5. RingBar' = RingBar
    BY <1>0, <2>0, <2>1, <2>2, RingBarIs
  <2> QED
    BY <2>3, <2>4, <2>5 DEF Moves, Stays
<1>5. Now.d.type # "shell.exec"
  BY <1>1
<1> QED
  BY <1>3, <1>4, <1>5 DEF Execute

\* Record: the checkpoint is taken; the edit was made when the file was written.
LEMMA RecordSteps ==
  ASSUME TypeOK, TypeOK', InSession, PatchesAndRewinds, Record
  PROVE  InSession' /\ Stays
<1>0. /\ cmd.todo # <<>> /\ UNCHANGED <<disk, mode, rules>> /\ call.stage = "record"
      /\ call' = NoCall /\ call'.stage # "record"
  BY DEF Record, TypeOK, NoCall, HookEffect, PatchesAndRewinds
<1>1. /\ Now \in Step /\ Now.d.path \in Paths
      /\ cmd.todo \in Seq(Step) /\ cmd.name \in {"single", "rewind"}
      /\ cmd.name = "rewind" => Now.rt = "write" /\ Now.d.type = "code.write_file"
      /\ cmd.name = "single" => Now.rt = "primary" /\ Now.d.type = "code.apply_patch"
  BY <1>0, CallHasStep DEF InSession
<1>2. disk \in Disks /\ disk[Now.d.path] = Now.d.content /\ Len(ring) \in Nat /\ Len(ring') \in Nat
  BY <1>0 DEF TypeOK, InSession
<1>3. cmd'.todo = Tail(cmd.todo) /\ cmd'.name = cmd.name /\ cmd'.n = cmd.n
  BY <1>0, PoppedCommand DEF Record
<1>4. CASE cmd.name = "rewind"
  <2>1. ~Checkpointed
    BY <1>1, <1>4 DEF Checkpointed, HasRing
  <2>2. ring' = ring
    BY <2>1 DEF Record
  <2>3. InSession'
    BY <1>0, <1>2, <1>3, <2>2, NextDecision
  <2>4. \A p \in Paths : Target(cmd'.todo, disk', p) = Target(cmd.todo, disk, p)
    BY <1>0, <1>1, <1>2, <1>3, PoppedTarget DEF Now
  <2>5. DocBar' = DocBar
    BY <1>3, <1>4, <2>4, DocBarIs DEF DocOf
  <2>6. RingBar' = RingBar
    BY <1>3, <1>4, <2>2, RingBarIs
  <2> QED
    BY <2>3, <2>5, <2>6 DEF Stays
<1>5. CASE cmd.name = "single"
  <2>1. Checkpointed
    BY <1>1, <1>5 DEF Checkpointed, HasRing, WriteTypes
  <2>2. ring' = Push(ring, NewEntry)
    BY <2>1 DEF Record
  <2>3. Len(ring') >= Len(ring)
    <3>1. NewEntry \in Entry
      BY <1>1 DEF NewEntry, Entry, TypeOK, Call
    <3>2. ring \in Seq(Entry) /\ Len(ring) <= RingMax
      BY DEF TypeOK
    <3> QED
      BY <2>2, <3>1, <3>2, PushBounded
  <2>4. InSession'
    BY <1>0, <1>2, <1>3, <2>3, NextDecision
  <2>5. DocBar' = DocBar
    BY <1>0, <1>2, <1>3, <1>5, DocBarIs, DocOfPresent
  <2>6. RingBar' = RingBar
    BY <1>0, <1>3, <1>5, <2>1, <2>2, RingBarIs
  <2> QED
    BY <2>4, <2>5, <2>6 DEF Stays
<1> QED
  BY <1>1, <1>4, <1>5

\* Starting and ending: a /rewind goes back at once, what it has still to restore
\* already being there in the mapping.
LEMMA RestoresOf ==
  ASSUME TypeOK, NEW n \in 1..Len(ring)
  PROVE  /\ RestoreSteps(n) \in Seq(Step) /\ Len(RestoreSteps(n)) = n
         /\ \A i \in 1..n : /\ RestoreSteps(n)[i].rt = "write"
                            /\ RestoreSteps(n)[i].d.type = "code.write_file"
                            /\ RestoreSteps(n)[i].d.path = ring[Len(ring) + 1 - i].path
                            /\ RestoreSteps(n)[i].d.content = ring[Len(ring) + 1 - i].before
<1>1. ring \in Seq(Entry) /\ Len(ring) \in Nat /\ n \in Nat
  BY DEF TypeOK
<1>2. ASSUME NEW i \in 1..n
      PROVE  ring[Len(ring) + 1 - i] \in Entry
  <2>1. Len(ring) + 1 - i \in 1..Len(ring)
    BY <1>1
  <2> QED
    BY <1>1, <2>1
<1>3. ASSUME NEW i \in 1..n
      PROVE  LET e == ring[Len(ring) + 1 - i]
                 s == Do("write", "code.write_file", e.path, e.before)
             IN  /\ RestoreSteps(n)[i] = s /\ s \in Step
                 /\ s.rt = "write" /\ s.d.type = "code.write_file"
                 /\ s.d.path = e.path /\ s.d.content = e.before
  <2> DEFINE e == ring[Len(ring) + 1 - i]
  <2>1. e \in Entry
    BY <1>2
  <2>2. RestoreSteps(n)[i] = Do("write", "code.write_file", e.path, e.before)
    BY DEF RestoreSteps
  <2> HIDE DEF e
  <2>3. Do("write", "code.write_file", e.path, e.before) \in Step
    BY <2>1, DoIsStep DEF Entry, Runtimes, Types
  <2> QED
    BY <2>2, <2>3 DEF Do, e
<1>4. RestoreSteps(n) \in [1..n -> Step]
  BY <1>3 DEF RestoreSteps
<1> QED
  BY <1>1, <1>3, <1>4

LEMMA CommandSteps ==
  ASSUME TypeOK, TypeOK', InSession,
         \/ \E p \in Paths, c \in Contents : Patch(p, c)
         \/ \E n \in 1..RingMax : Rewind(n)
         \/ EndSingle \/ EndRewind
  PROVE  InSession' /\ Moves
<1>a. UNCHANGED <<disk, mode, rules, call>> /\ call = NoCall
  <2>1. ASSUME NEW p \in Paths, NEW c \in Contents, Patch(p, c)
        PROVE  UNCHANGED <<disk, mode, rules, call>> /\ call = NoCall
    BY <2>1 DEF Patch, Single, Idle
  <2>2. ASSUME NEW n \in 1..RingMax, Rewind(n)
        PROVE  UNCHANGED <<disk, mode, rules, call>> /\ call = NoCall
    BY <2>2 DEF Rewind, Idle
  <2>3. CASE EndSingle
    BY <2>3 DEF EndSingle, Finished
  <2>4. CASE EndRewind
    BY <2>4 DEF EndRewind, Finished
  <2> QED
    BY <2>1, <2>2, <2>3, <2>4
<1>b. disk \in Disks /\ ring \in Seq(Entry) /\ Len(ring) \in Nat
  BY DEF TypeOK
<1>0. /\ UNCHANGED <<disk, mode, rules, call>> /\ call = NoCall /\ call.stage = "none"
      /\ disk \in Disks /\ ring \in Seq(Entry) /\ Len(ring) \in Nat
  BY <1>a, <1>b DEF NoCall
<1>1. ASSUME NEW p \in Paths, NEW c \in Contents, Patch(p, c)
      PROVE  InSession' /\ Moves
  <2>1. /\ cmd.name = "prompt" /\ ring' = ring
        /\ cmd'.name = "single" /\ cmd'.todo = <<Do("primary", "code.apply_patch", p, c)>>
    BY <1>1 DEF Patch, Single, Idle, Run
  <2>2. /\ cmd'.todo # <<>> /\ Now' = Do("primary", "code.apply_patch", p, c) /\ Tail(cmd'.todo) = <<>>
    BY <2>1 DEF Now
  <2>3. Now'.rt = "primary" /\ Now'.d.type = "code.apply_patch" /\ Now'.d.content = c
    BY <2>2 DEF Do
  <2>4. InSession'
    BY <1>0, <2>1, <2>2, <2>3 DEF InSession
  <2>5. DocBar = disk /\ DocBar' = disk'
    <3>1. DocOf(cmd.name, cmd.todo, disk) = disk /\ DocOf(cmd'.name, cmd'.todo, disk) = disk
      BY <1>0, <2>1, DocOfPresent
    <3> QED
      BY <1>0, <3>1, DocBarIs
  <2>6. RingBar' = RingBar
    BY <1>0, <2>1, RingBarIs
  <2> QED
    BY <1>0, <2>4, <2>5, <2>6 DEF Moves, Stays
<1>2. CASE EndSingle
  <2>1. cmd.name = "single" /\ cmd'.name = "prompt" /\ cmd'.todo = <<>> /\ ring' = ring
    BY <1>2 DEF EndSingle, Finished, Prompt
  <2>2. InSession'
    BY <1>0, <2>1 DEF InSession
  <2>3. DocBar = disk /\ DocBar' = disk'
    <3>1. DocOf(cmd.name, cmd.todo, disk) = disk /\ DocOf(cmd'.name, cmd'.todo, disk) = disk
      BY <1>0, <2>1, DocOfPresent
    <3> QED
      BY <1>0, <3>1, DocBarIs
  <2>4. RingBar' = RingBar
    BY <1>0, <2>1, RingBarIs
  <2> QED
    BY <1>0, <2>2, <2>3, <2>4 DEF Moves, Stays
<1>3. CASE EndRewind
  <2>1. /\ cmd.name = "rewind" /\ cmd.todo = <<>> /\ cmd'.name = "prompt" /\ cmd'.todo = <<>>
        /\ ring' = SubSeq(ring, 1, Len(ring) - cmd.n)
    BY <1>3 DEF EndRewind, Finished, Prompt
  <2>2. InSession'
    BY <1>0, <2>1 DEF InSession
  <2>3. DocBar = disk /\ DocBar' = disk'
    <3>1. DocOf(cmd.name, cmd.todo, disk) = disk /\ DocOf(cmd'.name, cmd'.todo, disk) = disk
      BY <1>0, <2>1, DocOfPresent
    <3> QED
      BY <1>0, <3>1, DocBarIs
  <2>4. RingBar' = RingBar
    BY <1>0, <2>1, RingBarIs
  <2> QED
    BY <1>0, <2>2, <2>3, <2>4 DEF Moves, Stays
<1>4. ASSUME NEW n \in 1..RingMax, Rewind(n)
      PROVE  InSession' /\ Moves
  <2>1. /\ cmd.name = "prompt" /\ ring' = ring /\ n \in 1..Len(ring)
        /\ cmd'.name = "rewind" /\ cmd'.todo = RestoreSteps(n) /\ cmd'.n = n
    BY <1>4 DEF Rewind, Idle, Run
  <2>2. /\ RestoreSteps(n) \in Seq(Step) /\ Len(RestoreSteps(n)) = n
        /\ \A i \in 1..n : /\ RestoreSteps(n)[i].rt = "write"
                           /\ RestoreSteps(n)[i].d.type = "code.write_file"
                           /\ RestoreSteps(n)[i].d.path = ring[Len(ring) + 1 - i].path
                           /\ RestoreSteps(n)[i].d.content = ring[Len(ring) + 1 - i].before
    BY <2>1, RestoresOf
  <2>3. DOMAIN RestoreSteps(n) = 1..n
    BY DEF RestoreSteps
  <2>4. InSession'
    BY <1>0, <2>1, <2>2, <2>3 DEF InSession
  <2>5. DocBar = disk
    <3>1. DocOf(cmd.name, cmd.todo, disk) = disk
      BY <1>0, <2>1, DocOfPresent
    <3> QED
      BY <3>1, DocBarIs
  <2>6. RingBar = ring
    BY <1>0, <2>1, RingBarIs
  <2>7. RingBar' = SubSeq(ring, 1, Len(ring) - n)
    BY <2>1, RingBarIs
  <2>8. ASSUME NEW p \in Paths
        PROVE  RestoredTo(ring, disk, Len(ring) + 1 - n, p, DocBar'[p])
    <3>1. DocBar'[p] = Target(RestoreSteps(n), disk, p)
      BY <1>0, <2>1, DocBarIs DEF DocOf
    <3>2. RestoredTo(ring, disk, Len(ring) + 1 - n, p, Target(RestoreSteps(n), disk, p))
      BY <1>0, <2>1, <2>2, RewindTarget
    <3> QED
      BY <3>1, <3>2
  <2>9. GoesBack(n)
    BY <2>5, <2>6, <2>7, <2>8 DEF GoesBack
  <2> QED
    BY <2>1, <2>4, <2>6, <2>9 DEF Moves
<1> QED
  BY <1>1, <1>2, <1>3, <1>4

LEMMA SessionStep ==
  ASSUME TypeOK, TypeOK', InSession, PatchesAndRewinds, [Next]_vars
  PROVE  InSession' /\ Moves
<1>1. CASE Next
  <2>1. CASE Apply
    BY <2>1, DecidingSteps, ExecuteSteps, RecordSteps DEF Apply, Moves
  <2>2. CASE ~Apply
    BY <1>1, <2>2, OnlyPatchesAndRewinds, CommandSteps
  <2> QED
    BY <2>1, <2>2
<1>2. CASE UNCHANGED vars
  <2>1. InSession'
    BY <1>2 DEF InSession, vars, Now
  <2>2. Stays
    BY <1>2 DEF Stays, vars, RingBar, DocBar, Pending, Checkpointed, NewEntry, Now
  <2> QED
    BY <2>1, <2>2 DEF Moves
<1> QED
  BY <1>1, <1>2

\* The state of a session reads as the state of the editor.
LEMMA BarTypes ==
  ASSUME TypeOK, InSession
  PROVE  RingBar \in Seq(Entry) /\ Len(RingBar) <= RingMax /\ DocBar \in Disks
<1>1. ring \in Seq(Entry) /\ Len(ring) <= RingMax /\ Len(ring) \in Nat /\ RingMax \in Nat
  BY DEF TypeOK
<1>2. RingBar \in Seq(Entry) /\ Len(RingBar) <= RingMax
  <2>1. CASE cmd.name = "rewind"
    <3>1. cmd.n \in 1..Len(ring)
      BY <2>1 DEF InSession
    <3>2. RingBar = SubSeq(ring, 1, Len(ring) - cmd.n)
      BY <2>1, RingBarIs
    <3>3. Len(ring) - cmd.n + 1 \in 1..Len(ring)
      BY <1>1, <3>1
    <3> DEFINE k == Len(ring) - cmd.n + 1
    <3>4. SubSeq(ring, 1, k - 1) \in Seq(Entry) /\ Len(SubSeq(ring, 1, k - 1)) = k - 1
      BY <1>1, <3>3, PrefixOfRing
    <3>5. k - 1 = Len(ring) - cmd.n /\ k - 1 <= RingMax
      BY <1>1, <3>1
    <3> QED
      BY <3>2, <3>4, <3>5
  <2>2. CASE cmd.name # "rewind" /\ call.stage = "record" /\ Checkpointed
    <3>1. RingBar = Push(ring, NewEntry)
      BY <2>2, RingBarIs
    <3>2. NewEntry \in Entry
      <4>1. call # NoCall
        BY <2>2 DEF NoCall
      <4>2. cmd.todo # <<>>
        BY <4>1 DEF TypeOK
      <4>3. Now.d.path \in Paths
        BY <4>2, CallHasStep
      <4>4. call.before \in Content
        BY DEF TypeOK, Call
      <4> QED
        BY <4>3, <4>4 DEF NewEntry, Entry
    <3> HIDE DEF NewEntry
    <3>3. CASE Len(ring) < RingMax
      BY <1>1, <3>1, <3>2, <3>3 DEF Push
    <3>4. CASE ~(Len(ring) < RingMax)
      <4>1. ring # <<>> /\ Len(ring) \in Nat \ {0}
        BY <1>1, <3>4, FullRing
      <4>2. Tail(ring) \in Seq(Entry) /\ Len(Tail(ring)) = Len(ring) - 1
        BY <1>1, <4>1
      <4>3. /\ Append(Tail(ring), NewEntry) \in Seq(Entry)
            /\ Len(Append(Tail(ring), NewEntry)) = Len(ring)
        BY <3>2, <4>1, <4>2
      <4> QED
        BY <1>1, <3>1, <3>4, <4>3 DEF Push
    <3> QED
      BY <3>3, <3>4
  <2>3. CASE cmd.name # "rewind" /\ ~(call.stage = "record" /\ Checkpointed)
    BY <1>1, <2>3, RingBarIs
  <2> QED
    BY <2>1, <2>2, <2>3
<1>3. DocBar \in Disks
  <2>1. disk \in Disks
    BY DEF TypeOK
  <2>2. CASE cmd.name = "rewind"
    <3>1. ASSUME NEW p \in Paths
          PROVE  DocBar[p] \in Content
      <4>1. CASE Pending(p) = {}
        BY <2>1, <4>1 DEF DocBar, Disks
      <4>2. CASE Pending(p) # {}
        <5> DEFINE i == CHOOSE m \in Pending(p) : \A j \in Pending(p) : j <= m
        <5>1. cmd.todo \in Seq(Step)
          BY DEF TypeOK, Command
        <5>2. Restores(cmd.todo, p) = Pending(p)
          BY <2>2 DEF Restores, Pending
        <5>3. \E m \in Pending(p) : \A j \in Pending(p) : j <= m
          BY <4>2, <5>1, <5>2, LastExists DEF LastIs
        <5>4. i \in Pending(p)
          <6> HIDE DEF Pending
          <6> QED
            BY <5>3
        <5>5. DocBar[p] = cmd.todo[i].d.content
          BY <4>2 DEF DocBar
        <5> HIDE DEF i
        <5>6. i \in DOMAIN cmd.todo
          BY <5>4 DEF Pending
        <5>7. cmd.todo[i] \in Step
          BY <5>1, <5>6
        <5> QED
          BY <5>5, <5>7 DEF Step, Decision
      <4> QED
        BY <4>1, <4>2
    <3> QED
      BY <3>1 DEF DocBar, Disks
  <2>3. CASE cmd.name # "rewind"
    <3>1. \A p \in Paths : Pending(p) = {}
      BY <2>3 DEF Pending
    <3>2. DocBar = [p \in Paths |-> disk[p]]
      BY <3>1 DEF DocBar
    <3> QED
      BY <2>1, <3>2 DEF Disks
  <2> QED
    BY <2>2, <2>3
<1> QED
  BY <1>2, <1>3

LEMMA HistoryBarIs ==
  HistoryBar = Versions(RingBar, DocBar) /\ HistoryBar' = Versions(RingBar', DocBar')
BY DEF HistoryBar, Versions, Version, Later

\* In a session the editor's history never forgets that a file existed.
SessionInv == TypeOK /\ InSession /\ NoDeletes(RingBar, DocBar)

LEMMA SessionStarts ==
  ASSUME PatchesAndRewinds, Init
  PROVE  SessionInv /\ Abstract!HInit
<1>1. TypeOK
  BY InitType
<1>2. /\ mode = "default" /\ cmd.name = "prompt" /\ cmd.todo = <<>> /\ call = NoCall
      /\ call.stage = "none" /\ ring = <<>> /\ rules["code.write_file"] = "allow"
  BY DEF Init, Prompt, NoCall, PatchesAndRewinds
<1>3. InSession
  BY <1>2 DEF InSession
<1>4. RingBar = <<>>
  BY <1>2, RingBarIs
<1>5. DocBar \in Disks
  BY <1>1, <1>3, BarTypes
<1>6. NoDeletes(RingBar, DocBar)
  BY <1>4 DEF NoDeletes
<1>7. HistoryBar = <<>>
  <2>1. HistoryBar = Versions(<<>>, DocBar)
    BY <1>4, HistoryBarIs
  <2>2. <<>> \in Seq(Entry) /\ Len(<<>>) = 0
    OBVIOUS
  <2>3. Versions(<<>>, DocBar) \in Seq(Disks) /\ Len(Versions(<<>>, DocBar)) = 0
    BY <1>5, <2>2, VersionsType
  <2> QED
    BY <2>1, <2>3
<1> QED
  BY <1>1, <1>3, <1>5, <1>6, <1>7 DEF SessionInv, Abstract!HInit, Abstract!Docs, Disks, Content

\* Going back in the ring is going back in the editor.
LEMMA OldestIsOldest ==
  \A k, p : Abstract!OldestFrom(k, p) = OldestVersion(HistoryBar, DocBar, k, p)
BY DEF Abstract!OldestFrom, OldestVersion

LEMMA RewindGoesBack ==
  ASSUME NEW r \in Seq(Entry), NEW d \in Disks, NoDeletes(r, d), NEW n \in 1..Len(r), NEW f \in Disks,
         \A p \in Paths : RestoredTo(r, d, Len(r) + 1 - n, p, f[p])
  PROVE  LET k == Len(r) + 1 - n
             h == Versions(r, d)
         IN  /\ f = [p \in Paths |-> OldestVersion(h, d, k, p)]
             /\ Versions(SubSeq(r, 1, Len(r) - n), f) =
                  [i \in 1..k-1 |->
                     [p \in Paths |-> IF h[k][p] = Absent THEN OldestVersion(h, d, k, p) ELSE h[i][p]]]
<1> DEFINE k == Len(r) + 1 - n
           h == Versions(r, d)
           s == SubSeq(r, 1, k - 1)
           g == [i \in 1..k-1 |->
                   [p \in Paths |-> IF h[k][p] = Absent THEN OldestVersion(h, d, k, p) ELSE h[i][p]]]
<1>1. /\ Len(r) \in Nat /\ n \in Nat /\ k \in 1..Len(r) /\ k \in Nat /\ k - 1 = Len(r) - n
      /\ k - 1 \in Nat
  OBVIOUS
<1>2. \A p \in Paths : f[p] = OldestVersion(h, d, k, p)
  <2>1. \A p \in Paths : RestoredTo(r, d, k, p, f[p])
    OBVIOUS
  <2> HIDE DEF k, h
  <2>2. ASSUME NEW p \in Paths
        PROVE  f[p] = OldestVersion(Versions(r, d), d, k, p)
    BY <1>1, <2>1, RestoredIsOldest
  <2> QED
    BY <2>2 DEF h
<1>3. f = [p \in Paths |-> OldestVersion(h, d, k, p)]
  <2> HIDE DEF h, k
  <2> QED
    BY <1>2 DEF Disks
<1>4. s \in Seq(Entry) /\ Len(s) = k - 1
  <2> HIDE DEF k
  <2> QED
    BY <1>1, PrefixOfRing DEF s
<1>5. /\ Versions(s, f) \in Seq(Disks) /\ Len(Versions(s, f)) = k - 1
      /\ \A i \in 1..k-1 : \A p \in Paths : Versions(s, f)[i][p] = Version(s, f, i, p)
  <2> HIDE DEF k, s
  <2> QED
    BY <1>4, VersionsType
<1>6. h \in Seq(Disks) /\ Len(h) = Len(r)
      /\ \A i \in 1..Len(r) : \A p \in Paths : h[i][p] = Version(r, d, i, p)
  BY VersionsType
<1>7. \A i \in 1..k-1 : \A p \in Paths :
         Version(s, f, i, p) = IF h[k][p] = Absent THEN f[p] ELSE h[i][p]
  <2>1. \A p \in Paths : RestoredTo(r, d, k, p, f[p])
    OBVIOUS
  <2> HIDE DEF k, h
  <2>2. ASSUME NEW i \in 1..k-1, NEW p \in Paths
        PROVE  Version(s, f, i, p) = IF Version(r, d, k, p) = Absent THEN f[p] ELSE Version(r, d, i, p)
    BY <1>1, <2>1, OlderVersions DEF s
  <2>3. ASSUME NEW i \in 1..k-1
        PROVE  i \in 1..Len(r)
    BY <1>1
  <2> QED
    BY <1>1, <1>6, <2>2, <2>3
<1>8. g \in Seq(Disks) /\ Len(g) = k - 1
      /\ \A i \in 1..k-1 : \A p \in Paths : g[i][p] = Version(s, f, i, p)
  <2> HIDE DEF k, h, s
  <2>1. \A i \in 1..k-1 : g[i] = [p \in Paths |-> IF h[k][p] = Absent THEN f[p] ELSE h[i][p]]
    BY <1>2
  <2>2. \A i \in 1..k-1 : g[i] = [p \in Paths |-> Version(s, f, i, p)]
    BY <1>7, <2>1
  <2>3. \A i \in 1..k-1 : Versions(s, f)[i] = [p \in Paths |-> Version(s, f, i, p)]
    BY <1>4 DEF Versions
  <2>4. ASSUME NEW i \in 1..k-1
        PROVE  g[i] \in Disks
    <3>1. Versions(s, f)[i] \in Disks
      BY <1>5
    <3>2. g[i] = Versions(s, f)[i]
      BY <2>2, <2>3
    <3> HIDE DEF g
    <3> QED
      BY <3>1, <3>2
  <2>5. g \in [1..k-1 -> Disks]
    <3>1. g = [i \in 1..k-1 |-> g[i]]
      OBVIOUS
    <3> HIDE DEF g
    <3> QED
      BY <2>4, <3>1
  <2> HIDE DEF g
  <2>6. g \in Seq(Disks) /\ Len(g) = k - 1
    BY <1>1, <2>5
  <2>7. \A i \in 1..k-1 : \A p \in Paths : g[i][p] = Version(s, f, i, p)
    BY <2>2
  <2> QED
    BY <2>6, <2>7
<1>9. Versions(s, f) = g
  <2> HIDE DEF k, s, g
  <2> QED
    BY <1>5, <1>8, SameHistory
<1> QED
  BY <1>1, <1>3, <1>9

LEMMA BarTypesNext == (TypeOK /\ InSession => DocBar \in Disks)'
<1>1. TypeOK /\ InSession => DocBar \in Disks
  BY BarTypes
<1> QED
  BY <1>1, PTL

LEMMA SessionSimulates ==
  ASSUME SessionInv, TypeOK', PatchesAndRewinds, [Next]_vars
  PROVE  SessionInv' /\ [Abstract!HNext]_<<DocBar, HistoryBar>>
<1>1. TypeOK /\ InSession /\ NoDeletes(RingBar, DocBar) /\ InSession' /\ Moves
  BY SessionStep DEF SessionInv
<1>2. RingBar \in Seq(Entry) /\ Len(RingBar) <= RingMax /\ DocBar \in Disks /\ Len(RingBar) \in Nat
  <2>1. RingBar \in Seq(Entry) /\ Len(RingBar) <= RingMax /\ DocBar \in Disks
    BY <1>1, BarTypes
  <2> QED
    BY <2>1
<1>3. DocBar' \in Disks
  <2>1. TypeOK' /\ InSession' => DocBar' \in Disks
    BY BarTypesNext
  <2> QED
    BY <1>1, <2>1
<1>4. HistoryBar = Versions(RingBar, DocBar) /\ HistoryBar' = Versions(RingBar', DocBar')
  BY HistoryBarIs
<1>5. SUFFICES NoDeletes(RingBar', DocBar') /\ [Abstract!HNext]_<<DocBar, HistoryBar>>
  BY <1>1 DEF SessionInv, NoDeletes, Later
<1>6. CASE Stays
  BY <1>1, <1>4, <1>6 DEF Stays
<1>7. ASSUME NEW p \in Paths, NEW c \in Contents, Edits(p, c)
      PROVE  NoDeletes(RingBar', DocBar') /\ Abstract!HNext
  <2>1. /\ RingBar' = Push(RingBar, [path |-> p, before |-> DocBar[p]])
        /\ DocBar' = [DocBar EXCEPT ![p] = c]
    BY <1>7 DEF Edits
  <2>2. NoDeletes(RingBar', DocBar')
    BY <1>1, <1>2, <2>1, EditDeletesNothing
  <2>3. HistoryBar' = Abstract!Remember(HistoryBar, DocBar)
    BY <1>2, <1>4, <2>1, EditIsRemembered
  <2>4. Abstract!Edit(p, c)
    BY <2>1, <2>3 DEF Abstract!Edit
  <2> QED
    BY <2>2, <2>4 DEF Abstract!HNext
<1>8. ASSUME NEW n \in 1..Len(RingBar), GoesBack(n)
      PROVE  NoDeletes(RingBar', DocBar') /\ Abstract!HNext
  <2> DEFINE k == Len(RingBar) + 1 - n
  <2>1. /\ RingBar' = SubSeq(RingBar, 1, Len(RingBar) - n)
        /\ \A p \in Paths : RestoredTo(RingBar, DocBar, k, p, DocBar'[p])
    BY <1>8 DEF GoesBack
  <2>2. k \in 1..Len(RingBar) /\ Len(RingBar) - n = k - 1 /\ n \in 1..RingMax
    BY <1>2
  <2>3. NoDeletes(RingBar', DocBar')
    <3> HIDE DEF k
    <3> QED
      BY <1>1, <1>2, <2>1, <2>2, GoingBackDeletesNothing
  <2>4. Len(HistoryBar) = Len(RingBar)
    BY <1>2, <1>4, VersionsType
  <2>5. /\ DocBar' = [p \in Paths |-> OldestVersion(HistoryBar, DocBar, k, p)]
        /\ HistoryBar' =
             [i \in 1..k-1 |->
                [p \in Paths |-> IF HistoryBar[k][p] = Absent THEN OldestVersion(HistoryBar, DocBar, k, p)
                                 ELSE HistoryBar[i][p]]]
    BY <1>1, <1>2, <1>3, <1>4, <2>1, RewindGoesBack
  <2>6. Abstract!GoBack(n)
    BY <2>4, <2>5, OldestIsOldest DEF Abstract!GoBack
  <2> QED
    BY <2>2, <2>3, <2>6 DEF Abstract!HNext
<1> QED
  BY <1>1, <1>6, <1>7, <1>8 DEF Moves

\* In a session of /patch and /rewind that nothing denies, whatever the files, their
\* contents and the length of the ring: each checkpointed edit and each /rewind is
\* one step of the editor with a bounded history of workspaces, and every other
\* step leaves both the workspace and the history as they read.
THEOREM RewindIsEditHistory == ASSUME PatchesAndRewinds PROVE Spec => IsEditHistory
<1>1. Init => SessionInv /\ Abstract!HInit
  BY SessionStarts
<1>2. SessionInv /\ TypeOK' /\ [Next]_vars => SessionInv' /\ [Abstract!HNext]_<<DocBar, HistoryBar>>
  BY SessionSimulates
<1> QED
  BY <1>1, <1>2, TypeCorrect, PTL DEF Spec, IsEditHistory, Abstract!HSpec
=============================================================================
