------------------------------ MODULE Sessions ------------------------------
(***************************************************************************)
(* session.py and the REPL and one-shot paths of cli.py: conversations,    *)
(* each in the memory of the process that has it open, in a transcript     *)
(* file of its own, and in one index file that names them all.  Several    *)
(* processes share the directory without a lock.  A file is written by     *)
(* truncating it and then writing it, and reads as nothing in between, or  *)
(* for good when the writer dies there or another's write runs into it.    *)
(*                                                                         *)
(* A turn is its number on one clock, which also gives last_active.  The   *)
(* summary /compact leaves in place of old turns is 0.                     *)
(***************************************************************************)
EXTENDS Integers, Sequences, Functions

CONSTANTS
  Procs,     \* processes: REPLs and one-shot runs
  Ids, Old,  \* session ids, and those of sessions of an earlier day
  Names,     \* names given with /name
  Keep,      \* CONDENSE_KEEP
  MaxTurns,  \* bound: turns begun while the clock is below it
  MaxNamings,\* bound: names given
  MaxHarm    \* bound: processes killed and writes that fail

ASSUME SessionsAssumption == {Keep, MaxTurns, MaxNamings, MaxHarm} \subseteq Nat /\ Old \subseteq Ids /\ Ids # {}

VARIABLES
  pc,          \* where each process is, and how it was started
  sid, mem,          \* cli.session: its id and its content
  then,              \* what the process does after the save in progress
  idx,               \* the copy of the index the save in progress works on
  file, saved, torn, \* transcripts: what was last written, which exist, which do not parse
  index, indexTorn,  \* index.json, as a partial function, and whether it does not parse
  clock,      \* ghost: the number of the last turn shown to the user
  contested, raced,  \* ghosts: sessions two processes had open or a write was lost of;
  harm, namings      \* index updates that overlapped or were cut short; counters

disk == <<file, saved, torn, index, indexTorn>>
ghosts == <<contested, raced, harm, namings>>
vars == <<pc, sid, mem, then, idx, disk, clock, ghosts>>

NoName == "-"
Blank == [turns |-> <<>>, name |-> NoName, last |-> 0]
Fresh == [turns |-> <<>>, name |-> NoName, last |-> clock]
Meta(s) == [name |-> s.name, last |-> s.last]
Live(p) == pc[p] # "off"
Saving == {"write", "index", "trunc", "put"}
IndexRead == IF indexTorn THEN <<>> ELSE index
Readable == saved \ torn

\* load_session, or a new session under the same id when there is nothing to load.
Loaded(id) == IF id \in Readable THEN file[id] ELSE Fresh
Unused == Ids \ (saved \cup {sid[p] : p \in {q \in Procs : Live(q)}})

\* cli.session becomes session id with content s.
Take(p, id, s) ==
  /\ sid' = [sid EXCEPT ![p] = id]
  /\ mem' = [mem EXCEPT ![p] = s]
  /\ contested' = contested \cup {i \in {id} : \E q \in Procs \ {p} : Live(q) /\ sid[q] = i}

Goto(p, l) == pc' = [pc EXCEPT ![p] = l]

\* save_session begins: the transcript is truncated.  And where to go on after it.
Save(p, next) ==
  /\ Goto(p, "write")
  /\ then' = [then EXCEPT ![p] = next]
  /\ saved' = saved \cup {sid'[p]} /\ torn' = torn \cup {sid'[p]}

-----------------------------------------------------------------------------
(* main: a process starts with a session. *)
\* Under the id --resume gives, an unknown one included, the id the index has
\* for -r's name or as the most recent one for -c, or a new one.
Start(p, id) ==
  /\ pc[p] = "off" /\ clock < MaxTurns
  /\ Take(p, id, Loaded(id))
  /\ Goto(p, "prompt")
  /\ UNCHANGED <<then, idx, disk, clock, raced, harm, namings>>

Forked(s) == [turns |-> s.turns, name |-> IF s.name = NoName THEN NoName ELSE "-fork", last |-> clock]

\* --fork: the copy is saved, and then read again like any other session.
StartFork(p, id) ==
  /\ pc[p] = "off" /\ clock < MaxTurns /\ id \in Readable
  /\ \E new \in Unused : Take(p, new, Forked(file[id]))
  /\ Save(p, "load")
  /\ UNCHANGED <<idx, file, index, indexTorn, clock, raced, harm, namings>>

Load(p) ==
  /\ pc[p] = "load"
  /\ mem' = [mem EXCEPT ![p] = Loaded(sid[p])]
  /\ Goto(p, "prompt")
  /\ UNCHANGED <<sid, then, idx, disk, clock, ghosts>>

-----------------------------------------------------------------------------
(* The REPL's loop, and what a command does to the session.  A one-shot run  *)
(* is a process that quits after its first.                                  *)
Prompt(p) == pc[p] = "prompt" /\ clock < MaxTurns

\* _try_stream_plain: a plain line of a terminal's REPL, which solve_streaming
\* hands to _route_plain on a thread of its own.  It is shown, and never recorded.
Stream(p) ==
  /\ Prompt(p)
  /\ clock' = clock + 1
  /\ UNCHANGED <<pc, sid, mem, then, idx, disk, ghosts>>

CmdNew(p) ==
  /\ Prompt(p) /\ \E new \in Unused : Take(p, new, Fresh)
  /\ Goto(p, "record")
  /\ UNCHANGED <<then, idx, disk, clock, raced, harm, namings>>

\* Mutant: the turns are resumed under the id the process had.
CmdResumeInto(p, id) ==
  /\ Prompt(p) /\ id \in Readable
  /\ Take(p, sid[p], file[id]) /\ Goto(p, "record")
  /\ UNCHANGED <<then, idx, disk, clock, raced, harm, namings>>

CmdResume(p, id) ==
  /\ Prompt(p) /\ id \in Readable
  /\ Take(p, id, file[id]) /\ Goto(p, "record")
  /\ UNCHANGED <<then, idx, disk, clock, raced, harm, namings>>

\* set_session_name, for /name and for the --name flag, whose save records no turn.
CmdName(p, n, next) ==
  /\ Prompt(p) /\ namings < MaxNamings /\ namings' = namings + 1
  /\ mem' = [mem EXCEPT ![p].name = n]
  /\ UNCHANGED sid /\ Save(p, next)
  /\ UNCHANGED <<idx, file, index, indexTorn, clock, contested, raced, harm>>

CmdFork(p, id) ==
  /\ Prompt(p) /\ id \in Readable
  /\ \E new \in Unused : Take(p, new, Forked(file[id]))
  /\ Save(p, "record")
  /\ UNCHANGED <<idx, file, index, indexTorn, clock, raced, harm, namings>>

\* compact_session; the model writes the summary, or the turns are cut short.
Compacted(s) == <<0>> \o SubSeq(s, Len(s) - Keep + 1, Len(s))
CmdCompact(p) ==
  /\ Prompt(p) /\ Len(mem[p].turns) > Keep
  /\ mem' = [mem EXCEPT ![p].turns = Compacted(@)]
  /\ UNCHANGED sid /\ Save(p, "record")
  /\ UNCHANGED <<idx, file, index, indexTorn, clock, ghosts>>

Said(s, t) == [turns |-> Append(s.turns, t), name |-> s.name, last |-> t]

\* Mutant: the turn waits in memory for the next save.
RecordUnsaved(p) ==
  /\ pc[p] = "record" \/ Prompt(p)
  /\ clock' = clock + 1
  /\ mem' = [mem EXCEPT ![p] = Said(@, clock')]
  /\ Goto(p, "prompt")
  /\ UNCHANGED <<sid, then, idx, disk, ghosts>>

\* _record_turn: every line that went through handle, slash commands included.
Record(p) ==
  /\ pc[p] = "record" \/ Prompt(p)
  /\ clock' = clock + 1
  /\ mem' = [mem EXCEPT ![p] = Said(@, clock')]
  /\ UNCHANGED sid /\ Save(p, "prompt")
  /\ UNCHANGED <<idx, file, index, indexTorn, ghosts>>

\* What the process held is gone.
Gone(p) ==
  /\ Goto(p, "off")
  /\ sid' = [sid EXCEPT ![p] = CHOOSE i \in Ids : TRUE] /\ mem' = [mem EXCEPT ![p] = Blank]
  /\ then' = [then EXCEPT ![p] = "off"] /\ idx' = [idx EXCEPT ![p] = <<>>]

Quit(p) == pc[p] = "prompt" /\ Gone(p) /\ UNCHANGED <<disk, clock, ghosts>>

-----------------------------------------------------------------------------
(* save_session goes on: the transcript's content, then the index. *)
\* Another's longer write since the truncation leaves its end behind.
Write(p) ==
  /\ pc[p] = "write" /\ Goto(p, "index")
  /\ file' = [file EXCEPT ![sid[p]] = mem[p]]
  /\ \/ torn' = torn \ {sid[p]}
     \/ sid[p] \notin torn /\ torn' = torn \cup {sid[p]}
  /\ UNCHANGED <<sid, mem, then, idx, saved, index, indexTorn, clock, ghosts>>

\* The disk is full: the error is swallowed and the index written all the same.
WriteFails(p) ==
  /\ pc[p] = "write" /\ Goto(p, "index")
  /\ harm < MaxHarm /\ harm' = harm + 1
  /\ contested' = contested \cup {sid[p]}
  /\ UNCHANGED <<sid, mem, then, idx, disk, clock, raced, namings>>

ReadIndex(p) ==
  /\ pc[p] = "index" /\ Goto(p, "trunc")
  /\ idx' = [idx EXCEPT ![p] = IndexRead]
  /\ raced' = (raced \/ \E q \in Procs : pc[q] \in {"trunc", "put"})
  /\ UNCHANGED <<sid, mem, then, disk, clock, contested, harm, namings>>

OpenIndex(p) ==
  /\ pc[p] = "trunc" /\ Goto(p, "put")
  /\ indexTorn' = TRUE
  /\ UNCHANGED <<sid, mem, then, idx, file, saved, torn, index, clock, ghosts>>

\* Mutant: the entry replaces the index.
PutAlone(p) ==
  /\ pc[p] = "put" /\ Goto(p, then[p])
  /\ index' = [i \in {sid[p]} |-> Meta(mem[p])]
  /\ indexTorn' = FALSE
  /\ idx' = [idx EXCEPT ![p] = <<>>]
  /\ UNCHANGED <<sid, mem, then, file, saved, torn, clock, ghosts>>

Put(p) ==
  /\ pc[p] = "put" /\ Goto(p, then[p])
  /\ index' = [i \in DOMAIN idx[p] \cup {sid[p]} |-> IF i = sid[p] THEN Meta(mem[p]) ELSE idx[p][i]]
  /\ indexTorn' \in IF indexTorn THEN {FALSE} ELSE BOOLEAN
  /\ idx' = [idx EXCEPT ![p] = <<>>]
  /\ UNCHANGED <<sid, mem, then, file, saved, torn, clock, ghosts>>

\* The process is killed; at the prompt that is as if it had quit.
Die(p) ==
  /\ pc[p] \notin {"off", "prompt"} /\ harm < MaxHarm /\ harm' = harm + 1
  /\ Gone(p)
  /\ contested' = contested \cup {i \in {sid[p]} : pc[p] \in Saving}
  /\ raced' = (raced \/ pc[p] \in {"index", "trunc", "put"})
  /\ UNCHANGED <<disk, clock, namings>>

-----------------------------------------------------------------------------
Earlier == [turns |-> [i \in 1..Keep + 1 |-> i], name |-> NoName, last |-> Keep + 1]
Init ==
  /\ pc = [p \in Procs |-> "off"] /\ clock = Keep + 1
  /\ sid = [p \in Procs |-> CHOOSE i \in Ids : TRUE]
  /\ mem = [p \in Procs |-> Blank] /\ then = [p \in Procs |-> "off"]
  /\ idx = [p \in Procs |-> <<>>]
  /\ file = [i \in Ids |-> IF i \in Old THEN Earlier ELSE Blank] /\ saved = Old /\ torn = {}
  /\ index = [i \in Old |-> Meta(Earlier)] /\ indexTorn = FALSE
  /\ contested = {} /\ raced = FALSE /\ harm = 0 /\ namings = 0

Handle(p) ==
  \/ CmdNew(p) \/ CmdCompact(p) \/ Record(p)
  \/ \E n \in Names, next \in {"record", "prompt"} : CmdName(p, n, next)
  \/ \E id \in Ids : CmdResume(p, id) \/ CmdFork(p, id)
SaveSession(p) == Write(p) \/ WriteFails(p) \/ ReadIndex(p) \/ OpenIndex(p) \/ Put(p)
Next == \E p \in Procs :
  \/ \E id \in Ids : Start(p, id) \/ StartFork(p, id)
  \/ Load(p) \/ Stream(p) \/ Quit(p) \/ Die(p)
  \/ Handle(p) \/ SaveSession(p)
Spec == Init /\ [][Next]_vars

-----------------------------------------------------------------------------
(* Every variable has the values the code can give it. *)
Content == [turns : Seq(Nat), name : Names \cup {NoName, "-fork"}, last : Nat]
Entries == [name : Names \cup {NoName, "-fork"}, last : Nat]
IsIndex(i) == DOMAIN i \subseteq Ids /\ \A x \in DOMAIN i : i[x] \in Entries
TypeOK ==
  /\ pc \in [Procs -> Saving \cup {"off", "load", "prompt", "record"}]
  /\ sid \in [Procs -> Ids] /\ mem \in [Procs -> Content]
  /\ then \in [Procs -> {"off", "load", "prompt", "record"}]
  /\ DOMAIN idx = Procs /\ \A p \in Procs : IsIndex(idx[p])
  /\ IsIndex(index) /\ indexTorn \in BOOLEAN
  /\ file \in [Ids -> Content] /\ torn \subseteq saved /\ saved \subseteq Ids
  /\ clock \in Nat
  /\ contested \subseteq Ids /\ raced \in BOOLEAN /\ harm \in 0..MaxHarm /\ namings \in 0..MaxNamings

(* At the prompt, a session no other process ever had open and no write of   *)
(* which was lost is on disk as it is in memory: the next --resume finds the *)
(* name and every turn that was recorded.  (A line that went through handle  *)
(* is; a streamed one is shown, and is in neither.)                          *)
OnDisk == \A p \in Procs :
  pc[p] = "prompt" /\ sid[p] \notin contested /\ mem[p].turns # <<>> =>
    sid[p] \in Readable /\ file[sid[p]] = mem[p]

(* Nothing said is forgotten: a transcript is only extended, or its older    *)
(* turns folded into a summary, however sessions are resumed, forked and     *)
(* left - as long as only one process at a time has it open.                 *)
Extends(old, new) == \E k \in 0..Len(old) :
  LET kept == (IF k = 0 THEN <<>> ELSE <<0>>) \o SubSeq(old, k + 1, Len(old))
  IN  Len(kept) <= Len(new) /\ SubSeq(new, 1, Len(kept)) = kept
NothingForgotten ==
  [][\A i \in Ids \ contested' : Extends(file[i].turns, file'[i].turns)]_vars

(* While index updates do not overlap, every session can be found by its     *)
(* name and by how recent it is: the index agrees with the transcripts.      *)
AtRest == \A p \in Procs : pc[p] \notin Saving
IndexAgrees == ~raced /\ AtRest =>
  \A i \in saved \ contested : i \in DOMAIN IndexRead /\ IndexRead[i] = Meta(file[i])

(* Whatever overlaps or fails, the index names only sessions that have a     *)
(* transcript file: -c never starts an empty one under a stale id.           *)
IndexNamesSaved == DOMAIN index \subseteq saved
=============================================================================
