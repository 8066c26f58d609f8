--------------------------- MODULE SessionsProofs ---------------------------
(***************************************************************************)
(* Proofs about Sessions for any processes, sessions and names.            *)
(***************************************************************************)
EXTENDS Sessions, TLAPS

USE SessionsAssumption

\* A session two live processes have open is contested.
Alone == \A p, q \in Procs :
  p # q /\ Live(p) /\ Live(q) /\ sid[p] = sid[q] => sid[p] \in contested

\* A process that has its session to itself finds on disk what it holds: at the prompt
\* unless it has said nothing, and from the write of the transcript on.
Kept(p) == sid[p] \in saved \ torn /\ file[sid[p]] = mem[p]
SyncedAt(p) == Live(p) /\ sid[p] \notin contested =>
  /\ pc[p] \in {"prompt", "record"} => mem[p].turns = <<>> \/ Kept(p)
  /\ pc[p] = "write" => sid[p] \in torn
  /\ pc[p] \in {"index", "trunc", "put", "load"} => Kept(p)
Synced == \A p \in Procs : SyncedAt(p)

\* The index, and every copy of it, names sessions that were saved.
Named ==
  /\ DOMAIN index \subseteq saved
  /\ \A p \in Procs : /\ DOMAIN idx[p] \subseteq saved
                      /\ pc[p] \in Saving => sid[p] \in saved

IInv == TypeOK /\ Alone /\ Synced /\ Named

-----------------------------------------------------------------------------
(* What the helpers return. *)
LEMMA Empty == DOMAIN <<>> = {} /\ \A S : <<>> \in Seq(S)
  OBVIOUS

LEMMA FreshType == TypeOK => Fresh \in Content /\ Blank \in Content
  BY Empty DEF TypeOK, Fresh, Blank, Content

LEMMA LoadedType == TypeOK => \A id \in Ids : Loaded(id) \in Content
  BY FreshType DEF TypeOK, Loaded

LEMMA ForkedType == TypeOK => \A id \in Ids : Forked(file[id]) \in Content
  BY DEF TypeOK, Forked, Content

LEMMA SaidType == \A s \in Content, n \in Nat : Said(s, n) \in Content
  BY DEF Said, Content

LEMMA NamedType == \A s \in Content, n \in Names : [s EXCEPT !.name = n] \in Content
  BY DEF Content

LEMMA FoldedType == \A s \in Content, q \in Seq(Nat) : [s EXCEPT !.turns = q] \in Content
  BY DEF Content

LEMMA CompactedType ==
  ASSUME NEW s \in Seq(Nat), Len(s) > Keep
  PROVE  Compacted(s) \in Seq(Nat)
<1>1. Len(s) - Keep + 1 \in 1..Len(s) + 1
  OBVIOUS
<1>2. SubSeq(s, Len(s) - Keep + 1, Len(s)) \in Seq(Nat)
  BY <1>1
<1>3. <<0>> \in Seq(Nat)
  OBVIOUS
<1> QED
  BY <1>2, <1>3 DEF Compacted

LEMMA IndexReadType == TypeOK /\ Named => IsIndex(IndexRead) /\ DOMAIN IndexRead \subseteq saved
  BY Empty DEF TypeOK, Named, IndexRead, IsIndex

LEMMA MetaType == \A s \in Content : Meta(s) \in Entries
  BY DEF Meta, Content, Entries

-----------------------------------------------------------------------------
LEMMA Initially == Init => IInv
<1> SUFFICES ASSUME Init PROVE IInv
  OBVIOUS
<1>1. (CHOOSE i \in Ids : TRUE) \in Ids
  OBVIOUS
<1>2. Keep + 1 \in Nat /\ [i \in 1..Keep + 1 |-> i] \in Seq(Nat)
  OBVIOUS
<1>3. Earlier \in Content /\ Blank \in Content
  BY <1>2, Empty DEF Earlier, Blank, Content
<1>4. IsIndex(index) /\ DOMAIN index \subseteq saved
  BY <1>3, MetaType DEF Init, IsIndex
<1>5. DOMAIN idx = Procs /\ \A p \in Procs : IsIndex(idx[p]) /\ DOMAIN idx[p] = {}
  BY Empty DEF Init, IsIndex
<1>6. TypeOK
  <2>1. file \in [Ids -> Content] /\ mem \in [Procs -> Content]
    BY <1>3 DEF Init
  <2>2. torn \subseteq saved /\ saved \subseteq Ids /\ clock \in Nat
    BY <1>2 DEF Init
  <2>3. /\ pc \in [Procs -> Saving \cup {"off", "load", "prompt", "record"}]
        /\ then \in [Procs -> {"off", "load", "prompt", "record"}]
        /\ sid \in [Procs -> Ids]
    BY <1>1 DEF Init
  <2>4. /\ indexTorn \in BOOLEAN /\ contested \subseteq Ids /\ raced \in BOOLEAN
        /\ harm = 0 /\ namings = 0
    BY DEF Init
  <2>5. 0 \in 0..MaxHarm /\ 0 \in 0..MaxNamings
    OBVIOUS
  <2> QED
    BY <1>4, <1>5, <2>1, <2>2, <2>3, <2>4, <2>5 DEF TypeOK
<1> QED
  BY <1>4, <1>5, <1>6 DEF Init, IInv, Alone, Synced, SyncedAt, Named, Live, Saving

-----------------------------------------------------------------------------
\* What is left to show of a step of one process: its session is its own as before, or
\* it opens one and that is known, or it is gone.
LEMMA Frame ==
  ASSUME IInv, NEW p \in Procs, TypeOK',
         saved \subseteq saved', contested \subseteq contested',
         \A q \in Procs \ {p} : /\ pc'[q] = pc[q] /\ sid'[q] = sid[q]
                                /\ mem'[q] = mem[q] /\ idx'[q] = idx[q],
         \A i \in Ids : i # sid'[p] => file'[i] = file[i] /\ (i \in torn' <=> i \in torn),
         \/ sid'[p] = sid[p] /\ Live(p)
         \/ \A q \in Procs \ {p} : Live(q) /\ sid[q] = sid'[p] => sid'[p] \in contested'
         \/ ~Live(p)' /\ file' = file /\ torn' = torn,
         SyncedAt(p)',
         DOMAIN index' \subseteq saved', DOMAIN idx'[p] \subseteq saved',
         pc'[p] \in Saving => sid'[p] \in saved'
  PROVE  IInv'
<1>1. Alone'
  BY DEF IInv, Alone, Live
<1>2. ASSUME NEW q \in Procs, q # p PROVE SyncedAt(q)'
  <2> SUFFICES ASSUME Live(q), sid[q] \notin contested' PROVE SyncedAt(q)'
    BY <1>2 DEF SyncedAt, Live
  <2>1. SyncedAt(q) /\ sid[q] \notin contested /\ sid[q] \in Ids
    BY DEF IInv, Synced, TypeOK
  <2>2. file'[sid[q]] = file[sid[q]] /\ (sid[q] \in torn' <=> sid[q] \in torn)
    <3>1. CASE sid'[p] = sid[p] /\ Live(p)
      BY <1>2, <2>1, <3>1 DEF IInv, Alone
    <3>2. CASE \A r \in Procs \ {p} : Live(r) /\ sid[r] = sid'[p] => sid'[p] \in contested'
      BY <1>2, <2>1, <3>2
    <3>3. CASE file' = file /\ torn' = torn
      BY <3>3
    <3> QED
      BY <3>1, <3>2, <3>3
  <2> QED
    BY <1>2, <2>1, <2>2 DEF SyncedAt, Kept, Live
<1>3. Synced'
  BY <1>2 DEF Synced
<1>4. Named'
  <2>1. \A q \in Procs \ {p} : DOMAIN idx'[q] \subseteq saved'
    BY DEF IInv, Named
  <2>2. \A q \in Procs \ {p} : pc'[q] \in Saving => sid'[q] \in saved'
    BY DEF IInv, Named
  <2> QED
    BY <2>1, <2>2 DEF Named
<1> QED
  BY <1>1, <1>3, <1>4 DEF IInv

\* A process starts, or goes on with another session, without saving it.
LEMMA StartKeeps ==
  ASSUME IInv, NEW p \in Procs, NEW id \in Ids, Start(p, id)
  PROVE  IInv'
<1> USE DEF Start, Take, Goto, disk
<1>1. Loaded(id) \in Content
  BY LoadedType DEF IInv
<1>2. TypeOK'
  BY <1>1 DEF IInv, TypeOK, IsIndex
<1>3. \A q \in Procs \ {p} : Live(q) /\ sid[q] = id => id \in contested'
  OBVIOUS
<1>4. /\ pc'[p] = "prompt" /\ sid'[p] = id /\ mem'[p] = Loaded(id)
      /\ \A q \in Procs \ {p} : /\ pc'[q] = pc[q] /\ sid'[q] = sid[q]
                                /\ mem'[q] = mem[q] /\ idx'[q] = idx[q]
  BY DEF IInv, TypeOK
<1>5. SyncedAt(p)'
  BY <1>4 DEF SyncedAt, Kept, Loaded, Readable, Fresh
<1>6. DOMAIN index' \subseteq saved' /\ DOMAIN idx'[p] \subseteq saved'
  BY DEF IInv, Named
<1> QED
  BY <1>2, <1>3, <1>4, <1>5, <1>6, Frame DEF Saving

LEMMA NewKeeps ==
  ASSUME IInv, NEW p \in Procs, CmdNew(p)
  PROVE  IInv'
<1> USE DEF CmdNew, Prompt, Take, Goto, disk
<1>1. PICK new \in Unused : Take(p, new, Fresh)
  OBVIOUS
<1>2. new \in Ids /\ Fresh \in Content
  BY FreshType DEF IInv, Unused
<1>3. TypeOK'
  BY <1>1, <1>2 DEF IInv, TypeOK, IsIndex
<1>4. \A q \in Procs \ {p} : Live(q) /\ sid[q] = new => new \in contested'
  BY <1>1
<1>5. /\ pc'[p] = "record" /\ sid'[p] = new /\ mem'[p] = Fresh
      /\ \A q \in Procs \ {p} : /\ pc'[q] = pc[q] /\ sid'[q] = sid[q]
                                /\ mem'[q] = mem[q] /\ idx'[q] = idx[q]
  BY <1>1 DEF IInv, TypeOK
<1>6. SyncedAt(p)'
  BY <1>5 DEF SyncedAt, Fresh
<1>7. DOMAIN index' \subseteq saved' /\ DOMAIN idx'[p] \subseteq saved'
  BY DEF IInv, Named
<1>8. contested \subseteq contested'
  BY <1>1
<1> QED
  BY <1>3, <1>4, <1>5, <1>6, <1>7, <1>8, Frame DEF Saving

LEMMA ResumeKeeps ==
  ASSUME IInv, NEW p \in Procs, NEW id \in Ids, CmdResume(p, id)
  PROVE  IInv'
<1> USE DEF CmdResume, Prompt, Take, Goto, disk
<1>1. TypeOK'
  BY DEF IInv, TypeOK, IsIndex
<1>2. \A q \in Procs \ {p} : Live(q) /\ sid[q] = id => id \in contested'
  OBVIOUS
<1>3. /\ pc'[p] = "record" /\ sid'[p] = id /\ mem'[p] = file[id] /\ id \in Readable
      /\ \A q \in Procs \ {p} : /\ pc'[q] = pc[q] /\ sid'[q] = sid[q]
                                /\ mem'[q] = mem[q] /\ idx'[q] = idx[q]
  BY DEF IInv, TypeOK
<1>4. SyncedAt(p)'
  BY <1>3 DEF SyncedAt, Kept, Readable
<1>5. DOMAIN index' \subseteq saved' /\ DOMAIN idx'[p] \subseteq saved'
  BY DEF IInv, Named
<1> QED
  BY <1>1, <1>2, <1>3, <1>4, <1>5, Frame DEF Saving

\* The steps that begin a save: the transcript is truncated, so it is torn until the
\* write; the content is what the process holds.
LEMMA SaveKeeps ==
  ASSUME IInv, NEW p \in Procs, NEW next \in {"load", "record", "prompt"}, Save(p, next),
         UNCHANGED <<idx, file, index, indexTorn, raced>>,
         sid' \in [Procs -> Ids], mem' \in [Procs -> Content],
         clock' \in Nat, harm' \in 0..MaxHarm, namings' \in 0..MaxNamings,
         contested \subseteq contested', contested' \subseteq Ids,
         \A q \in Procs \ {p} : sid'[q] = sid[q] /\ mem'[q] = mem[q],
         \/ sid'[p] = sid[p] /\ Live(p)
         \/ \A q \in Procs \ {p} : Live(q) /\ sid[q] = sid'[p] => sid'[p] \in contested'
  PROVE  IInv'
<1> USE DEF Save, Goto
<1>1. sid'[p] \in Ids /\ saved \subseteq saved'
  OBVIOUS
<1>2. pc' = [pc EXCEPT ![p] = "write"] /\ then' = [then EXCEPT ![p] = next]
  OBVIOUS
<1>3. /\ pc' \in [Procs -> Saving \cup {"off", "load", "prompt", "record"}]
      /\ then' \in [Procs -> {"off", "load", "prompt", "record"}]
      /\ pc'[p] = "write" /\ \A q \in Procs \ {p} : pc'[q] = pc[q]
  BY <1>2 DEF IInv, TypeOK, Saving
<1>4. torn' \subseteq saved' /\ saved' \subseteq Ids
  BY <1>1 DEF IInv, TypeOK
<1>5. TypeOK'
  BY <1>3, <1>4 DEF IInv, TypeOK, IsIndex
<1>6. SyncedAt(p)'
  BY <1>3 DEF SyncedAt
<1>7. \A i \in Ids : i # sid'[p] => file'[i] = file[i] /\ (i \in torn' <=> i \in torn)
  OBVIOUS
<1>8. DOMAIN index' \subseteq saved' /\ DOMAIN idx'[p] \subseteq saved' /\ sid'[p] \in saved'
  BY DEF IInv, Named
<1> QED
  BY <1>1, <1>3, <1>5, <1>6, <1>7, <1>8, Frame

LEMMA ForkKeeps ==
  ASSUME IInv, NEW p \in Procs, NEW id \in Ids, StartFork(p, id) \/ CmdFork(p, id)
  PROVE  IInv'
<1>1. PICK new \in Unused : Take(p, new, Forked(file[id]))
  BY DEF StartFork, CmdFork
<1>2. new \in Ids /\ Forked(file[id]) \in Content
  BY ForkedType DEF IInv, Unused
<1>3. /\ sid' \in [Procs -> Ids] /\ mem' \in [Procs -> Content] /\ sid'[p] = new
      /\ contested \subseteq contested' /\ contested' \subseteq Ids
      /\ \A q \in Procs \ {p} : sid'[q] = sid[q] /\ mem'[q] = mem[q]
      /\ \A q \in Procs \ {p} : Live(q) /\ sid[q] = sid'[p] => sid'[p] \in contested'
  BY <1>1, <1>2 DEF IInv, TypeOK, Take
<1>4. /\ UNCHANGED <<idx, file, index, indexTorn, raced>>
      /\ clock' \in Nat /\ harm' \in 0..MaxHarm /\ namings' \in 0..MaxNamings
  BY DEF IInv, TypeOK, StartFork, CmdFork
<1>5. Save(p, "load") \/ Save(p, "record")
  BY DEF StartFork, CmdFork
<1> QED
  BY <1>3, <1>4, <1>5, SaveKeeps

LEMMA NameKeeps ==
  ASSUME IInv, NEW p \in Procs, NEW n \in Names, NEW next \in {"record", "prompt"},
         CmdName(p, n, next)
  PROVE  IInv'
<1> USE DEF CmdName, Prompt
<1>1. [mem[p] EXCEPT !.name = n] \in Content
  BY NamedType DEF IInv, TypeOK
<1>2. /\ sid' \in [Procs -> Ids] /\ mem' \in [Procs -> Content] /\ sid' = sid /\ Live(p)
      /\ \A q \in Procs \ {p} : sid'[q] = sid[q] /\ mem'[q] = mem[q]
  BY <1>1 DEF IInv, TypeOK, Live
<1>3. /\ UNCHANGED <<idx, file, index, indexTorn, raced, contested>> /\ contested \subseteq Ids
      /\ clock' \in Nat /\ harm' \in 0..MaxHarm /\ namings' \in 0..MaxNamings
  BY DEF IInv, TypeOK
<1> QED
  BY <1>2, <1>3, SaveKeeps

LEMMA CompactKeeps ==
  ASSUME IInv, NEW p \in Procs, CmdCompact(p)
  PROVE  IInv'
<1> USE DEF CmdCompact, Prompt
<1>1. mem[p].turns \in Seq(Nat) /\ Len(mem[p].turns) > Keep
  BY DEF IInv, TypeOK, Content
<1>2. Compacted(mem[p].turns) \in Seq(Nat)
  BY <1>1, CompactedType
<1>3. [mem[p] EXCEPT !.turns = Compacted(@)] \in Content
  BY <1>2, FoldedType DEF IInv, TypeOK
<1>4. mem' = [mem EXCEPT ![p] = [mem[p] EXCEPT !.turns = Compacted(@)]]
  OBVIOUS
<1>5. /\ sid' \in [Procs -> Ids] /\ mem' \in [Procs -> Content] /\ sid' = sid /\ Live(p)
      /\ \A q \in Procs \ {p} : sid'[q] = sid[q] /\ mem'[q] = mem[q]
  BY <1>3, <1>4 DEF IInv, TypeOK, Live
<1>6. /\ UNCHANGED <<idx, file, index, indexTorn, raced, contested>> /\ contested \subseteq Ids
      /\ clock' \in Nat /\ harm' \in 0..MaxHarm /\ namings' \in 0..MaxNamings
  BY DEF IInv, TypeOK, ghosts
<1> QED
  BY <1>5, <1>6, SaveKeeps

LEMMA RecordKeeps ==
  ASSUME IInv, NEW p \in Procs, Record(p)
  PROVE  IInv'
<1> USE DEF Record, Prompt
<1>1. Said(mem[p], clock') \in Content /\ clock' \in Nat
  BY SaidType DEF IInv, TypeOK
<1>2. /\ sid' \in [Procs -> Ids] /\ mem' \in [Procs -> Content] /\ sid' = sid /\ Live(p)
      /\ \A q \in Procs \ {p} : sid'[q] = sid[q] /\ mem'[q] = mem[q]
  BY <1>1 DEF IInv, TypeOK, Live
<1>3. /\ UNCHANGED <<idx, file, index, indexTorn, raced, contested>> /\ contested \subseteq Ids
      /\ harm' \in 0..MaxHarm /\ namings' \in 0..MaxNamings
  BY DEF IInv, TypeOK, ghosts
<1> QED
  BY <1>1, <1>2, <1>3, SaveKeeps

-----------------------------------------------------------------------------
(* The rest of save_session, and the other steps of a process. *)
LEMMA WriteKeeps ==
  ASSUME IInv, NEW p \in Procs, Write(p)
  PROVE  IInv'
<1> USE DEF Write, Goto
<1>1. /\ pc[p] = "write" /\ pc'[p] = "index" /\ sid' = sid /\ mem' = mem /\ idx' = idx
      /\ saved' = saved /\ index' = index /\ contested' = contested /\ raced' = raced
      /\ \A q \in Procs \ {p} : pc'[q] = pc[q]
  BY DEF IInv, TypeOK, ghosts
<1>2. sid[p] \in saved /\ sid[p] \in Ids
  BY <1>1 DEF IInv, TypeOK, Named, Saving
<1>3. file' \in [Ids -> Content] /\ file'[sid[p]] = mem[p]
      /\ \A i \in Ids : i # sid[p] => file'[i] = file[i]
  BY <1>2 DEF IInv, TypeOK
<1>4. /\ torn' \subseteq saved /\ \A i \in Ids : i # sid[p] => (i \in torn' <=> i \in torn)
      /\ sid[p] \in torn => sid[p] \notin torn'
  BY <1>2 DEF IInv, TypeOK
<1>5. TypeOK'
  BY <1>1, <1>3, <1>4 DEF IInv, TypeOK, IsIndex, Saving, ghosts
<1>6. SyncedAt(p)'
  BY <1>1, <1>2, <1>3, <1>4 DEF IInv, Synced, SyncedAt, Kept, Live
<1>7. DOMAIN index' \subseteq saved' /\ DOMAIN idx'[p] \subseteq saved' /\ sid'[p] \in saved'
  BY <1>1, <1>2 DEF IInv, Named
<1> QED
  BY <1>1, <1>3, <1>4, <1>5, <1>6, <1>7, Frame DEF Live

LEMMA WriteFailsKeeps ==
  ASSUME IInv, NEW p \in Procs, WriteFails(p)
  PROVE  IInv'
<1> USE DEF WriteFails, Goto, disk
<1>1. /\ pc[p] = "write" /\ pc'[p] = "index" /\ sid' = sid /\ mem' = mem /\ idx' = idx
      /\ UNCHANGED disk /\ \A q \in Procs \ {p} : pc'[q] = pc[q]
  BY DEF IInv, TypeOK
<1>2. sid[p] \in saved /\ sid[p] \in Ids /\ sid[p] \in contested'
  BY <1>1 DEF IInv, TypeOK, Named, Saving
<1>3. harm' \in 0..MaxHarm
  BY DEF IInv, TypeOK
<1>4. TypeOK'
  BY <1>1, <1>2, <1>3 DEF IInv, TypeOK, IsIndex, Saving
<1>5. SyncedAt(p)'
  BY <1>1, <1>2 DEF SyncedAt
<1>6. DOMAIN index' \subseteq saved' /\ DOMAIN idx'[p] \subseteq saved' /\ sid'[p] \in saved'
  BY <1>1, <1>2 DEF IInv, Named
<1> QED
  BY <1>1, <1>4, <1>5, <1>6, Frame DEF Live

LEMMA ReadIndexKeeps ==
  ASSUME IInv, NEW p \in Procs, ReadIndex(p)
  PROVE  IInv'
<1> USE DEF ReadIndex, Goto, disk
<1>1. /\ pc[p] = "index" /\ pc'[p] = "trunc" /\ sid' = sid /\ mem' = mem
      /\ UNCHANGED <<disk, contested>>
      /\ \A q \in Procs \ {p} : pc'[q] = pc[q] /\ idx'[q] = idx[q]
  BY DEF IInv, TypeOK
<1>2. IsIndex(IndexRead) /\ DOMAIN IndexRead \subseteq saved
  BY IndexReadType DEF IInv
<1>3. TypeOK'
  BY <1>1, <1>2 DEF IInv, TypeOK, IsIndex, Saving
<1>4. SyncedAt(p)'
  BY <1>1 DEF IInv, Synced, SyncedAt, Kept, Live
<1>5. DOMAIN index' \subseteq saved' /\ DOMAIN idx'[p] \subseteq saved' /\ sid'[p] \in saved'
  BY <1>1, <1>2 DEF IInv, Named, Saving
<1> QED
  BY <1>1, <1>3, <1>4, <1>5, Frame DEF Live

LEMMA OpenIndexKeeps ==
  ASSUME IInv, NEW p \in Procs, OpenIndex(p)
  PROVE  IInv'
<1> USE DEF OpenIndex, Goto, ghosts
<1>1. /\ pc[p] = "trunc" /\ pc'[p] = "put" /\ \A q \in Procs \ {p} : pc'[q] = pc[q]
  BY DEF IInv, TypeOK
<1>2. TypeOK'
  BY <1>1 DEF IInv, TypeOK, IsIndex, Saving
<1>3. SyncedAt(p)'
  BY <1>1 DEF IInv, Synced, SyncedAt, Kept, Live
<1>4. DOMAIN index' \subseteq saved' /\ DOMAIN idx'[p] \subseteq saved' /\ sid'[p] \in saved'
  BY <1>1 DEF IInv, Named, Saving
<1> QED
  BY <1>1, <1>2, <1>3, <1>4, Frame DEF Live

LEMMA PutKeeps ==
  ASSUME IInv, NEW p \in Procs, Put(p)
  PROVE  IInv'
<1> USE DEF Put, Goto, ghosts
<1>1. /\ pc[p] = "put" /\ pc'[p] = then[p] /\ sid' = sid /\ mem' = mem /\ idx'[p] = <<>>
      /\ \A q \in Procs \ {p} : pc'[q] = pc[q] /\ idx'[q] = idx[q]
  BY DEF IInv, TypeOK
<1>2. /\ sid[p] \in saved /\ sid[p] \in Ids /\ DOMAIN idx[p] \subseteq saved
      /\ IsIndex(idx[p]) /\ Meta(mem[p]) \in Entries
  BY <1>1, MetaType DEF IInv, TypeOK, Named, Saving
<1>3. IsIndex(index') /\ DOMAIN index' \subseteq saved
  BY <1>2 DEF IsIndex, IInv, TypeOK
<1>4. IsIndex(<<>>) /\ DOMAIN <<>> \subseteq saved
  BY Empty DEF IsIndex
<1>5. TypeOK'
  BY <1>1, <1>3, <1>4 DEF IInv, TypeOK, IsIndex, Saving
<1>6. SyncedAt(p)'
  BY <1>1 DEF IInv, TypeOK, Synced, SyncedAt, Kept, Live
<1>7. then[p] \notin Saving
  BY DEF IInv, TypeOK, Saving
<1> QED
  BY <1>1, <1>3, <1>4, <1>5, <1>6, <1>7, Frame DEF Live

LEMMA LoadKeeps ==
  ASSUME IInv, NEW p \in Procs, Load(p)
  PROVE  IInv'
<1> USE DEF Load, Goto, disk, ghosts
<1>1. /\ pc[p] = "load" /\ pc'[p] = "prompt" /\ sid' = sid /\ mem'[p] = Loaded(sid[p])
      /\ \A q \in Procs \ {p} : pc'[q] = pc[q] /\ mem'[q] = mem[q]
  BY DEF IInv, TypeOK
<1>2. Loaded(sid[p]) \in Content
  BY LoadedType DEF IInv, TypeOK
<1>3. TypeOK'
  BY <1>1, <1>2 DEF IInv, TypeOK, IsIndex
<1>4. SyncedAt(p)'
  BY <1>1 DEF SyncedAt, Kept, Loaded, Readable, Fresh
<1>5. DOMAIN index' \subseteq saved' /\ DOMAIN idx'[p] \subseteq saved'
  BY DEF IInv, Named
<1> QED
  BY <1>1, <1>3, <1>4, <1>5, Frame DEF Live, Saving

LEMMA StreamKeeps ==
  ASSUME IInv, NEW p \in Procs, Stream(p)
  PROVE  IInv'
<1> USE DEF Stream, disk, ghosts
<1>1. TypeOK'
  BY DEF IInv, TypeOK, IsIndex
<1> QED
  BY <1>1 DEF IInv, Alone, Synced, SyncedAt, Kept, Named, Live

LEMMA GoneKeeps ==
  ASSUME IInv, NEW p \in Procs, Quit(p) \/ Die(p)
  PROVE  IInv'
<1> USE DEF Gone, Goto, disk
<1>1. (CHOOSE i \in Ids : TRUE) \in Ids /\ Blank \in Content
  BY FreshType DEF IInv
<1>2. /\ Gone(p) /\ UNCHANGED disk /\ clock' = clock
      /\ contested \subseteq contested' /\ contested' \subseteq Ids
      /\ raced' \in BOOLEAN /\ harm' \in 0..MaxHarm /\ namings' \in 0..MaxNamings
  <2>1. sid[p] \in Ids /\ contested \subseteq Ids /\ raced \in BOOLEAN
    BY DEF IInv, TypeOK
  <2>2. CASE Quit(p)
    BY <2>2 DEF Quit, ghosts, IInv, TypeOK
  <2>3. CASE Die(p)
    <3>1. raced' \in BOOLEAN
      BY <2>3 DEF Die
    <3>2. harm' \in 0..MaxHarm
      BY <2>3 DEF Die, IInv, TypeOK
    <3>3. contested \subseteq contested' /\ contested' \subseteq Ids
      BY <2>1, <2>3 DEF Die
    <3> QED
      BY <2>3, <3>1, <3>2, <3>3 DEF Die, IInv, TypeOK
  <2> QED
    BY <2>2, <2>3
<1>3. /\ pc'[p] = "off" /\ idx'[p] = <<>> /\ ~Live(p)'
      /\ \A q \in Procs \ {p} : /\ pc'[q] = pc[q] /\ sid'[q] = sid[q]
                                /\ mem'[q] = mem[q] /\ idx'[q] = idx[q]
  BY <1>2 DEF IInv, TypeOK, Live
<1>4. IsIndex(<<>>) /\ DOMAIN <<>> \subseteq saved
  BY Empty DEF IsIndex
<1>5. TypeOK'
  BY <1>1, <1>2, <1>4 DEF IInv, TypeOK, IsIndex
<1>6. SyncedAt(p)'
  BY <1>3 DEF SyncedAt
<1>7. DOMAIN index' \subseteq saved'
  BY <1>2 DEF IInv, Named
<1> QED
  BY <1>2, <1>3, <1>4, <1>5, <1>6, <1>7, Frame DEF Saving

-----------------------------------------------------------------------------
LEMMA Inductive == IInv /\ [Next]_vars => IInv'
<1> SUFFICES ASSUME IInv, [Next]_vars PROVE IInv'
  OBVIOUS
<1>1. ASSUME NEW p \in Procs, Handle(p) PROVE IInv'
  BY <1>1, NewKeeps, CompactKeeps, RecordKeeps, NameKeeps, ResumeKeeps, ForkKeeps DEF Handle
<1>2. ASSUME NEW p \in Procs, SaveSession(p) PROVE IInv'
  BY <1>2, WriteKeeps, WriteFailsKeeps, ReadIndexKeeps, OpenIndexKeeps, PutKeeps DEF SaveSession
<1>3. CASE UNCHANGED vars
  BY <1>3 DEF vars, disk, ghosts, IInv, TypeOK, Alone, Synced, SyncedAt, Kept, Named, Live,
     IsIndex
<1> QED
  BY <1>1, <1>2, <1>3, StartKeeps, ForkKeeps, LoadKeeps, StreamKeeps, GoneKeeps DEF Next

LEMMA Invariant == Spec => []IInv
<1>1. Init => IInv
  BY Initially
<1>2. IInv /\ [Next]_vars => IInv'
  BY Inductive
<1> QED
  BY <1>1, <1>2, PTL DEF Spec

\* Every variable has its type: conversations, transcripts and the index.
THEOREM TypeCorrect == Spec => []TypeOK
<1>1. IInv => TypeOK
  BY DEF IInv
<1> QED
  BY <1>1, Invariant, PTL

\* At the prompt save_session has put every turn that was recorded, and the name, on disk,
\* unless another process has had the session open too or a write of it was lost: after
\* /resume, /fork, /compact and /name alike, and for any number of processes.
THEOREM RecordedIsSaved == Spec => []OnDisk
<1>1. IInv => OnDisk
  BY DEF IInv, Synced, SyncedAt, Kept, Live, Readable, OnDisk
<1> QED
  BY <1>1, Invariant, PTL

\* Index entries name sessions with a transcript, whatever overlaps, fails or dies:
\* save_session writes the transcript before the index, and nothing removes one.
THEOREM IndexIsBacked == Spec => []IndexNamesSaved
<1>1. IInv => IndexNamesSaved
  BY DEF IInv, Named, IndexNamesSaved
<1> QED
  BY <1>1, Invariant, PTL
-----------------------------------------------------------------------------
\* While index updates do not overlap, one process at a time works on the index, from a copy that
\* is still what the file says, and the file does not parse just while that process writes it; the
\* entry of a session is that of its transcript except in the middle of a save of that session.
Updating == {"trunc", "put"}
Indexed(i) == i \in DOMAIN index /\ index[i] = Meta(file[i])
BeingSaved(i) == \E p \in Procs : pc[p] \in Saving /\ sid[p] = i
Orderly == ~raced =>
  /\ \A p, q \in Procs : pc[p] \in Updating /\ pc[q] \in Updating => p = q
  /\ indexTorn <=> \E p \in Procs : pc[p] = "put"
  /\ \A p \in Procs : pc[p] \in Updating => idx[p] = index
  /\ \A i \in saved \ contested : BeingSaved(i) \/ Indexed(i)

\* The steps of a process that is not at the index: the saves of the others go on, and what it
\* changes of a transcript it is saving.
LEMMA OffIndex ==
  ASSUME Orderly, NEW p \in Procs,
         \A q \in Procs \ {p} : pc'[q] = pc[q] /\ sid'[q] = sid[q] /\ idx'[q] = idx[q],
         UNCHANGED <<index, indexTorn>>, pc[p] \notin Updating, pc'[p] \notin Updating,
         raced' = raced, contested \subseteq contested',
         \A i \in saved' \ contested' :
           \/ pc'[p] \in Saving /\ sid'[p] = i
           \/ i \in saved /\ file'[i] = file[i] /\ ~(pc[p] \in Saving /\ sid[p] = i)
  PROVE  Orderly'
<1> SUFFICES ASSUME ~raced' PROVE Orderly'
  BY DEF Orderly
<1>0. ~raced
  OBVIOUS
<1>1. \A a, b \in Procs : pc'[a] \in Updating /\ pc'[b] \in Updating => a = b
  BY <1>0 DEF Orderly
<1>2. (\E a \in Procs : pc'[a] = "put") <=> (\E a \in Procs : pc[a] = "put")
  BY DEF Updating
<1>3. indexTorn' <=> \E a \in Procs : pc'[a] = "put"
  BY <1>0, <1>2, Zenon DEF Orderly
<1>4. \A a \in Procs : pc'[a] \in Updating => idx'[a] = index'
  BY <1>0 DEF Orderly
<1>5. ASSUME NEW i \in saved' \ contested' PROVE BeingSaved(i)' \/ Indexed(i)'
  <2>1. CASE pc'[p] \in Saving /\ sid'[p] = i
    BY <2>1 DEF BeingSaved
  <2>2. CASE i \in saved /\ file'[i] = file[i] /\ ~(pc[p] \in Saving /\ sid[p] = i)
    <3>1. BeingSaved(i) \/ Indexed(i)
      BY <1>0, <1>5, <2>2 DEF Orderly
    <3>2. ASSUME BeingSaved(i) PROVE BeingSaved(i)'
      BY <2>2, <3>2 DEF BeingSaved
    <3>3. ASSUME Indexed(i) PROVE Indexed(i)'
      BY <2>2, <3>3 DEF Indexed, Meta
    <3> QED
      BY <3>1, <3>2, <3>3
  <2> QED
    BY <1>5, <2>1, <2>2
<1> QED
  BY <1>1, <1>3, <1>4, <1>5 DEF Orderly

LEMMA SaveOrderly ==
  ASSUME IInv, Orderly, NEW p \in Procs, pc[p] \notin Saving, NEW next, Save(p, next),
         \A q \in Procs \ {p} : sid'[q] = sid[q],
         UNCHANGED <<idx, file, index, indexTorn, raced>>, contested \subseteq contested'
  PROVE  Orderly'
<1>1. pc'[p] = "write" /\ \A q \in Procs \ {p} : pc'[q] = pc[q]
  BY DEF Save, Goto, IInv, TypeOK
<1>2. saved' = saved \cup {sid'[p]}
  BY DEF Save
<1> QED
  BY <1>1, <1>2, OffIndex DEF Saving, Updating

LEMMA ReadOrderly ==
  ASSUME IInv, Orderly, NEW p \in Procs, ReadIndex(p)
  PROVE  Orderly'
<1> SUFFICES ASSUME ~raced' PROVE Orderly'
  BY DEF Orderly
<1>1. /\ pc[p] = "index" /\ pc'[p] = "trunc" /\ idx'[p] = IndexRead
      /\ \A q \in Procs \ {p} : pc'[q] = pc[q] /\ idx'[q] = idx[q]
      /\ UNCHANGED <<sid, file, saved, index, indexTorn, contested>>
  BY DEF ReadIndex, Goto, disk, IInv, TypeOK
<1>2. ~raced /\ \A q \in Procs : pc[q] \notin Updating
  BY DEF ReadIndex, Updating
<1>3. ~indexTorn
  BY <1>2 DEF Orderly, Updating
<1>4. idx'[p] = index
  BY <1>1, <1>3 DEF IndexRead
<1>5. \A a, b \in Procs : pc'[a] \in Updating /\ pc'[b] \in Updating => a = b
  BY <1>1, <1>2
<1>6. \A a \in Procs : pc'[a] # "put"
  BY <1>1, <1>2 DEF Updating
<1>7. \A a \in Procs : pc'[a] \in Updating => idx'[a] = index'
  BY <1>1, <1>2, <1>4
<1>8. ~indexTorn'
  BY <1>1, <1>3
<1>9. ASSUME NEW i \in saved' \ contested' PROVE BeingSaved(i)' \/ Indexed(i)'
  <2>1. BeingSaved(i) \/ Indexed(i)
    BY <1>1, <1>2, <1>9 DEF Orderly
  <2> QED
    BY <1>1, <2>1 DEF BeingSaved, Indexed, Saving, Meta
<1> QED
  BY <1>5, <1>6, <1>7, <1>8, <1>9 DEF Orderly

LEMMA OpenOrderly ==
  ASSUME IInv, Orderly, NEW p \in Procs, OpenIndex(p)
  PROVE  Orderly'
<1> SUFFICES ASSUME ~raced' PROVE Orderly'
  BY DEF Orderly
<1>1. /\ pc[p] = "trunc" /\ pc'[p] = "put" /\ indexTorn'
      /\ \A q \in Procs \ {p} : pc'[q] = pc[q]
      /\ UNCHANGED <<sid, idx, file, saved, index, contested, raced>>
  BY DEF OpenIndex, Goto, ghosts, IInv, TypeOK
<1>2. ~raced
  BY <1>1
<1>3. \A a, b \in Procs : pc'[a] \in Updating /\ pc'[b] \in Updating => a = b
  BY <1>1, <1>2 DEF Orderly, Updating
<1>4. \A a \in Procs : pc'[a] \in Updating => idx'[a] = index'
  BY <1>1, <1>2 DEF Orderly, Updating
<1>5. ASSUME NEW i \in saved' \ contested' PROVE BeingSaved(i)' \/ Indexed(i)'
  <2>1. BeingSaved(i) \/ Indexed(i)
    BY <1>1, <1>2, <1>5 DEF Orderly
  <2> QED
    BY <1>1, <2>1 DEF BeingSaved, Indexed, Saving, Meta
<1> QED
  BY <1>1, <1>3, <1>4, <1>5 DEF Orderly

\* The copy the update works on is the index itself, so every other entry stays; its own is of the
\* transcript it has just written.
LEMMA PutOrderly ==
  ASSUME IInv, Orderly, NEW p \in Procs, Put(p)
  PROVE  Orderly'
<1> SUFFICES ASSUME ~raced' PROVE Orderly'
  BY DEF Orderly
<1>1. /\ pc[p] = "put" /\ pc'[p] = then[p]
      /\ \A q \in Procs \ {p} : pc'[q] = pc[q]
      /\ UNCHANGED <<sid, mem, file, saved, contested, raced>>
      /\ index' = [i \in DOMAIN idx[p] \cup {sid[p]} |->
                     IF i = sid[p] THEN Meta(mem[p]) ELSE idx[p][i]]
  BY DEF Put, Goto, ghosts, IInv, TypeOK
<1>2. ~raced /\ pc'[p] \notin Saving /\ pc'[p] \notin Updating
  BY <1>1 DEF IInv, TypeOK, Saving, Updating
<1>3. idx[p] = index /\ \A q \in Procs \ {p} : pc[q] \notin Updating
  BY <1>1, <1>2 DEF Orderly, Updating
<1>4. ~indexTorn'
  <2>1. indexTorn
    BY <1>1, <1>2 DEF Orderly
  <2> QED
    BY <2>1 DEF Put
<1>5. \A q \in Procs : pc'[q] \notin Updating
  BY <1>1, <1>2, <1>3
<1>6. ASSUME NEW i \in saved' \ contested' PROVE BeingSaved(i)' \/ Indexed(i)'
  <2>1. CASE i = sid[p]
    <3>1. file[i] = mem[p]
      BY <1>1, <1>6, <2>1 DEF IInv, Synced, SyncedAt, Live, Kept
    <3> QED
      BY <1>1, <2>1, <3>1 DEF Indexed, Meta
  <2>2. CASE i # sid[p]
    <3>1. BeingSaved(i) \/ Indexed(i)
      BY <1>1, <1>2, <1>6 DEF Orderly
    <3>2. ASSUME BeingSaved(i) PROVE BeingSaved(i)'
      BY <1>1, <2>2, <3>2 DEF BeingSaved
    <3>3. ASSUME Indexed(i) PROVE Indexed(i)'
      BY <1>1, <1>3, <2>2, <3>3 DEF Indexed, Meta
    <3> QED
      BY <3>1, <3>2, <3>3
  <2> QED
    BY <2>1, <2>2
<1> QED
  BY <1>4, <1>5, <1>6 DEF Orderly, Updating

LEMMA DieOrderly ==
  ASSUME IInv, Orderly, NEW p \in Procs, Die(p)
  PROVE  Orderly'
<1>1. /\ pc'[p] = "off" /\ \A q \in Procs \ {p} : pc'[q] = pc[q] /\ sid'[q] = sid[q] /\ idx'[q] = idx[q]
      /\ UNCHANGED <<file, saved, index, indexTorn>>
      /\ contested \subseteq contested' /\ (pc[p] \in Saving => sid[p] \in contested')
  BY DEF Die, Gone, Goto, disk, IInv, TypeOK
<1>2. CASE pc[p] \in {"index", "trunc", "put"}
  <2>1. raced'
    BY <1>2 DEF Die
  <2> QED
    BY <2>1 DEF Orderly
<1>3. CASE pc[p] \notin {"index", "trunc", "put"}
  <2>1. raced' <=> raced
    BY <1>3 DEF Die
  <2>2. raced' = raced
    BY <2>1 DEF Die, IInv, TypeOK
  <2> QED
    BY <1>1, <1>3, <2>2, OffIndex DEF Updating, Saving
<1> QED
  BY <1>2, <1>3

LEMMA OrderlyInductive == IInv /\ Orderly /\ [Next]_vars => Orderly'
<1> SUFFICES ASSUME IInv, Orderly, [Next]_vars PROVE Orderly'
  OBVIOUS
<1>1. ASSUME NEW p \in Procs, NEW id \in Ids, Start(p, id) \/ CmdResume(p, id) PROVE Orderly'
  <2>1. /\ pc[p] \notin Saving /\ pc'[p] \notin Saving
        /\ \A q \in Procs \ {p} : pc'[q] = pc[q] /\ sid'[q] = sid[q] /\ idx'[q] = idx[q]
    BY <1>1 DEF Start, CmdResume, Prompt, Take, Goto, Saving, IInv, TypeOK
  <2>2. UNCHANGED <<disk, raced>> /\ contested \subseteq contested'
    BY <1>1 DEF Start, CmdResume, Take
  <2> QED
    BY <2>1, <2>2, OffIndex DEF Updating, Saving, disk
<1>2. ASSUME NEW p \in Procs, CmdNew(p) \/ Load(p) \/ Stream(p) \/ Quit(p) PROVE Orderly'
  <2>1. /\ pc[p] \notin Saving /\ pc'[p] \notin Saving
        /\ \A q \in Procs \ {p} : pc'[q] = pc[q] /\ sid'[q] = sid[q] /\ idx'[q] = idx[q]
    BY <1>2 DEF CmdNew, Load, Stream, Quit, Gone, Prompt, Take, Goto, Saving, IInv, TypeOK
  <2>2. UNCHANGED <<disk, raced>> /\ contested \subseteq contested'
    BY <1>2 DEF CmdNew, Load, Stream, Quit, Take, ghosts
  <2> QED
    BY <2>1, <2>2, OffIndex DEF Updating, Saving, disk
<1>3. ASSUME NEW p \in Procs, NEW id \in Ids, StartFork(p, id) \/ CmdFork(p, id) PROVE Orderly'
  <2>1. PICK next \in {"load", "record"} : Save(p, next)
    BY <1>3 DEF StartFork, CmdFork
  <2>2. /\ pc[p] \notin Saving /\ UNCHANGED <<idx, file, index, indexTorn, raced>>
        /\ \A q \in Procs \ {p} : sid'[q] = sid[q]
        /\ contested \subseteq contested'
    BY <1>3 DEF StartFork, CmdFork, Prompt, Take, Saving, IInv, TypeOK
  <2> QED
    BY <2>1, <2>2, SaveOrderly
<1>4. ASSUME NEW p \in Procs, CmdCompact(p) \/ Record(p) PROVE Orderly'
  <2>1. PICK next \in {"record", "prompt"} : Save(p, next)
    BY <1>4 DEF CmdCompact, Record
  <2>2. /\ pc[p] \notin Saving /\ UNCHANGED <<idx, file, index, indexTorn, raced>>
        /\ sid' = sid /\ contested' = contested
    BY <1>4 DEF CmdCompact, Record, Prompt, Saving, ghosts
  <2> QED
    BY <2>1, <2>2, SaveOrderly
<1>5. ASSUME NEW p \in Procs, NEW n \in Names, NEW next \in {"record", "prompt"}, CmdName(p, n, next)
      PROVE  Orderly'
  <2>1. /\ pc[p] \notin Saving /\ UNCHANGED <<idx, file, index, indexTorn, raced>>
        /\ sid' = sid /\ contested' = contested /\ Save(p, next)
    BY <1>5 DEF CmdName, Prompt, Saving
  <2> QED
    BY <2>1, SaveOrderly
<1>6. ASSUME NEW p \in Procs, Write(p) \/ WriteFails(p) PROVE Orderly'
  <2>1. /\ pc[p] = "write" /\ pc'[p] = "index" /\ \A q \in Procs \ {p} : pc'[q] = pc[q]
        /\ UNCHANGED <<sid, idx, index, indexTorn, saved, raced>> /\ contested \subseteq contested'
    BY <1>6 DEF Write, WriteFails, Goto, disk, ghosts, IInv, TypeOK
  <2>2. \A i \in Ids : i # sid[p] => file'[i] = file[i]
    BY <1>6 DEF Write, WriteFails, disk, IInv, TypeOK
  <2>3. saved \subseteq Ids
    BY DEF IInv, TypeOK
  <2> QED
    BY <2>1, <2>2, <2>3, OffIndex DEF Updating, Saving
<1>7. ASSUME NEW p \in Procs, ReadIndex(p) \/ OpenIndex(p) \/ Put(p) \/ Die(p) PROVE Orderly'
  BY <1>7, ReadOrderly, OpenOrderly, PutOrderly, DieOrderly
<1>8. CASE UNCHANGED vars
  BY <1>8 DEF vars, disk, ghosts, Orderly, BeingSaved, Indexed, Meta
<1> QED
  BY <1>1, <1>2, <1>3, <1>4, <1>5, <1>6, <1>7, <1>8 DEF Next, Handle, SaveSession

\* save_session's index update: as long as updates do not overlap and none is cut short, the index
\* names every session as its transcript does, whatever is resumed, forked, named and compacted,
\* by however many processes.
THEOREM IndexIsTrue == Spec => []IndexAgrees
<1>1. Init => Orderly
  <2> SUFFICES ASSUME Init PROVE Orderly
    OBVIOUS
  <2>1. \A p \in Procs : pc[p] = "off"
    BY DEF Init
  <2>2. \A i \in saved : Indexed(i)
    BY SessionsAssumption DEF Init, Indexed
  <2> QED
    BY <2>1, <2>2 DEF Init, Orderly, Updating
<1>2. Orderly => IndexAgrees
  <2> SUFFICES ASSUME Orderly, ~raced, AtRest, NEW i \in saved \ contested
               PROVE  i \in DOMAIN IndexRead /\ IndexRead[i] = Meta(file[i])
    BY DEF IndexAgrees
  <2>1. ~indexTorn
    BY DEF Orderly, AtRest, Saving
  <2>2. Indexed(i)
    BY DEF Orderly, AtRest, BeingSaved
  <2> QED
    BY <2>1, <2>2 DEF IndexRead, Indexed
<1> QED
  BY <1>1, <1>2, Invariant, OrderlyInductive, PTL DEF Spec

-----------------------------------------------------------------------------
\* What a process holds of a session it has to itself extends the transcript; only a save in
\* progress leaves a transcript torn; and a session that was never saved has said nothing.
Told(p) == Live(p) /\ sid[p] \notin contested => Extends(file[sid[p]].turns, mem[p].turns)
Whole ==
  /\ \A p \in Procs : Told(p)
  /\ \A i \in torn \ contested : \E p \in Procs : pc[p] = "write" /\ sid[p] = i
  /\ \A i \in Ids \ saved : file[i].turns = <<>>

\* Extends, of what a command may do to a conversation: a summary stands for its first k turns.
Summary(k) == IF k = 0 THEN <<>> ELSE <<0>>

LEMMA ExtendsAt ==
  ASSUME NEW s, NEW t, NEW k \in 0..Len(s), NEW kept,
         kept = Summary(k) \o SubSeq(s, k + 1, Len(s)),
         Len(kept) <= Len(t), SubSeq(t, 1, Len(kept)) = kept
  PROVE  Extends(s, t)
BY Zenon DEF Extends, Summary

LEMMA ExtendsSelf ==
  ASSUME NEW s \in Seq(Nat)
  PROVE  Extends(s, s)
<1>1. /\ 0 \in 0..Len(s) /\ s = <<>> \o SubSeq(s, 1, Len(s))
      /\ Len(s) <= Len(s) /\ SubSeq(s, 1, Len(s)) = s
  OBVIOUS
<1>2. s = Summary(0) \o SubSeq(s, 0 + 1, Len(s))
  BY <1>1 DEF Summary
<1> QED
  BY <1>1, <1>2, ExtendsAt

LEMMA ExtendsNothing ==
  ASSUME NEW s \in Seq(Nat)
  PROVE  Extends(<<>>, s)
<1>1. /\ Len(<<>>) = 0 /\ SubSeq(<<>>, 1, 0) = <<>> /\ <<>> = <<>> \o <<>>
      /\ SubSeq(s, 1, 0) = <<>> /\ 0 <= Len(s) /\ 0 \in 0..0
  OBVIOUS
<1>2. <<>> = Summary(0) \o SubSeq(<<>>, 0 + 1, Len(<<>>))
  BY <1>1 DEF Summary
<1> QED
  BY <1>1, <1>2, ExtendsAt

LEMMA ExtendsAppend ==
  ASSUME NEW s \in Seq(Nat), NEW t \in Seq(Nat), Extends(s, t), NEW n \in Nat
  PROVE  Extends(s, Append(t, n))
<1>1. PICK k \in 0..Len(s) :
        LET kept == Summary(k) \o SubSeq(s, k + 1, Len(s))
        IN  Len(kept) <= Len(t) /\ SubSeq(t, 1, Len(kept)) = kept
  BY DEF Extends, Summary
<1> DEFINE head == Summary(k)
           rest == SubSeq(s, k + 1, Len(s))
           kept == head \o rest
<1>2. Len(kept) <= Len(t) /\ SubSeq(t, 1, Len(kept)) = kept
  BY <1>1
<1>3. head \in Seq(Nat) /\ rest \in Seq(Nat)
  BY DEF Summary
<1>4. Len(kept) \in Nat
  <2> HIDE DEF head, rest
  <2> QED
    BY <1>3
<1> HIDE DEF kept
<1>5. SubSeq(Append(t, n), 1, Len(kept)) = SubSeq(t, 1, Len(kept))
  BY <1>2, <1>4
<1>6. Len(kept) <= Len(Append(t, n))
  BY <1>2, <1>4
<1>7. Len(kept) <= Len(Append(t, n)) /\ SubSeq(Append(t, n), 1, Len(kept)) = kept
  BY <1>2, <1>5, <1>6
<1> QED
  BY <1>7, ExtendsAt DEF kept

LEMMA ExtendsFolded ==
  ASSUME NEW s \in Seq(Nat), Len(s) > Keep
  PROVE  Extends(s, Compacted(s))
<1> DEFINE k == Len(s) - Keep
           r == SubSeq(s, k + 1, Len(s))
           t == Compacted(s)
<1>1. k \in 0..Len(s) /\ k # 0
  OBVIOUS
<1>2. t \in Seq(Nat)
  BY CompactedType
<1>3. t = <<0>> \o r
  BY DEF Compacted
<1> HIDE DEF k, t
<1>4. t = Summary(k) \o SubSeq(s, k + 1, Len(s))
  BY <1>1, <1>3 DEF Summary
<1>5. Len(t) <= Len(t) /\ SubSeq(t, 1, Len(t)) = t
  BY <1>2
<1>6. Extends(s, t)
  BY <1>1, <1>4, <1>5, ExtendsAt
<1> QED
  BY <1>6 DEF t

LEMMA TurnsType ==
  ASSUME IInv
  PROVE  /\ \A p \in Procs : sid[p] \in Ids /\ mem[p].turns \in Seq(Nat)
         /\ \A i \in Ids : file[i].turns \in Seq(Nat)
  BY DEF IInv, TypeOK, Content

\* The others are told what they were: a transcript changes only in the hands of a process that has
\* its session open.
LEMMA WholeFrame ==
  ASSUME IInv, Whole, NEW p \in Procs,
         \A q \in Procs \ {p} : pc'[q] = pc[q] /\ sid'[q] = sid[q] /\ mem'[q] = mem[q],
         saved \subseteq saved', contested \subseteq contested',
         \A i \in Ids : file'[i] = file[i] \/ (i = sid[p] /\ Live(p) /\ i \in saved),
         Told(p)',
         \A i \in torn' \ contested' : \/ pc'[p] = "write" /\ sid'[p] = i
                                       \/ i \in torn /\ ~(pc[p] = "write" /\ sid[p] = i)
  PROVE  Whole'
<1>1. ASSUME NEW q \in Procs, q # p PROVE Told(q)'
  <2> SUFFICES ASSUME Live(q), sid[q] \notin contested' PROVE Extends(file'[sid[q]].turns, mem[q].turns)
    BY <1>1 DEF Told, Live
  <2>1. sid[q] \in Ids /\ Extends(file[sid[q]].turns, mem[q].turns)
    BY TurnsType DEF Whole, Told
  <2>2. file'[sid[q]] = file[sid[q]]
    BY <1>1, <2>1 DEF IInv, Alone
  <2> QED
    BY <2>1, <2>2
<1>2. \A i \in torn' \ contested' : \E q \in Procs : pc'[q] = "write" /\ sid'[q] = i
  <2> SUFFICES ASSUME NEW i \in torn' \ contested', i \in torn, ~(pc[p] = "write" /\ sid[p] = i)
               PROVE  \E q \in Procs : pc'[q] = "write" /\ sid'[q] = i
    OBVIOUS
  <2>1. PICK q \in Procs : pc[q] = "write" /\ sid[q] = i
    BY DEF Whole
  <2> QED
    BY <2>1
<1>3. \A i \in Ids \ saved' : file'[i].turns = <<>>
  BY DEF Whole
<1> QED
  BY <1>1, <1>2, <1>3 DEF Whole

LEMMA OpenWhole ==
  ASSUME IInv, Whole, NEW p \in Procs, UNCHANGED disk, contested \subseteq contested',
         pc[p] # "write", Told(p)',
         \A q \in Procs \ {p} : pc'[q] = pc[q] /\ sid'[q] = sid[q] /\ mem'[q] = mem[q]
  PROVE  Whole'
  BY WholeFrame DEF disk

LEMMA SaveWhole ==
  ASSUME IInv, Whole, NEW p \in Procs, pc[p] # "write", NEW next, Save(p, next),
         UNCHANGED file, contested \subseteq contested', Told(p)',
         \A q \in Procs \ {p} : sid'[q] = sid[q] /\ mem'[q] = mem[q]
  PROVE  Whole'
<1>1. pc'[p] = "write" /\ \A q \in Procs \ {p} : pc'[q] = pc[q]
  BY DEF Save, Goto, IInv, TypeOK
<1>2. saved \subseteq saved' /\ torn' = torn \cup {sid'[p]}
  BY DEF Save
<1> QED
  BY <1>1, <1>2, WholeFrame

\* A session nobody else has open is not torn, so it is loaded or it was never saved.
LEMMA StartWhole ==
  ASSUME IInv, Whole, NEW p \in Procs, NEW id \in Ids, Start(p, id)
  PROVE  Whole'
<1>1. /\ pc[p] = "off" /\ UNCHANGED disk /\ sid'[p] = id /\ mem'[p] = Loaded(id)
      /\ contested \subseteq contested'
      /\ \A q \in Procs \ {p} : Live(q) /\ sid[q] = id => id \in contested'
      /\ \A q \in Procs \ {p} : pc'[q] = pc[q] /\ sid'[q] = sid[q] /\ mem'[q] = mem[q]
  BY DEF Start, Take, Goto, IInv, TypeOK
<1>2. id \notin contested' => Extends(file[id].turns, Loaded(id).turns)
  <2> SUFFICES ASSUME id \notin contested' PROVE Extends(file[id].turns, Loaded(id).turns)
    OBVIOUS
  <2>1. id \notin torn
    <3> SUFFICES ASSUME id \in torn PROVE FALSE
      OBVIOUS
    <3>1. PICK q \in Procs : pc[q] = "write" /\ sid[q] = id
      BY <1>1 DEF Whole
    <3> QED
      BY <1>1, <3>1 DEF Live
  <2>2. CASE id \in saved
    BY <2>1, <2>2, TurnsType, ExtendsSelf DEF Loaded, Readable
  <2>3. CASE id \notin saved
    <3>1. Loaded(id).turns = <<>> /\ file[id].turns = <<>>
      BY <2>3 DEF Loaded, Readable, Fresh, Whole
    <3> QED
      BY <3>1, Empty, ExtendsSelf
  <2> QED
    BY <2>2, <2>3
<1>3. Told(p)'
  BY <1>1, <1>2 DEF Told, disk
<1> QED
  BY <1>1, <1>3, OpenWhole

LEMMA GoOnWhole ==
  ASSUME IInv, Whole, NEW p \in Procs,
         \/ CmdNew(p) \/ Load(p) \/ Stream(p)
         \/ \E id \in Ids : CmdResume(p, id)
  PROVE  Whole'
<1>1. /\ pc[p] \in {"prompt", "load"} /\ UNCHANGED disk /\ contested \subseteq contested'
      /\ \A q \in Procs \ {p} : pc'[q] = pc[q] /\ sid'[q] = sid[q] /\ mem'[q] = mem[q]
  BY DEF CmdNew, Load, Stream, CmdResume, Prompt, Take, Goto, ghosts, IInv, TypeOK
<1>2. CASE CmdNew(p)
  <2>1. PICK new \in Unused : sid'[p] = new /\ mem'[p] = Fresh
    BY <1>2 DEF CmdNew, Take, IInv, TypeOK
  <2>2. new \in Ids \ saved
    BY DEF Unused
  <2>3. file[new].turns = <<>> /\ Fresh.turns = <<>>
    BY <2>2 DEF Whole, Fresh
  <2>4. Extends(file[new].turns, Fresh.turns)
    BY <2>3, Empty, ExtendsSelf
  <2> QED
    BY <1>1, <2>1, <2>4, OpenWhole DEF Told, disk
<1>3. CASE Load(p)
  <2>1. pc[p] = "load" /\ sid' = sid /\ mem'[p] = Loaded(sid[p])
    BY <1>3 DEF Load, IInv, TypeOK
  <2>2. sid[p] \notin contested' => Loaded(sid[p]) = file[sid[p]]
    BY <1>1, <2>1 DEF IInv, Synced, SyncedAt, Live, Kept, Loaded, Readable
  <2>3. Extends(file[sid[p]].turns, file[sid[p]].turns)
    BY TurnsType, ExtendsSelf
  <2> QED
    BY <1>1, <2>1, <2>2, <2>3, OpenWhole DEF Told, disk
<1>4. CASE Stream(p)
  <2>1. UNCHANGED <<pc, sid, mem, contested>>
    BY <1>4 DEF Stream, ghosts
  <2> QED
    BY <1>1, <2>1, OpenWhole DEF Whole, Told, Live, disk
<1>5. ASSUME NEW id \in Ids, CmdResume(p, id) PROVE Whole'
  <2>1. sid'[p] = id /\ mem'[p] = file[id]
    BY <1>5 DEF CmdResume, Take, IInv, TypeOK
  <2>2. Extends(file[id].turns, file[id].turns)
    BY TurnsType, ExtendsSelf
  <2> QED
    BY <1>1, <2>1, <2>2, OpenWhole DEF Told, disk
<1> QED
  BY <1>2, <1>3, <1>4, <1>5

LEMMA BeginWhole ==
  ASSUME IInv, Whole, NEW p \in Procs,
         \/ CmdCompact(p) \/ Record(p)
         \/ \E n \in Names, next \in {"record", "prompt"} : CmdName(p, n, next)
         \/ \E id \in Ids : StartFork(p, id) \/ CmdFork(p, id)
  PROVE  Whole'
<1>1. pc[p] # "write" /\ UNCHANGED file /\ contested \subseteq contested'
  BY DEF CmdCompact, Record, CmdName, StartFork, CmdFork, Prompt, Take, ghosts
<1>2. \A q \in Procs \ {p} : sid'[q] = sid[q] /\ mem'[q] = mem[q]
  BY DEF CmdCompact, Record, CmdName, StartFork, CmdFork, Take, IInv, TypeOK
<1>3. \E next : Save(p, next)
  BY DEF CmdCompact, Record, CmdName, StartFork, CmdFork
<1>4. CASE CmdCompact(p)
  <2>1. /\ pc[p] = "prompt" /\ Len(mem[p].turns) > Keep /\ UNCHANGED <<sid, contested>>
        /\ mem'[p].turns = Compacted(mem[p].turns)
    BY <1>4 DEF CmdCompact, Prompt, ghosts, IInv, TypeOK, Content
  <2>2. mem[p].turns # <<>>
    BY <2>1, TurnsType
  <2>3. sid[p] \notin contested => file[sid[p]] = mem[p]
    BY <2>1, <2>2 DEF IInv, Synced, SyncedAt, Live, Kept
  <2>4. Extends(mem[p].turns, Compacted(mem[p].turns))
    BY <2>1, TurnsType, ExtendsFolded
  <2>5. Told(p)'
    BY <1>1, <2>1, <2>3, <2>4 DEF Told
  <2> QED
    BY <1>1, <1>2, <1>3, <2>5, SaveWhole
<1>5. CASE Record(p)
  <2>1. /\ pc[p] # "off" /\ UNCHANGED <<sid, contested>> /\ clock' \in Nat
        /\ mem'[p].turns = Append(mem[p].turns, clock')
    BY <1>5 DEF Record, Prompt, Said, ghosts, IInv, TypeOK
  <2>2. sid[p] \notin contested => Extends(file[sid[p]].turns, mem[p].turns)
    BY <2>1 DEF Whole, Told, Live
  <2>3. sid[p] \notin contested => Extends(file[sid[p]].turns, Append(mem[p].turns, clock'))
    BY <2>1, <2>2, TurnsType, ExtendsAppend
  <2>4. Told(p)'
    BY <1>1, <2>1, <2>3 DEF Told
  <2> QED
    BY <1>1, <1>2, <1>3, <2>4, SaveWhole
<1>6. ASSUME NEW n \in Names, NEW next \in {"record", "prompt"}, CmdName(p, n, next) PROVE Whole'
  <2>1. pc[p] # "off" /\ UNCHANGED <<sid, contested>> /\ mem'[p].turns = mem[p].turns
    BY <1>6 DEF CmdName, Prompt, IInv, TypeOK, Content
  <2>2. Told(p)'
    BY <1>1, <2>1 DEF Whole, Told, Live
  <2> QED
    BY <1>1, <1>2, <1>3, <2>2, SaveWhole
<1>7. ASSUME NEW id \in Ids, StartFork(p, id) \/ CmdFork(p, id) PROVE Whole'
  <2>1. PICK new \in Unused : sid'[p] = new /\ mem'[p] = Forked(file[id])
    BY <1>7 DEF StartFork, CmdFork, Take, IInv, TypeOK
  <2>2. file[new].turns = <<>> /\ Forked(file[id]).turns = file[id].turns
    BY DEF Unused, Whole, Forked
  <2>3. Extends(<<>>, file[id].turns)
    BY TurnsType, ExtendsNothing
  <2>4. Told(p)'
    BY <1>1, <2>1, <2>2, <2>3 DEF Told
  <2> QED
    BY <1>1, <1>2, <1>3, <2>4, SaveWhole
<1> QED
  BY <1>4, <1>5, <1>6, <1>7

LEMMA WriteWhole ==
  ASSUME IInv, Whole, NEW p \in Procs, SaveSession(p)
  PROVE  Whole'
<1>1. CASE Write(p)
  <2>1. /\ pc[p] = "write" /\ UNCHANGED <<sid, mem, saved, contested>>
        /\ \A q \in Procs \ {p} : pc'[q] = pc[q]
    BY <1>1 DEF Write, Goto, ghosts, IInv, TypeOK
  <2>2. sid[p] \in Ids /\ sid[p] \in saved /\ Live(p)
    BY <2>1, TurnsType DEF IInv, Named, Saving, Live
  <2>3. file'[sid[p]] = mem[p] /\ \A i \in Ids : i # sid[p] => file'[i] = file[i]
    BY <1>1, <2>2 DEF Write, IInv, TypeOK
  <2>4. Told(p)'
    BY <2>1, <2>3, TurnsType, ExtendsSelf DEF Told
  <2>5. \A i \in torn' \ contested' : i \in torn /\ ~(pc[p] = "write" /\ sid[p] = i)
    <3>1. sid[p] \notin contested => sid[p] \in torn
      BY <2>1, <2>2 DEF IInv, Synced, SyncedAt
    <3>2. \/ torn' = torn \ {sid[p]}
          \/ sid[p] \notin torn /\ torn' = torn \cup {sid[p]}
      BY <1>1 DEF Write
    <3> QED
      BY <2>1, <3>1, <3>2
  <2> QED
    BY <2>1, <2>2, <2>3, <2>4, <2>5, WholeFrame
<1>2. CASE WriteFails(p)
  <2>1. /\ pc[p] = "write" /\ UNCHANGED <<sid, mem, disk>> /\ contested' = contested \cup {sid[p]}
        /\ \A q \in Procs \ {p} : pc'[q] = pc[q]
    BY <1>2 DEF WriteFails, Goto, IInv, TypeOK
  <2>2. Told(p)'
    BY <2>1 DEF Told
  <2> QED
    BY <2>1, <2>2, WholeFrame DEF disk
<1>3. CASE ReadIndex(p) \/ OpenIndex(p) \/ Put(p)
  <2>1. /\ pc[p] \in {"index", "trunc", "put"} /\ UNCHANGED <<sid, mem, file, saved, torn, contested>>
        /\ \A q \in Procs \ {p} : pc'[q] = pc[q]
    BY <1>3 DEF ReadIndex, OpenIndex, Put, Goto, disk, ghosts, IInv, TypeOK
  <2>2. Told(p)'
    BY <2>1 DEF Whole, Told, Live
  <2> QED
    BY <2>1, <2>2, WholeFrame
<1> QED
  BY <1>1, <1>2, <1>3 DEF SaveSession

LEMMA GoneWhole ==
  ASSUME IInv, Whole, NEW p \in Procs, Quit(p) \/ Die(p)
  PROVE  Whole'
<1>1. /\ pc'[p] = "off" /\ UNCHANGED disk /\ contested \subseteq contested'
      /\ pc[p] = "write" => sid[p] \in contested'
      /\ \A q \in Procs \ {p} : pc'[q] = pc[q] /\ sid'[q] = sid[q] /\ mem'[q] = mem[q]
  BY DEF Quit, Die, Gone, Goto, Saving, ghosts, IInv, TypeOK
<1>2. Told(p)'
  BY <1>1 DEF Told, Live
<1> QED
  BY <1>1, <1>2, WholeFrame DEF disk

LEMMA WholeInductive == IInv /\ Whole /\ [Next]_vars => Whole'
<1> SUFFICES ASSUME IInv, Whole, [Next]_vars PROVE Whole'
  OBVIOUS
<1>1. CASE UNCHANGED vars
  BY <1>1 DEF vars, disk, ghosts, Whole, Told, Live
<1> QED
  BY <1>1, StartWhole, GoOnWhole, BeginWhole, WriteWhole, GoneWhole DEF Next, Handle

\* A transcript is only extended, or its older turns folded into a summary: save_session never
\* writes less than it once wrote of a session that one process at a time has open, whichever
\* commands brought the session into its memory, and for any CONDENSE_KEEP.
THEOREM NothingIsForgotten == Spec => NothingForgotten
<1>1. Init => Whole
  <2> SUFFICES ASSUME Init PROVE Whole
    OBVIOUS
  <2>1. \A p \in Procs : ~Live(p)
    BY DEF Init, Live
  <2>2. \A i \in Ids \ saved : file[i].turns = <<>>
    BY DEF Init, Blank
  <2> QED
    BY <2>1, <2>2 DEF Init, Whole, Told
<1>2. IInv /\ Whole /\ [Next]_vars =>
        [\A i \in Ids \ contested' : Extends(file[i].turns, file'[i].turns)]_vars
  <2> SUFFICES ASSUME IInv, Whole, Next, NEW i \in Ids \ contested'
               PROVE  Extends(file[i].turns, file'[i].turns)
    OBVIOUS
  <2>1. CASE file'[i] = file[i]
    BY <2>1, TurnsType, ExtendsSelf
  <2>2. CASE file'[i] # file[i]
    <3>1. PICK p \in Procs : Write(p)
      BY <2>2 DEF Next, Handle, SaveSession, Start, StartFork, Load, Stream, Quit, Die, CmdNew,
         CmdCompact, Record, CmdName, CmdResume, CmdFork, WriteFails, ReadIndex, OpenIndex, Put, disk
    <3>2. i = sid[p] /\ file'[i] = mem[p]
      BY <2>2, <3>1 DEF Write, IInv, TypeOK
    <3>3. Live(p) /\ sid[p] \notin contested
      BY <3>1, <3>2 DEF Write, Live, ghosts
    <3> QED
      BY <3>2, <3>3 DEF Whole, Told
  <2> QED
    BY <2>1, <2>2
<1> QED
  BY <1>1, <1>2, Invariant, WholeInductive, PTL DEF Spec, NothingForgotten
=============================================================================
