------------------------- MODULE RuntimeRefinement -------------------------
(***************************************************************************)
(* How the state of Runtime reads as the state of EditHistory, for a       *)
(* session of /patch and /rewind.                                          *)
(***************************************************************************)
EXTENDS Runtime

\* The ring as it will be once the running command is through with it, and the
\* workspace with the restores still to come already done.
RingBar ==
    IF cmd.name = "rewind" THEN SubSeq(ring, 1, Len(ring) - cmd.n)
    ELSE IF call.stage = "record" /\ Checkpointed THEN Push(ring, NewEntry)
    ELSE ring

Pending(p) == {i \in DOMAIN cmd.todo : /\ cmd.name = "rewind"
                                       /\ cmd.todo[i].d.path = p
                                       /\ cmd.todo[i].d.content # Absent}
DocBar ==
    [p \in Paths |->
        IF Pending(p) = {} THEN disk[p]
        ELSE cmd.todo[CHOOSE i \in Pending(p) : \A j \in Pending(p) : j <= i].d.content]

\* Version i of a file: what its first checkpoint from i on saved.
HistoryBar ==
    [i \in 1..Len(RingBar) |->
        [p \in Paths |->
            LET S == {j \in i..Len(RingBar) : RingBar[j].path = p}
            IN  IF S = {} THEN DocBar[p]
                ELSE RingBar[CHOOSE j \in S : \A k \in S : j <= k].before]]

Abstract == INSTANCE EditHistory WITH doc <- DocBar, history <- HistoryBar

\* A session of /patch and /rewind whose restores all go through is the editor
\* with a bounded history of workspaces.
IsEditHistory == Abstract!HSpec
=============================================================================
