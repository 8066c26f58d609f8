---------------------------- MODULE EditHistory ----------------------------
(***************************************************************************)
(* What the checkpoint ring and /rewind promise: an editor with a bounded  *)
(* history of whole workspaces.  An edit is atomic and remembers the       *)
(* workspace it replaced; rewinding goes back to a remembered workspace in *)
(* one step.  There is no tool that deletes a file: a file that did not    *)
(* exist yet in the remembered workspace goes back to the oldest content   *)
(* known of it, and from then on counts as having been there all along.    *)
(***************************************************************************)
EXTENDS Naturals, Sequences

CONSTANTS Paths, Contents, Absent, RingMax

VARIABLES doc, history

Docs == [Paths -> Contents \cup {Absent}]

HInit == doc \in Docs /\ history = <<>>

Remember(h, v) == IF Len(h) < RingMax THEN Append(h, v) ELSE Append(Tail(h), v)

Edit(p, c) ==
    /\ doc' = [doc EXCEPT ![p] = c]
    /\ history' = Remember(history, doc)

\* The oldest content of p among the workspaces k, k+1, ... and the present one.
OldestFrom(k, p) ==
    LET S == {i \in k..Len(history) : history[i][p] # Absent}
    IN  IF S = {} THEN doc[p] ELSE history[CHOOSE i \in S : \A j \in S : i <= j][p]

GoBack(n) ==
    /\ n \in 1..Len(history)
    /\ LET k == Len(history) + 1 - n
       IN  /\ doc' = [p \in Paths |-> OldestFrom(k, p)]
           /\ history' = [i \in 1..k-1 |->
                            [p \in Paths |-> IF history[k][p] = Absent THEN OldestFrom(k, p)
                                             ELSE history[i][p]]]

HNext ==
    \/ \E p \in Paths, c \in Contents : Edit(p, c)
    \/ \E n \in 1..RingMax : GoBack(n)

HSpec == HInit /\ [][HNext]_<<doc, history>>
=============================================================================
