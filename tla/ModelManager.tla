---------------------------- MODULE ModelManager ----------------------------
(***************************************************************************)
(* The model manager of scripts/jetson_model_manager.py, which owns the    *)
(* one llama-server of the device, and its escalating clients              *)
(* (coding_loop.fix_loop_escalating and                                    *)
(* system_builder.build_system_escalating through                          *)
(* collaborative_solve._http_swap): when the primary model fails, swap to  *)
(* the fallback, retry, and swap back.                                     *)
(*                                                                         *)
(* The manager answers one request at a time and blocks while a model      *)
(* loads; a client waits for its reply with a timeout of its own.  A       *)
(* session and its background jobs are separate clients.                   *)
(***************************************************************************)
EXTENDS Naturals, Sequences, FiniteSets

CONSTANTS
    Clients,    \* the processes that may escalate
    Primary,    \* primary_model_id
    Fallback,   \* fallback_model_id
    Default,    \* DEFAULT_MODEL, served at boot
    NoModel,    \* _current before a model was served
    Nobody,     \* the other end of a connection that was closed
    Boot,       \* the serve_model call of main, before the port is bound
    Backlog,    \* connections the control port holds while the manager is busy
    FaultSets   \* what may go wrong in an execution, each a set of Faults

Models == {Primary, Fallback, Default}

\* exit: llama-server dies while loading; crash: while serving; late: a load takes
\* longer than READY_TIMEOUT_S; giveup: longer than the client's 60 s; restart: the
\* manager is restarted; killed: a client is (stop_job, a closed terminal).
Faults == {"exit", "crash", "late", "giveup", "restart", "killed"}

ASSUME ModelManagerAssumption ==
    /\ Primary # Fallback
    /\ NoModel \notin Models
    /\ {Nobody, Boot} \cap Clients = {} /\ Nobody # Boot
    /\ Backlog \in Nat
    /\ FaultSets \subseteq SUBSET Faults

VARIABLES
    server,   \* the llama-server process on :8000: its model and status
    current,  \* _current
    mgr,      \* the serve_model call in progress
    queue,    \* requests the control port holds
    client,   \* what each client is doing
    reply,    \* the reply each client has got: "none", "ok" or "failed" (raises)
    faults    \* what may go wrong in this execution

vars == <<server, current, mgr, queue, client, reply, faults>>

Idle == [model |-> NoModel, for |-> Nobody]
Launched(m) == [model |-> m, st |-> "loading"]
Serving(m) == server = [model |-> m, st |-> "ready"]
-----------------------------------------------------------------------------
\* main serves the default model, then binds the control port.
Init ==
    /\ server = Launched(Default)
    /\ current = NoModel
    /\ mgr = [model |-> Default, for |-> Boot]
    /\ queue = <<>>
    /\ client = [c \in Clients |-> "idle"]
    /\ reply = [c \in Clients |-> "none"]
    /\ faults \in FaultSets

\* The server process: it finishes loading, or dies.
Load ==
    /\ server.st = "loading"
    /\ server' = [server EXCEPT !.st = "ready"]
    /\ UNCHANGED <<current, mgr, queue, client, reply, faults>>

Die ==
    /\ \/ server.st = "loading" /\ "exit" \in faults
       \/ server.st = "ready" /\ "crash" \in faults
    /\ server' = [server EXCEPT !.st = "down"]
    /\ UNCHANGED <<current, mgr, queue, client, reply, faults>>
-----------------------------------------------------------------------------
Answer(c, r) == reply' = IF c \in Clients THEN [reply EXCEPT ![c] = r] ELSE reply
MgrIdle == mgr.model = NoModel
Request == Head(queue)
TakeRequest == MgrIdle /\ queue # <<>> /\ queue' = Tail(queue)

\* Mutant: the health of :8000 is not looked at.
AlreadyServingUnhealthy ==
    /\ TakeRequest
    /\ Request.model = current
    /\ Answer(Request.from, "ok")
    /\ UNCHANGED <<server, current, mgr, client, faults>>

\* serve_model, called for the model it believes to serve: /health says that some
\* model is loaded, not which.
AlreadyServing ==
    /\ TakeRequest
    /\ Request.model = current /\ server.st = "ready"
    /\ Answer(Request.from, "ok")
    /\ UNCHANGED <<server, current, mgr, client, faults>>

\* Otherwise _kill_llama takes the server down and the requested one is launched;
\* _current is left as it is.
Launch ==
    /\ TakeRequest
    /\ ~(Request.model = current /\ server.st = "ready")
    /\ server' = Launched(Request.model)
    /\ mgr' = [model |-> Request.model, for |-> Request.from]
    /\ UNCHANGED <<current, client, reply, faults>>

\* The wait for the launched server: it is healthy, it exited, or time is up.
LoadReady ==
    /\ ~MgrIdle /\ server.st = "ready"
    /\ current' = mgr.model
    /\ Answer(mgr.for, "ok")
    /\ mgr' = Idle
    /\ UNCHANGED <<server, queue, client, faults>>

\* Mutant: the wait ends without an answer.
LoadExitedSilently ==
    /\ ~MgrIdle /\ server.st = "down"
    /\ mgr' = Idle
    /\ UNCHANGED <<server, current, queue, client, reply, faults>>

LoadExited ==
    /\ ~MgrIdle /\ server.st = "down"
    /\ Answer(mgr.for, "failed")
    /\ mgr' = Idle
    /\ UNCHANGED <<server, current, queue, client, faults>>

LoadLate ==
    /\ ~MgrIdle /\ server.st = "loading" /\ "late" \in faults
    /\ Answer(mgr.for, "failed")
    /\ mgr' = Idle
    /\ UNCHANGED <<server, current, queue, client, faults>>

\* The service restarts: requests are cut off, the server goes with it, and the
\* default model is served before the control port is bound again.
Restart ==
    /\ "restart" \in faults
    /\ server' = Launched(Default) /\ current' = NoModel
    /\ mgr' = [model |-> Default, for |-> Boot]
    /\ queue' = <<>>
    /\ reply' = [c \in Clients |-> IF client[c] \in {"swapping", "restoring"} /\ reply[c] = "none"
                                   THEN "failed" ELSE reply[c]]
    /\ UNCHANGED <<client, faults>>
-----------------------------------------------------------------------------
\* _http_swap: POST /serve; nobody listens while the manager boots, and a full
\* backlog lets the connection time out.
Post(c, m) ==
    IF mgr.for = Boot \/ Len(queue) = Backlog
    THEN reply' = [reply EXCEPT ![c] = "failed"] /\ UNCHANGED queue
    ELSE reply' = [reply EXCEPT ![c] = "none"] /\ queue' = Append(queue, [from |-> c, model |-> m])

\* c closes its connection; the manager does not notice.
HangUp(c) ==
    /\ queue' = [i \in DOMAIN queue |-> IF queue[i].from = c
                                        THEN [queue[i] EXCEPT !.from = Nobody] ELSE queue[i]]
    /\ mgr' = IF mgr.for = c THEN [mgr EXCEPT !.for = Nobody] ELSE mgr

Goto(c, s) == client' = [client EXCEPT ![c] = s]

\* The primary failed and a fallback is configured: swap to it.
Escalate(c) ==
    /\ client[c] = "idle"
    /\ Goto(c, "swapping") /\ Post(c, Fallback)
    /\ UNCHANGED <<server, current, mgr, faults>>

\* swap_fn returned: retry on the fallback.  It raised: the primary's result is
\* returned, and nothing is restored.
Swapped(c) ==
    /\ client[c] = "swapping" /\ reply[c] # "none"
    /\ Goto(c, IF reply[c] = "ok" THEN "retrying" ELSE "idle")
    /\ UNCHANGED <<server, current, mgr, queue, reply, faults>>

\* Mutant: the primary is restored only by a retry that failed.
RestoreUnlessSolved(c) ==
    /\ client[c] = "retrying"
    /\ \/ Goto(c, "idle") /\ UNCHANGED <<queue, reply>>
       \/ Goto(c, "restoring") /\ Post(c, Primary)
    /\ UNCHANGED <<server, current, mgr, faults>>

\* However the retry ends, the `finally` swaps back.
RetryEnds(c) ==
    /\ client[c] = "retrying"
    /\ Goto(c, "restoring") /\ Post(c, Primary)
    /\ UNCHANGED <<server, current, mgr, faults>>

\* A failure to restore is swallowed.
Restored(c) ==
    /\ client[c] = "restoring" /\ reply[c] # "none"
    /\ Goto(c, "idle")
    /\ UNCHANGED <<server, current, mgr, queue, reply, faults>>

\* urlopen's timeout of 60 s.
GiveUp(c) ==
    /\ "giveup" \in faults
    /\ client[c] \in {"swapping", "restoring"} /\ reply[c] = "none"
    /\ reply' = [reply EXCEPT ![c] = "failed"]
    /\ HangUp(c)
    /\ UNCHANGED <<server, current, client, faults>>

Killed(c) ==
    /\ "killed" \in faults
    /\ client[c] # "idle"
    /\ Goto(c, "idle") /\ HangUp(c)
    /\ UNCHANGED <<server, current, reply, faults>>
-----------------------------------------------------------------------------
Manager == AlreadyServing \/ Launch \/ LoadReady \/ LoadExited \/ LoadLate
ClientStep(c) == Swapped(c) \/ RetryEnds(c) \/ Restored(c)

Next ==
    \/ Load \/ Die \/ Manager \/ Restart
    \/ \E c \in Clients : Escalate(c) \/ ClientStep(c) \/ GiveUp(c) \/ Killed(c)

Spec == Init /\ [][Next]_vars

\* A model finishes loading, or does not; the manager's loop and a client that has
\* its answer go on.
Fairness ==
    /\ WF_vars(Load) /\ WF_vars(Manager)
    /\ \A c \in Clients : WF_vars(ClientStep(c))
FairSpec == Spec /\ Fairness
-----------------------------------------------------------------------------
\* Type invariant.
TypeOK ==
    /\ server \in [model : Models, st : {"loading", "ready", "down"}]
    /\ current \in Models \cup {NoModel}
    /\ mgr \in [model : Models \cup {NoModel}, for : Clients \cup {Nobody, Boot}]
    /\ queue \in Seq([from : Clients \cup {Nobody}, model : Models])
    /\ Len(queue) <= Backlog
    /\ client \in [Clients -> {"idle", "swapping", "retrying", "restoring"}]
    /\ reply \in [Clients -> {"none", "ok", "failed"}]
    /\ faults \in FaultSets

\* When no load outlives the manager's patience, a client is told "ok" only when
\* the model it asked for is the one being served, whatever else was requested,
\* abandoned, killed or restarted (serve_model: "Ensure `model_id` is the model
\* served on :8000").
Asked(c) == IF client[c] = "swapping" THEN Fallback ELSE Primary
ReplyIsHonest ==
    [][\A c \in Clients :
         "late" \notin faults /\ reply[c] # "ok" /\ reply'[c] = "ok" => Serving(Asked(c))]_vars

\* When every client has returned and the manager has nothing to do, the fallback
\* is not left being served (fix_loop_escalating: "the served model is NEVER left
\* on the 7B").
Quiet == MgrIdle /\ queue = <<>> /\ \A c \in Clients : client[c] = "idle"
EscalationRestores == Quiet => ~Serving(Fallback)

\* The same for clients that wait for their answers and are not killed, and loads
\* the manager waits for, however the escalations of several clients interleave.
PatientRestores == faults \cap {"giveup", "late", "killed"} = {} => EscalationRestores

\* Every escalation comes back to its caller (fix_loop_escalating: NEVER raises),
\* with restarts and dying servers as often as there may be.
EscalationEnds == \A c \in Clients : client[c] # "idle" ~> client[c] = "idle"
=============================================================================
