---------------------------- MODULE McpSessions ----------------------------
(***************************************************************************)
(* mcp_session.py and mcp_client.py: the pool of MCP server processes of   *)
(* one CLI process, one live client per configured server name.  A tool    *)
(* call is a JSON-RPC request over the server's pipes, answered within a   *)
(* timeout or not; a server may exit, hang, answer late or twice, or write *)
(* lines without end.  After a failure the client is evicted, its server   *)
(* closed, and the call is made once more on a fresh one.                  *)
(*                                                                         *)
(* The server is external: a leader, which takes requests in order, runs   *)
(* the tool and answers, and perhaps helper processes it started, which    *)
(* outlive it when it exits.  Only one thread of the CLI uses the pool at  *)
(* a time: the prompt waits for a streamed request.                        *)
(***************************************************************************)
EXTENDS Integers, Sequences, FiniteSets

CONSTANTS
  Servers,    \* names in mcp.json
  MaxCalls,   \* bound: calls made
  MaxCrashes, \* bound: leaders that exit without being asked to
  MaxLines    \* bound: lines unread, when a server writes one that answers nothing

ASSUME McpAssumption == Servers # {} /\ {MaxCalls, MaxCrashes, MaxLines} \subseteq Nat

VARIABLES
  pc,       \* where the manager is
  call,     \* the call in progress, or the last one
  pool,     \* _clients: the names that have a client
  srv,      \* per name, the leader, whether it has helpers, and its two pipes
  strays,   \* names of servers whose helpers run without a leader that is watched
  result,   \* what the last call returned
  ran,      \* ghost: how often the tool ran, per call
  crashes

vars == <<pc, call, pool, srv, strays, result, ran, crashes>>

Ops == {"call", "discover"}
Calls == 1..MaxCalls
Process(alive, kin, next, in, out) ==
  [alive |-> alive, kin |-> kin, next |-> next, in |-> in, out |-> out]
NoProcess == Process(FALSE, FALSE, 1, <<>>, <<>>)
NoCall == [n |-> 0, server |-> CHOOSE s \in Servers : TRUE, op |-> "discover",
           attempt |-> 1, req |-> 0]
NoResult == [n |-> 0, ok |-> FALSE, of |-> 0]

S == call.server
Alive(s) == srv[s].alive

-----------------------------------------------------------------------------
(* call_tool and discover_tools. *)
Begin(s, op) ==
  /\ pc = "idle" /\ call.n < MaxCalls
  /\ call' = [n |-> call.n + 1, server |-> s, op |-> op, attempt |-> 1, req |-> 0]
  /\ pc' = "get"
  /\ UNCHANGED <<pool, srv, strays, result, ran, crashes>>

\* _get_client: a client whose process runs is used again.
Reuse ==
  /\ pc = "get" /\ S \in pool /\ Alive(S)
  /\ pc' = "send"
  /\ UNCHANGED <<call, pool, srv, strays, result, ran, crashes>>

\* _get_client, _launch: one that does not is evicted; a new process is started
\* and answers `initialize`.  It may have helpers, some of them in a session of
\* their own, out of reach of a kill of its group.
Launch ==
  /\ pc = "get" /\ ~(S \in pool /\ Alive(S))
  /\ \E kin \in BOOLEAN : srv' = [srv EXCEPT ![S] = Process(TRUE, kin, 2, <<>>, <<>>)]
  /\ strays' \in {strays, strays \cup {S}}
  /\ pool' = pool \cup {S}
  /\ pc' = "send"
  /\ UNCHANGED <<call, result, ran, crashes>>

Return(ok, of) ==
  /\ pc' = "idle"
  /\ result' = [n |-> call.n, ok |-> ok, of |-> of]

\* It cannot be started, or does not initialize in time and is closed, and may leave
\* helpers if it exits by itself.
LaunchFails ==
  /\ pc = "get" /\ ~(S \in pool /\ Alive(S))
  /\ pool' = pool \ {S}
  /\ srv' = [srv EXCEPT ![S] = NoProcess]
  /\ strays' \in {strays, strays \cup {S}}
  /\ Return(FALSE, 0)
  /\ UNCHANGED <<call, ran, crashes>>

\* Mutant: every request of a client has the same id.
SentSameId ==
  /\ srv' = [srv EXCEPT ![S] = Process(@.alive, @.kin, 3,
       IF @.alive THEN Append(@.in, [id |-> 2, call |-> call.n]) ELSE @.in, @.out)]
  /\ call' = [call EXCEPT !.req = 2]
  /\ pc' = "wait"
  /\ UNCHANGED <<pool, strays, result, ran, crashes>>

\* _request: ids grow, so a line for an earlier request is not taken for this one.
Sent ==
  /\ srv' = [srv EXCEPT ![S] = Process(@.alive, @.kin, @.next + 1,
       IF @.alive THEN Append(@.in, [id |-> @.next, call |-> call.n]) ELSE @.in, @.out)]
  /\ call' = [call EXCEPT !.req = srv[S].next]
  /\ pc' = "wait"
  /\ UNCHANGED <<pool, strays, result, ran, crashes>>

\* _send: a request that fits into the pipe is written.  A larger one waits in the
\* write, which has no timeout, until the server reads.
Send == pc = "send" /\ Sent
Block ==
  /\ pc = "send" /\ pc' = "write"
  /\ UNCHANGED <<call, pool, srv, strays, result, ran, crashes>>

\* _recv: the answer with the id that was sent, or another line, skipped.
Answered(s) == srv[s].out # <<>> /\ Head(srv[s].out).id = call.req
Receive ==
  /\ pc = "wait" /\ Answered(S) /\ Head(srv[S].out).ok
  /\ srv' = [srv EXCEPT ![S].out = Tail(@)]
  /\ Return(TRUE, Head(srv[S].out).call)
  /\ UNCHANGED <<call, pool, strays, ran, crashes>>

SkipLine ==
  /\ pc = "wait" /\ srv[S].out # <<>> /\ ~Answered(S)
  /\ srv' = [srv EXCEPT ![S].out = Tail(@)]
  /\ UNCHANGED <<pc, call, pool, strays, result, ran, crashes>>

\* Mutant: the time allowed starts anew with every line.
FailBetweenLines ==
  /\ pc = "wait" /\ (srv[S].out = <<>> \/ Answered(S))
  /\ pool' = pool \ {S}
  /\ pc' = "closing"
  /\ UNCHANGED <<call, srv, strays, result, ran, crashes>>

\* An error answer, the end of the server's output, or the end of the time allowed,
\* which lines that answer nothing use up too: the client leaves the pool, the
\* server's input is closed.
Fail ==
  /\ pc = "wait"
  /\ pool' = pool \ {S}
  /\ pc' = "closing"
  /\ UNCHANGED <<call, srv, strays, result, ran, crashes>>

\* The error of the second attempt, or a second one with a new client.
Closed ==
  /\ IF call.attempt = 1
     THEN pc' = "get" /\ call' = [call EXCEPT !.attempt = 2] /\ UNCHANGED result
     ELSE Return(FALSE, 0) /\ UNCHANGED call
  /\ UNCHANGED <<pool, strays, ran, crashes>>

\* Mutant: the leader is killed alone.
CloseLeader ==
  /\ pc = "closing"
  /\ srv' = [srv EXCEPT ![S] = Process(FALSE, @.kin, 1, <<>>, <<>>)]
  /\ Closed

\* Mutant: the second failure does not evict.
CloseOnce ==
  /\ pc = "closing"
  /\ IF call.attempt = 1 THEN srv' = [srv EXCEPT ![S] = NoProcess] ELSE UNCHANGED srv
  /\ Closed

\* close: after two seconds a leader that has not left is killed with its group;
\* if it has (Exit), nothing is.
Close ==
  /\ pc = "closing"
  /\ srv' = [srv EXCEPT ![S] = NoProcess]
  /\ Closed

\* close_all_sessions, from on_stop: every leader leaves by itself or is killed.
CloseAll ==
  /\ pc = "idle"
  /\ \E quit \in SUBSET pool : strays' = strays \cup {s \in quit : srv[s].kin}
  /\ pool' = {}
  /\ srv' = [s \in Servers |-> IF s \in pool THEN NoProcess ELSE srv[s]]
  /\ pc' = "stopped"
  /\ UNCHANGED <<call, result, ran, crashes>>

-----------------------------------------------------------------------------
(* The server processes: a leader runs what it reads and answers it, or an    *)
(* error, when it likes; also while it is being closed.                       *)
Serve(s, ok) ==
  /\ Alive(s) /\ srv[s].in # <<>>
  /\ LET r == Head(srv[s].in)
     IN  /\ srv' = [srv EXCEPT ![s] = Process(@.alive, @.kin, @.next, Tail(@.in),
              Append(@.out, [id |-> r.id, call |-> r.call, ok |-> ok]))]
         /\ ran' = [ran EXCEPT ![r.call] = @ + 1]
  /\ UNCHANGED <<pc, call, pool, strays, result, crashes>>

\* It reads a request that waits to be written, or has exited, and the write fails;
\* it need not, while a helper holds the pipe.
Drain == pc = "write" /\ Alive(S) /\ Sent
Refuse ==
  /\ pc = "write" /\ ~Alive(S)
  /\ pool' = pool \ {S}
  /\ pc' = "closing"
  /\ UNCHANGED <<call, srv, strays, result, ran, crashes>>

\* A line nobody waits for: a notification, or an answer given twice.
Echo(s, id) ==
  /\ Alive(s) /\ Len(srv[s].out) < MaxLines
  /\ id = 0 \/ (srv[s].next > 2 /\ srv[s].in = <<>> /\ id = srv[s].next - 1)
  /\ srv' = [srv EXCEPT ![s].out = Append(@, [id |-> id, call |-> 0, ok |-> TRUE])]
  /\ UNCHANGED <<pc, call, pool, strays, result, ran, crashes>>

\* A leader exits, without being asked to or at the end of its input.  Nothing of it
\* is left that a close could find its helpers by.
Exit(s) ==
  /\ Alive(s)
  /\ srv' = [srv EXCEPT ![s] = Process(FALSE, FALSE, @.next, <<>>, @.out)]
  /\ strays' = IF srv[s].kin THEN strays \cup {s} ELSE strays
  /\ \/ crashes < MaxCrashes /\ crashes' = crashes + 1
     \/ pc = "closing" /\ s = S /\ UNCHANGED crashes
  /\ UNCHANGED <<pc, call, pool, result, ran>>

-----------------------------------------------------------------------------
Init ==
  /\ pc = "idle" /\ call = NoCall /\ pool = {}
  /\ srv = [s \in Servers |-> NoProcess] /\ strays = {}
  /\ result = NoResult /\ ran = [n \in Calls |-> 0]
  /\ crashes = 0

Manager == \/ Reuse \/ Launch \/ LaunchFails \/ Send \/ Block
           \/ Receive \/ SkipLine \/ Fail \/ Close
External == \/ Drain \/ Refuse
            \/ \E s \in Servers : \/ Exit(s)
                                  \/ \E ok \in BOOLEAN : Serve(s, ok)
                                  \/ \E id \in {0, srv[s].next - 1} : Echo(s, id)
Next == \/ Manager \/ External \/ CloseAll
        \/ \E s \in Servers, op \in Ops : Begin(s, op)
\* The manager goes on by itself, and time goes on while it reads lines; whether a
\* write that waits is read is up to the server.
Spec == Init /\ [][Next]_vars /\ WF_vars(Manager) /\ WF_vars(Fail)

-----------------------------------------------------------------------------
(* Every variable has the values the code can give it. *)
Req == [id : Nat, call : Calls]
Line == [id : Nat, call : Calls \cup {0}, ok : BOOLEAN]
Processes == [alive : BOOLEAN, kin : BOOLEAN, next : Nat, in : Seq(Req), out : Seq(Line)]
TypeOK ==
  /\ pc \in {"idle", "get", "send", "write", "wait", "closing", "stopped"}
  /\ call \in [n : 0..MaxCalls, server : Servers, op : Ops, attempt : {1, 2}, req : Nat]
  /\ pool \subseteq Servers
  /\ srv \in [Servers -> Processes] /\ strays \subseteq Servers
  /\ result \in [n : 0..MaxCalls, ok : BOOLEAN, of : Calls \cup {0}]
  /\ ran \in [Calls -> Nat]
  /\ crashes \in Nat

(* What a call returns as its result is the server's answer to that very     *)
(* call, whatever lines earlier requests left in the pipe, and then the      *)
(* server has run it.                                                        *)
AnswerIsOwn == result.ok => result.of = result.n /\ ran[result.n] > 0

(* The retry is bounded: no request is run more than twice.                  *)
RunsAtMostTwice == \A n \in Calls : ran[n] <= 2

(* Once a call has returned, answered or given up, the server never runs it: *)
(* a request that timed out dies with its client.                            *)
NothingRunsLater ==
  [][\A n \in Calls : ran'[n] # ran[n] => call.n = n /\ pc \in {"wait", "closing"}]_vars

(* Between calls every leader that runs is in the pool, and so is the leader *)
(* of every helper that has not lost it by its own exit; after on_stop there *)
(* is none of either.  (A helper whose leader exits by itself, or which is   *)
(* in a session of its own, is closed by nobody: strays.)                    *)
Running(s) == Alive(s) \/ srv[s].kin
NoneLeaked ==
  /\ pc = "idle" => \A s \in Servers : Running(s) => s \in pool
  /\ pc = "stopped" => \A s \in Servers : ~Running(s)

(* A call returns, though the server never answers or never stops writing    *)
(* lines, unless it waits for ever to write a request that is not read.      *)
CallsReturn == []<>(pc # "write") => (pc = "get" ~> pc = "idle")
=============================================================================
