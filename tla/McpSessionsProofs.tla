--------------------------- MODULE McpSessionsProofs ---------------------------
(***************************************************************************)
(* Proofs about McpSessions for any servers and any number of calls,       *)
(* crashes and unsolicited lines.                                          *)
(***************************************************************************)
EXTENDS McpSessions, TLAPS

USE McpAssumption

Busy == pc \notin {"idle", "stopped"}
Waiting == pc \in {"wait", "closing"}

\* What was sent and not run: at most the request of the attempt in progress, and
\* nothing in the pipe of a dead process.
Pending ==
  \A s \in Servers :
    /\ ~Alive(s) => srv[s].in = <<>>
    /\ srv[s].in # <<>> => /\ Waiting /\ s = S
                           /\ srv[s].in = <<[id |-> call.req, call |-> call.n]>>

\* Request ids only grow, and while a call waits its id is the last one given.
Ids ==
  /\ Busy => call.n \in Calls
  /\ \A s \in Servers, i \in Nat : i \in DOMAIN srv[s].out => srv[s].out[i].id < srv[s].next
  /\ \A s \in Servers : srv[s].next # 0
  /\ pc = "wait" \/ srv[S].in # <<>> => call.req = srv[S].next - 1 /\ call.req # 0
  /\ result.ok => result.n \in Calls

\* While a call waits, a line with its id is there only if the tool has run, and the
\* first such line is the answer to that very call.
First(s, i) == /\ i \in DOMAIN srv[s].out /\ srv[s].out[i].id = call.req
               /\ \A j \in 1..(i - 1) : srv[s].out[j].id # call.req
Answers ==
  pc = "wait" =>
    /\ srv[S].in # <<>> => \A i \in DOMAIN srv[S].out : srv[S].out[i].id # call.req
    /\ Alive(S) /\ srv[S].in = <<>> => \E i \in Nat : First(S, i)
    /\ \A i \in Nat : First(S, i) => srv[S].out[i].call = call.n /\ ran[call.n] > 0

\* A call runs at most once per attempt.
Attempts ==
  /\ \A n \in Calls : ran[n] <= 2
  /\ \A n \in Calls : n > call.n => ran[n] = 0
  /\ Busy => /\ ran[call.n] <= call.attempt
             /\ ~Waiting \/ srv[S].in # <<>> => ran[call.n] < call.attempt

\* Who runs, leader or helper under one, is in the pool or is being closed.
Pooled ==
  /\ \A s \in Servers : Running(s) => s \in pool \/ (pc = "closing" /\ s = S)
  /\ pc = "stopped" => \A s \in Servers : ~Running(s)

IInv == TypeOK /\ Pending /\ Ids /\ Answers /\ Attempts /\ Pooled /\ AnswerIsOwn

\* The server's next line, and the ones after it.
LEMMA Lines ==
  ASSUME NEW T, NEW q \in Seq(T), q # <<>>
  PROVE  /\ Head(q) \in T /\ Head(q) = q[1] /\ 1 \in DOMAIN q /\ Tail(q) \in Seq(T)
         /\ \A i \in Nat : i \in DOMAIN Tail(q) => i + 1 \in DOMAIN q /\ Tail(q)[i] = q[i + 1]
         /\ \A i \in Nat : i + 1 \in DOMAIN q /\ i # 0 => i \in DOMAIN Tail(q)
  OBVIOUS

LEMMA NoLines ==
  ASSUME NEW q, q = <<>>
  PROVE  \A i \in Nat : i \notin DOMAIN q
  OBVIOUS

LEMMA NoProcessType ==
  /\ NoProcess \in Processes
  /\ \A kin \in BOOLEAN : Process(TRUE, kin, 2, <<>>, <<>>) \in Processes
  BY DEF NoProcess, Process, Processes

LEMMA InitType == Init => TypeOK
<1> SUFFICES ASSUME Init PROVE TypeOK
  OBVIOUS
<1>1. (CHOOSE s \in Servers : TRUE) \in Servers
  OBVIOUS
<1>2. call \in [n : 0..MaxCalls, server : Servers, op : Ops, attempt : {1, 2}, req : Nat]
  BY <1>1 DEF Init, NoCall, Ops
<1>3. srv \in [Servers -> Processes]
  BY NoProcessType DEF Init
<1> QED
  BY <1>2, <1>3 DEF Init, TypeOK, NoResult, Calls

\* A step that changes one process, its variables and the pool.
LEMMA ProcessType ==
  ASSUME TypeOK, NEW s \in Servers, NEW p \in Processes, srv' = [srv EXCEPT ![s] = p]
  PROVE  srv' \in [Servers -> Processes]
  BY DEF TypeOK

LEMMA TypeInductive ==
  ASSUME TypeOK, Busy => call.n \in Calls, [Next]_vars
  PROVE  TypeOK'
<1> USE DEF TypeOK
<1>0. S \in Servers /\ srv \in [Servers -> Processes]
  BY DEF S
<1>1. ASSUME NEW s \in Servers, NEW op \in Ops, Begin(s, op) PROVE TypeOK'
  BY <1>1 DEF Begin
<1>2. CASE Reuse
  BY <1>2 DEF Reuse
<1>3. CASE Launch
  <2>1. srv' \in [Servers -> Processes]
    <3>1. PICK kin \in BOOLEAN : srv' = [srv EXCEPT ![S] = Process(TRUE, kin, 2, <<>>, <<>>)]
      BY <1>3 DEF Launch
    <3>2. Process(TRUE, kin, 2, <<>>, <<>>) \in Processes
      BY NoProcessType
    <3> QED
      BY <1>0, <3>1, <3>2, ProcessType
  <2> QED
    BY <1>0, <1>3, <2>1 DEF Launch
<1>4. CASE LaunchFails
  <2>1. srv' \in [Servers -> Processes]
    BY <1>0, <1>4, NoProcessType, ProcessType DEF LaunchFails
  <2> QED
    BY <1>0, <1>4, <2>1 DEF LaunchFails, Return
<1>5. ASSUME Sent, Busy PROVE TypeOK'
  <2> DEFINE r == [id |-> srv[S].next, call |-> call.n]
             q == IF srv[S].alive THEN Append(srv[S].in, r) ELSE srv[S].in
             p == Process(srv[S].alive, srv[S].kin, srv[S].next + 1, q, srv[S].out)
  <2>1. r \in Req
    BY <1>0, <1>5 DEF Req, Process, Processes, Busy
  <2>2. q \in Seq(Req)
    BY <1>0, <2>1 DEF Process, Processes
  <2>3. p \in Processes
    BY <1>0, <2>2 DEF Process, Processes
  <2>4. srv' = [srv EXCEPT ![S] = p]
    BY <1>0, <1>5 DEF Sent
  <2>5. srv' \in [Servers -> Processes]
    BY <1>0, <2>3, <2>4, ProcessType
  <2>6. srv[S].next \in Nat
    BY <1>0 DEF Processes
  <2>7. call' \in [n : 0..MaxCalls, server : Servers, op : Ops, attempt : {1, 2}, req : Nat]
    BY <1>5, <2>6 DEF Sent
  <2> QED
    BY <1>5, <2>5, <2>7 DEF Sent
<1>6. CASE Receive \/ SkipLine
  <2>1. srv[S].out # <<>> /\ srv[S].out \in Seq(Line)
    BY <1>0, <1>6 DEF Receive, SkipLine, Answered, Process, Processes
  <2>2. Head(srv[S].out) \in Line /\ Tail(srv[S].out) \in Seq(Line)
    BY <2>1, Lines
  <2> DEFINE p == [srv[S] EXCEPT !.out = Tail(srv[S].out)]
  <2>3. p \in Processes
    BY <1>0, <2>2 DEF Processes
  <2>4. srv' = [srv EXCEPT ![S] = p]
    BY <1>0, <1>6 DEF Receive, SkipLine
  <2>5. srv' \in [Servers -> Processes]
    BY <1>0, <2>3, <2>4, ProcessType
  <2>6. Head(srv[S].out).call \in Calls \cup {0}
    BY <2>2 DEF Line
  <2>7. CASE Receive
    BY <2>5, <2>6, <2>7 DEF Receive, Return
  <2>8. CASE SkipLine
    BY <2>5, <2>8 DEF SkipLine
  <2> QED
    BY <1>6, <2>7, <2>8
<1>7. CASE Fail \/ Refuse \/ Block
  BY <1>7 DEF Fail, Refuse, Block
<1>8. CASE Close
  <2>1. srv' \in [Servers -> Processes]
    BY <1>0, <1>8, NoProcessType, ProcessType DEF Close
  <2>2. call' \in [n : 0..MaxCalls, server : Servers, op : Ops, attempt : {1, 2}, req : Nat]
    BY <1>8 DEF Close, Closed
  <2>3. result' \in [n : 0..MaxCalls, ok : BOOLEAN, of : Calls \cup {0}]
    <3>1. result' = result \/ result' = [n |-> call.n, ok |-> FALSE, of |-> 0]
      BY <1>8 DEF Close, Closed, Return
    <3>2. call.n \in 0..MaxCalls
      OBVIOUS
    <3>3. CASE result' = result
      BY <3>3
    <3>4. CASE result' = [n |-> call.n, ok |-> FALSE, of |-> 0]
      BY <3>2, <3>4
    <3> QED
      BY <3>1, <3>3, <3>4
  <2>4. pc' \in {"idle", "get"}
    BY <1>8 DEF Close, Closed, Return
  <2> QED
    BY <1>8, <2>1, <2>2, <2>3, <2>4 DEF Close, Closed
<1>9. CASE CloseAll
  <2>1. srv' \in [Servers -> Processes]
    BY <1>0, <1>9, NoProcessType DEF CloseAll
  <2>2. strays' \subseteq Servers
    BY <1>9 DEF CloseAll
  <2> QED
    BY <1>9, <2>1, <2>2 DEF CloseAll
<1>10. ASSUME NEW s \in Servers, NEW ok \in BOOLEAN, Serve(s, ok) PROVE TypeOK'
  <2> DEFINE r == Head(srv[s].in)
             l == [id |-> r.id, call |-> r.call, ok |-> ok]
             p == Process(srv[s].alive, srv[s].kin, srv[s].next, Tail(srv[s].in),
                          Append(srv[s].out, l))
  <2>1. r \in Req /\ Tail(srv[s].in) \in Seq(Req)
    BY <1>0, <1>10, Lines DEF Serve, Process, Processes
  <2>2. l \in Line
    BY <2>1 DEF Req, Line
  <2>3. Append(srv[s].out, l) \in Seq(Line)
    BY <1>0, <2>2 DEF Process, Processes
  <2>4. p \in Processes
    BY <1>0, <2>1, <2>3 DEF Process, Processes
  <2>5. srv' = [srv EXCEPT ![s] = p]
    BY <1>0, <1>10 DEF Serve
  <2>6. srv' \in [Servers -> Processes]
    BY <2>4, <2>5, ProcessType
  <2>7. ran' \in [Calls -> Nat]
    BY <1>10, <2>1 DEF Serve, Req
  <2> QED
    BY <1>10, <2>6, <2>7 DEF Serve
<1>11. ASSUME NEW s \in Servers, NEW id \in {0, srv[s].next - 1}, Echo(s, id) PROVE TypeOK'
  <2> DEFINE l == [id |-> id, call |-> 0, ok |-> TRUE]
             p == [srv[s] EXCEPT !.out = Append(srv[s].out, l)]
  <2>1. l \in Line
    <3>1. srv[s].next \in Nat /\ (id # 0 => srv[s].next > 2)
      BY <1>0, <1>11 DEF Echo, Processes
    <3>2. id \in Nat
      BY <3>1
    <3> QED
      BY <3>2 DEF Line
  <2>2. Append(srv[s].out, l) \in Seq(Line)
    BY <1>0, <2>1 DEF Processes
  <2>3. p \in Processes
    BY <1>0, <2>2 DEF Processes
  <2>4. srv' = [srv EXCEPT ![s] = p]
    BY <1>0, <1>11 DEF Echo
  <2>5. srv' \in [Servers -> Processes]
    BY <2>3, <2>4, ProcessType
  <2> QED
    BY <1>11, <2>5 DEF Echo
<1>12. ASSUME NEW s \in Servers, Exit(s) PROVE TypeOK'
  <2> DEFINE p == Process(FALSE, FALSE, srv[s].next, <<>>, srv[s].out)
  <2>1. p \in Processes
    BY <1>0 DEF Process, Processes
  <2>2. srv' = [srv EXCEPT ![s] = p]
    BY <1>0, <1>12 DEF Exit
  <2>3. srv' \in [Servers -> Processes]
    BY <2>1, <2>2, ProcessType
  <2>4. UNCHANGED <<pc, call, pool, result, ran>> /\ crashes' \in Nat /\ strays' \subseteq Servers
    BY <1>12 DEF Exit
  <2> QED
    BY <2>3, <2>4
<1>13. CASE UNCHANGED vars
  BY <1>13 DEF vars
<1> QED
  BY <1>1, <1>2, <1>3, <1>4, <1>5, <1>6, <1>7, <1>8, <1>9, <1>10, <1>11, <1>12, <1>13
     DEF Next, Manager, External, Send, Drain, Busy

Safe == Pending /\ Ids /\ Answers /\ Attempts /\ Pooled /\ AnswerIsOwn

LEMMA InitSafe == Init => Safe
  BY InitType DEF Init, Safe, Pending, Ids, Answers, Attempts, Pooled, AnswerIsOwn,
     TypeOK, NoProcess, Process, NoCall, NoResult, Busy, Waiting, Alive, Running, S

\* Steps that change no process: a call begins, a client is used again, a call fails.
LEMMA BeginSafe ==
  ASSUME TypeOK, Safe, NEW s \in Servers, NEW op \in Ops, Begin(s, op)
  PROVE  Safe'
<1> USE DEF Begin, TypeOK
<1>1. call'.n = call.n + 1 /\ call'.server = s /\ call'.attempt = 1 /\ call'.n \in Calls
  BY DEF Calls
<1>2. Pending'
  BY <1>1 DEF Safe, Pending, Waiting, Alive
<1>3. Ids'
  BY <1>1 DEF Safe, Ids, Pending, Waiting, S
<1>4. Answers'
  BY DEF Answers
<1>5. Attempts'
  BY <1>1, <1>2 DEF Safe, Attempts, Busy, Waiting, S, Calls
<1>6. Pooled'
  BY <1>1 DEF Safe, Pooled, Running, Alive
<1>7. AnswerIsOwn'
  BY DEF Safe, AnswerIsOwn
<1> QED
  BY <1>2, <1>3, <1>4, <1>5, <1>6, <1>7 DEF Safe

LEMMA ReuseSafe ==
  ASSUME TypeOK, Safe, Reuse
  PROVE  Safe'
  BY DEF TypeOK, Reuse, Safe, Pending, Ids, Answers, Attempts, Pooled, AnswerIsOwn, Busy,
     Waiting, Alive, Running, S

LEMMA BlockSafe ==
  ASSUME TypeOK, Safe, Block
  PROVE  Safe'
  BY DEF TypeOK, Block, Safe, Pending, Ids, Answers, Attempts, Pooled, AnswerIsOwn, Busy,
     Waiting, Alive, Running, S

LEMMA FailSafe ==
  ASSUME TypeOK, Safe, Fail \/ Refuse
  PROVE  Safe'
<1>1. CASE Fail
  BY <1>1 DEF TypeOK, Fail, Safe, Pending, Ids, Answers, Attempts, Pooled, AnswerIsOwn, Busy,
     Waiting, Alive, Running, S
<1>2. CASE Refuse
  BY <1>2 DEF TypeOK, Refuse, Safe, Pending, Ids, Answers, Attempts, Pooled, AnswerIsOwn,
     Busy, Waiting, Alive, Running, S
<1> QED
  BY <1>1, <1>2

\* A process is started, or fails to start.
LEMMA LaunchSafe ==
  ASSUME TypeOK, Safe, Launch
  PROVE  Safe'
<1> USE DEF Launch, TypeOK
<1>1. S \in Servers
  BY DEF S
<1>2. /\ srv'[S].in = <<>> /\ srv'[S].out = <<>> /\ srv'[S].next = 2 /\ srv'[S].alive
      /\ \A s \in Servers : s # S => srv'[s] = srv[s]
  BY <1>1 DEF Process
<1>3. Pending'
  BY <1>1, <1>2 DEF Safe, Pending, Waiting, Alive, S
<1>4. Ids'
  <2>1. \A s \in Servers, i \in Nat :
          i \in DOMAIN srv'[s].out => srv'[s].out[i].id < srv'[s].next
    <3>1. ASSUME NEW s \in Servers, s # S, NEW i \in Nat, i \in DOMAIN srv'[s].out
          PROVE  srv'[s].out[i].id < srv'[s].next
      BY <1>2, <3>1 DEF Safe, Ids
    <3>2. \A i \in Nat : i \notin DOMAIN srv'[S].out
      BY <1>2, NoLines
    <3> QED
      BY <3>1, <3>2
  <2>2. \A s \in Servers : srv'[s].next # 0
    <3>1. ASSUME NEW s \in Servers, s # S PROVE srv'[s].next # 0
      BY <1>2, <3>1 DEF Safe, Ids
    <3> HIDE DEF Launch, TypeOK
    <3>2. srv'[S].next # 0
      BY <1>2
    <3> QED
      BY <3>1, <3>2
  <2> QED
    BY <1>1, <1>2, <2>1, <2>2 DEF Safe, Ids, Busy, Waiting, S
<1>5. Answers'
  BY DEF Answers
<1>6. Attempts'
  BY DEF Safe, Attempts, Busy, Waiting
<1>7. Pooled'
  BY <1>1, <1>2 DEF Safe, Pooled, Running, Alive
<1>8. AnswerIsOwn'
  BY DEF Safe, AnswerIsOwn
<1> QED
  BY <1>3, <1>4, <1>5, <1>6, <1>7, <1>8 DEF Safe

LEMMA LaunchFailsSafe ==
  ASSUME TypeOK, Safe, LaunchFails
  PROVE  Safe'
<1> USE DEF LaunchFails, TypeOK, Return
<1>1. S \in Servers
  BY DEF S
<1>2. /\ srv'[S].in = <<>> /\ srv'[S].out = <<>> /\ srv'[S].next = 1
      /\ ~srv'[S].alive /\ ~srv'[S].kin
      /\ \A s \in Servers : s # S => srv'[s] = srv[s]
  BY <1>1 DEF NoProcess, Process
<1>3. Pending'
  BY <1>1, <1>2 DEF Safe, Pending, Waiting, Alive, S
<1>4. Ids'
  BY <1>1, <1>2 DEF Safe, Ids, Busy, Waiting, S
<1>5. Answers'
  BY DEF Answers
<1>6. Attempts'
  BY DEF Safe, Attempts, Busy, Waiting
<1>7. Pooled'
  BY <1>1, <1>2 DEF Safe, Pooled, Running, Alive
<1>8. AnswerIsOwn'
  BY DEF Safe, AnswerIsOwn
<1> QED
  BY <1>3, <1>4, <1>5, <1>6, <1>7, <1>8 DEF Safe

\* The ids of the lines in a pipe.
LEMMA LineIds ==
  ASSUME TypeOK, Safe, NEW s \in Servers
  PROVE  /\ srv[s] \in Processes /\ srv[s].out \in Seq(Line) /\ srv[s].next \in Nat
         /\ \A i \in DOMAIN srv[s].out :
              i \in Nat /\ srv[s].out[i].id \in Nat /\ srv[s].out[i].id < srv[s].next
<1>1. srv[s] \in Processes /\ srv[s].out \in Seq(Line) /\ srv[s].next \in Nat
  BY DEF TypeOK, Processes
<1>2. \A i \in DOMAIN srv[s].out : i \in Nat /\ srv[s].out[i] \in Line
  BY <1>1
<1>3. \A i \in Nat : i \in DOMAIN srv[s].out => srv[s].out[i].id < srv[s].next
  BY DEF Safe, Ids
<1> QED
  BY <1>1, <1>2, <1>3 DEF Line

\* A request is written, and the call waits for the line with its id.
LEMMA SendSafe ==
  ASSUME TypeOK, Safe, pc \in {"send", "write"}, Sent
  PROVE  Safe'
<1> USE DEF TypeOK
<1> DEFINE r == [id |-> srv[S].next, call |-> call.n]
<1>1. S \in Servers /\ srv[S] \in Processes /\ pc \in {"send", "write"} /\ pc' = "wait"
  BY DEF S, Sent
<1>2. srv[S].in = <<>>
  BY <1>1 DEF Safe, Pending, Waiting
<1>3. /\ srv'[S].in = IF srv[S].alive THEN <<r>> ELSE <<>>
      /\ srv'[S].out = srv[S].out /\ srv'[S].next = srv[S].next + 1
      /\ srv'[S].alive = srv[S].alive
      /\ srv'[S].kin = srv[S].kin
      /\ \A s \in Servers : s # S => srv'[s] = srv[s]
  BY <1>1, <1>2 DEF Sent, Process
<1>4. /\ call'.n = call.n /\ call'.server = call.server /\ call'.attempt = call.attempt
      /\ call'.req = srv[S].next /\ S' = S
      /\ UNCHANGED <<pool, result, ran, crashes>>
  BY <1>1 DEF Sent, S
<1>5. srv[S].next \in Nat /\ srv[S].alive \in BOOLEAN
  BY <1>1 DEF Processes
<1>6. \A i \in Nat : i \in DOMAIN srv[S].out =>
        srv[S].out[i].id \in Nat /\ srv[S].out[i].id < srv[S].next
  BY <1>1, LineIds
<1>7. Pending'
  BY <1>1, <1>2, <1>3, <1>4, <1>5 DEF Safe, Pending, Waiting, Alive
<1>8. Ids'
  <2>1. \A s \in Servers, i \in Nat :
          i \in DOMAIN srv'[s].out => srv'[s].out[i].id < srv'[s].next
    <3>1. ASSUME NEW s \in Servers, s # S, NEW i \in Nat, i \in DOMAIN srv'[s].out
          PROVE  srv'[s].out[i].id < srv'[s].next
      BY <1>3, <3>1 DEF Safe, Ids
    <3>2. ASSUME NEW i \in Nat, i \in DOMAIN srv'[S].out
          PROVE  srv'[S].out[i].id < srv'[S].next
      BY <1>3, <1>5, <1>6, <3>2
    <3> QED
      BY <3>1, <3>2
  <2>2. call'.n \in Calls
    BY <1>1, <1>4 DEF Safe, Ids, Busy
  <2>3. call'.req = srv'[S].next - 1
    BY <1>3, <1>4, <1>5
  <2>4. call'.req # 0
    BY <1>1, <1>4 DEF Safe, Ids
  <2>5. \A s \in Servers : srv'[s].next # 0
    <3>1. ASSUME NEW s \in Servers, s # S PROVE srv'[s].next # 0
      BY <1>3, <3>1 DEF Safe, Ids
    <3>2. srv'[S].next # 0
      BY <1>3, <1>5
    <3> QED
      BY <3>1, <3>2
  <2> QED
    BY <1>4, <2>1, <2>2, <2>3, <2>4, <2>5 DEF Safe, Ids
<1>9. Answers'
  <2>1. \A i \in DOMAIN srv'[S].out : i \in Nat /\ srv'[S].out[i].id # call'.req
    <3>1. \A i \in DOMAIN srv[S].out : i \in Nat
      BY <1>1, LineIds
    <3> QED
      BY <3>1, <1>3, <1>4, <1>5, <1>6
  <2>2. \A i \in Nat : ~First(S, i)'
    BY <1>4, <2>1 DEF First
  <2>3. ~(srv'[S].alive /\ srv'[S].in = <<>>)
    BY <1>3
  <2> QED
    BY <1>4, <2>1, <2>2, <2>3 DEF Answers, Alive
<1>10. Attempts'
  BY <1>1, <1>4 DEF Safe, Attempts, Busy, Waiting
<1>11. Pooled'
  BY <1>1, <1>3, <1>4 DEF Safe, Pooled, Running, Alive
<1>12. AnswerIsOwn'
  BY <1>4 DEF Safe, AnswerIsOwn
<1> QED
  BY <1>7, <1>8, <1>9, <1>10, <1>11, <1>12 DEF Safe

\* The line that is waited for is the next one.
LEMMA ReceiveSafe ==
  ASSUME TypeOK, Safe, Receive
  PROVE  Safe'
<1> USE DEF TypeOK
<1>1. /\ S \in Servers /\ srv[S] \in Processes /\ pc = "wait" /\ pc' = "idle"
      /\ srv[S].out \in Seq(Line) /\ srv[S].out # <<>>
  BY DEF S, Receive, Return, Answered, Processes
<1>2. 1 \in DOMAIN srv[S].out /\ Head(srv[S].out) = srv[S].out[1]
  BY <1>1, Lines
<1>3. First(S, 1)
  BY <1>2 DEF First, Receive, Answered
<1>4. srv[S].out[1].call = call.n /\ ran[call.n] > 0
  BY <1>1, <1>3 DEF Safe, Answers
<1>5. srv[S].in = <<>>
  BY <1>1, <1>2, <1>3 DEF Safe, Answers, First
<1>6. /\ srv'[S].in = srv[S].in /\ srv'[S].out = Tail(srv[S].out)
      /\ srv'[S].next = srv[S].next /\ srv'[S].alive = srv[S].alive
      /\ srv'[S].kin = srv[S].kin
      /\ \A s \in Servers : s # S => srv'[s] = srv[s]
      /\ UNCHANGED <<call, pool, ran, crashes>> /\ S' = S
  BY <1>1 DEF Receive, S, Processes
<1>7. result'.of = call.n /\ result'.n = call.n /\ call.n \in Calls
  BY <1>1, <1>2, <1>4 DEF Receive, Return, Safe, Ids, Busy
<1>8. Pending'
  BY <1>1, <1>5, <1>6 DEF Safe, Pending, Alive
<1>9. Ids'
  <2>1. \A s \in Servers, i \in Nat :
          i \in DOMAIN srv'[s].out => srv'[s].out[i].id < srv'[s].next
    <3>1. ASSUME NEW s \in Servers, s # S, NEW i \in Nat, i \in DOMAIN srv'[s].out
          PROVE  srv'[s].out[i].id < srv'[s].next
      BY <1>6, <3>1 DEF Safe, Ids
    <3>2. ASSUME NEW i \in Nat, i \in DOMAIN srv'[S].out
          PROVE  srv'[S].out[i].id < srv'[S].next
      <4>1. i + 1 \in DOMAIN srv[S].out /\ srv'[S].out[i] = srv[S].out[i + 1]
        BY <1>1, <1>6, <3>2, Lines
      <4> QED
        BY <1>1, <1>6, <4>1, LineIds
    <3> QED
      BY <3>1, <3>2
  <2>2. \A s \in Servers : srv'[s].next # 0
    BY <1>6 DEF Safe, Ids
  <2> QED
    BY <1>1, <1>5, <1>6, <1>7, <2>1, <2>2 DEF Ids, Busy, Waiting
<1>10. Answers'
  BY <1>1 DEF Answers
<1>11. Attempts'
  BY <1>1, <1>6 DEF Safe, Attempts, Busy, Waiting
<1>12. Pooled'
  BY <1>1, <1>6 DEF Safe, Pooled, Running, Alive
<1>13. AnswerIsOwn'
  BY <1>4, <1>6, <1>7 DEF AnswerIsOwn
<1> QED
  BY <1>8, <1>9, <1>10, <1>11, <1>12, <1>13 DEF Safe

\* Another line is read and dropped: the lines move up by one.
LEMMA SkipLineSafe ==
  ASSUME TypeOK, Safe, SkipLine
  PROVE  Safe'
<1> USE DEF TypeOK
<1>1. /\ S \in Servers /\ srv[S] \in Processes /\ pc = "wait" /\ pc' = "wait"
      /\ srv[S].out \in Seq(Line) /\ srv[S].out # <<>> /\ Head(srv[S].out).id # call.req
  BY DEF S, SkipLine, Answered, Processes
<1>2. 1 \in DOMAIN srv[S].out /\ srv[S].out[1].id # call.req
  BY <1>1, Lines
<1>3. /\ srv'[S].in = srv[S].in /\ srv'[S].out = Tail(srv[S].out)
      /\ srv'[S].next = srv[S].next /\ srv'[S].alive = srv[S].alive
      /\ srv'[S].kin = srv[S].kin
      /\ \A s \in Servers : s # S => srv'[s] = srv[s]
      /\ UNCHANGED <<call, pool, result, ran, crashes>> /\ S' = S
  BY <1>1 DEF SkipLine, S, Processes
<1>4. \A i \in Nat : i \in DOMAIN srv'[S].out =>
        i + 1 \in DOMAIN srv[S].out /\ srv'[S].out[i] = srv[S].out[i + 1]
  BY <1>1, <1>3, Lines
<1>5. \A i \in Nat : i + 1 \in DOMAIN srv[S].out /\ i # 0 => i \in DOMAIN srv'[S].out
  BY <1>1, <1>3, Lines
<1>6. \A i \in DOMAIN srv'[S].out : i \in Nat /\ i # 0
  BY <1>1, <1>3
<1>7. Pending'
  BY <1>1, <1>3 DEF Safe, Pending, Waiting, Alive
<1>8. Ids'
  <2>1. \A s \in Servers, i \in Nat :
          i \in DOMAIN srv'[s].out => srv'[s].out[i].id < srv'[s].next
    <3>1. ASSUME NEW s \in Servers, s # S, NEW i \in Nat, i \in DOMAIN srv'[s].out
          PROVE  srv'[s].out[i].id < srv'[s].next
      BY <1>3, <3>1 DEF Safe, Ids
    <3>2. ASSUME NEW i \in Nat, i \in DOMAIN srv'[S].out
          PROVE  srv'[S].out[i].id < srv'[S].next
      BY <1>1, <1>3, <1>4, <3>2, LineIds
    <3> QED
      BY <3>1, <3>2
  <2> QED
    BY <1>1, <1>3, <2>1 DEF Safe, Ids, Busy, Waiting
<1>9. ASSUME NEW i \in Nat, First(S, i)'
      PROVE  First(S, i + 1) /\ srv'[S].out[i] = srv[S].out[i + 1]
  <2>1. i + 1 \in DOMAIN srv[S].out /\ srv'[S].out[i] = srv[S].out[i + 1]
    BY <1>3, <1>4, <1>9 DEF First
  <2>2. srv[S].out[i + 1].id = call.req
    BY <1>3, <1>9, <2>1 DEF First
  <2>3. ASSUME NEW j \in 1..i PROVE srv[S].out[j].id # call.req
    <3>1. CASE j = 1
      BY <1>2, <3>1
    <3>2. CASE j # 1
      <4>1. j - 1 \in Nat /\ j - 1 \in 1..(i - 1) /\ (j - 1) + 1 = j
        BY <3>2
      <4>2. j \in DOMAIN srv[S].out
        BY <1>1, <2>1
      <4>3. j - 1 \in DOMAIN srv'[S].out
        BY <1>5, <3>2, <4>1, <4>2
      <4>4. srv'[S].out[j - 1] = srv[S].out[j]
        BY <1>4, <4>1, <4>3
      <4> QED
        BY <1>3, <1>9, <4>1, <4>4 DEF First
    <3> QED
      BY <3>1, <3>2
  <2> QED
    BY <2>1, <2>2, <2>3 DEF First
<1>10. ASSUME NEW i \in Nat, First(S, i) PROVE \E k \in Nat : First(S, k)'
  <2>1. i \in DOMAIN srv[S].out /\ srv[S].out[i].id = call.req /\ i # 1 /\ i # 0
    BY <1>1, <1>2, <1>10 DEF First
  <2>2. i - 1 \in Nat /\ (i - 1) + 1 = i /\ i - 1 # 0
    BY <2>1
  <2>3. i - 1 \in DOMAIN srv'[S].out
    BY <1>5, <2>1, <2>2
  <2>4. srv'[S].out[i - 1].id = call.req
    BY <1>4, <2>1, <2>2, <2>3
  <2>5. ASSUME NEW j \in 1..((i - 1) - 1) PROVE srv'[S].out[j].id # call.req
    <3>1. j \in Nat /\ j # 0 /\ j + 1 \in 1..(i - 1)
      BY <2>2
    <3>2. j + 1 \in DOMAIN srv[S].out
      BY <1>1, <2>1, <3>1
    <3>3. srv'[S].out[j] = srv[S].out[j + 1]
      BY <1>4, <1>5, <3>1, <3>2
    <3> QED
      BY <1>10, <3>1, <3>3 DEF First
  <2> QED
    BY <1>3, <2>2, <2>3, <2>4, <2>5 DEF First
<1>11. Answers'
  <2>1. ASSUME srv'[S].in # <<>>
        PROVE  \A i \in DOMAIN srv'[S].out : srv'[S].out[i].id # call'.req
    <3>1. \A i \in DOMAIN srv[S].out : srv[S].out[i].id # call.req
      BY <1>1, <1>3, <2>1 DEF Safe, Answers
    <3>2. ASSUME NEW i \in DOMAIN srv'[S].out PROVE srv'[S].out[i].id # call'.req
      <4>1. i + 1 \in DOMAIN srv[S].out /\ srv'[S].out[i] = srv[S].out[i + 1]
        BY <1>4, <1>6, <3>2
      <4> QED
        BY <1>3, <3>1, <4>1
    <3> QED
      BY <3>2
  <2>2. ASSUME srv'[S].alive, srv'[S].in = <<>> PROVE \E i \in Nat : First(S, i)'
    <3>1. PICK i \in Nat : First(S, i)
      BY <1>1, <1>3, <2>2 DEF Safe, Answers, Alive
    <3> QED
      BY <1>10, <3>1
  <2>3. ASSUME NEW i \in Nat, First(S, i)'
        PROVE  srv'[S].out[i].call = call'.n /\ ran'[call'.n] > 0
    <3>1. i + 1 \in Nat /\ First(S, i + 1) /\ srv'[S].out[i] = srv[S].out[i + 1]
      BY <1>9, <2>3
    <3>2. srv[S].out[i + 1].call = call.n /\ ran[call.n] > 0
      BY <1>1, <3>1 DEF Safe, Answers
    <3> QED
      BY <1>3, <3>1, <3>2
  <2> QED
    BY <1>3, <2>1, <2>2, <2>3 DEF Answers, Alive
<1>12. Attempts'
  BY <1>1, <1>3 DEF Safe, Attempts, Busy, Waiting
<1>13. Pooled'
  BY <1>1, <1>3 DEF Safe, Pooled, Running, Alive
<1>14. AnswerIsOwn'
  BY <1>3 DEF Safe, AnswerIsOwn
<1> QED
  BY <1>7, <1>8, <1>11, <1>12, <1>13, <1>14 DEF Safe

\* The process is killed: another attempt, or the error of the second.
LEMMA CloseSafe ==
  ASSUME TypeOK, Safe, Close
  PROVE  Safe'
<1> USE DEF TypeOK
<1>1. S \in Servers /\ pc = "closing" /\ S' = S /\ call'.n = call.n /\ call.n \in Calls
  BY DEF S, Close, Closed, Safe, Ids, Busy
<1>2. /\ srv'[S].in = <<>> /\ srv'[S].out = <<>> /\ ~srv'[S].alive /\ ~srv'[S].kin
      /\ \A s \in Servers : s # S => srv'[s] = srv[s]
      /\ UNCHANGED <<pool, ran, crashes>>
  BY <1>1 DEF Close, Closed, NoProcess, Process
<1>3. \/ pc' = "get" /\ call'.attempt = 2 /\ call.attempt = 1 /\ result' = result
      \/ pc' = "idle" /\ result'.ok = FALSE
  BY DEF Close, Closed, Return
<1>4. Pending'
  BY <1>1, <1>2 DEF Safe, Pending, Alive
<1>5. Ids'
  <2>1. \A s \in Servers, i \in Nat :
          i \in DOMAIN srv'[s].out => srv'[s].out[i].id < srv'[s].next
    <3>1. ASSUME NEW s \in Servers, s # S, NEW i \in Nat, i \in DOMAIN srv'[s].out
          PROVE  srv'[s].out[i].id < srv'[s].next
      BY <1>2, <3>1 DEF Safe, Ids
    <3>2. \A i \in Nat : i \notin DOMAIN srv'[S].out
      BY <1>2, NoLines
    <3> QED
      BY <3>1, <3>2
  <2>2. \A s \in Servers : srv'[s].next # 0
    <3>1. srv'[S].next = 1
      BY <1>1 DEF Close, NoProcess, Process
    <3> QED
      BY <1>2, <3>1 DEF Safe, Ids
  <2> QED
    BY <1>1, <1>2, <1>3, <2>1, <2>2 DEF Safe, Ids, Waiting
<1>6. Answers'
  BY <1>3 DEF Answers
<1>7. Attempts'
  <2>1. ran[call.n] <= call.attempt /\ ran[call.n] \in Nat /\ call.attempt \in {1, 2}
    BY <1>1 DEF Safe, Attempts, Busy
  <2> QED
    BY <1>1, <1>2, <1>3, <2>1 DEF Safe, Attempts, Busy
<1>8. Pooled'
  BY <1>1, <1>2, <1>3 DEF Safe, Pooled, Running, Alive
<1>9. AnswerIsOwn'
  BY <1>2, <1>3 DEF Safe, AnswerIsOwn
<1> QED
  BY <1>4, <1>5, <1>6, <1>7, <1>8, <1>9 DEF Safe

\* Between calls all that runs is in the pool, so on_stop leaves nothing.
LEMMA CloseAllSafe ==
  ASSUME TypeOK, Safe, CloseAll
  PROVE  Safe'
<1> USE DEF TypeOK
<1>1. /\ pc = "idle" /\ pc' = "stopped"
      /\ UNCHANGED <<call, result, ran, crashes>>
  BY DEF CloseAll
<1>2. \A s \in Servers : srv'[s] = srv[s] \/ (s \in pool /\ srv'[s] = NoProcess)
  BY DEF CloseAll
<1>3. \A s \in Servers : Running(s) => s \in pool
  BY <1>1 DEF Safe, Pooled
<1>4. ~NoProcess.alive /\ ~NoProcess.kin /\ NoProcess.in = <<>> /\ NoProcess.out = <<>>
  BY DEF NoProcess, Process
<1>5. \A i \in Nat : i \notin DOMAIN NoProcess.out
  BY <1>4, NoLines
<1>6. \A s \in Servers : srv[s].in = <<>>
  BY <1>1 DEF Safe, Pending, Waiting
<1>7. \A s \in Servers : ~srv'[s].alive /\ ~srv'[s].kin
  BY <1>2, <1>3, <1>4 DEF CloseAll, Alive, Running, Processes
<1>8. Pending'
  BY <1>2, <1>4, <1>6 DEF Pending
<1>9. Ids'
  <2>1. \A s \in Servers : srv'[s].next # 0
    BY <1>2 DEF Safe, Ids, NoProcess, Process
  <2>2. \A s \in Servers : srv'[s].in = <<>>
    BY <1>2, <1>4, <1>6
  <2> QED
    BY <1>1, <1>2, <1>5, <2>1, <2>2 DEF Safe, Ids, Busy, Waiting, S
<1>10. Answers'
  BY <1>1 DEF Answers
<1>11. Attempts'
  BY <1>1 DEF Safe, Attempts, Busy
<1>12. Pooled'
  BY <1>1, <1>7 DEF Pooled, Running, Alive
<1>13. AnswerIsOwn'
  BY <1>1 DEF Safe, AnswerIsOwn
<1> QED
  BY <1>8, <1>9, <1>10, <1>11, <1>12, <1>13 DEF Safe

\* A line is added at the end of a pipe.
LEMMA AddLine ==
  ASSUME NEW q \in Seq(Line), NEW l \in Line
  PROVE  /\ Append(q, l) \in Seq(Line) /\ Len(q) + 1 \in Nat
         /\ Len(q) + 1 \in DOMAIN Append(q, l) /\ Append(q, l)[Len(q) + 1] = l
         /\ \A i \in Nat : i \in DOMAIN Append(q, l) =>
              i = Len(q) + 1 \/ (i \in DOMAIN q /\ Append(q, l)[i] = q[i])
         /\ \A i \in DOMAIN q : i \in DOMAIN Append(q, l) /\ Append(q, l)[i] = q[i]
         /\ \A j \in 1..Len(q) : j \in DOMAIN q
  OBVIOUS

\* The request in the pipe is run and answered: it is the waiting call's, which has
\* not run in this attempt.
LEMMA ServeSafe ==
  ASSUME TypeOK, Safe, NEW s \in Servers, NEW ok \in BOOLEAN, Serve(s, ok)
  PROVE  Safe'
<1> USE DEF TypeOK
<1> DEFINE l == [id |-> call.req, call |-> call.n, ok |-> ok]
           q == srv[S].out
<1>1. /\ Waiting /\ s = S /\ srv[S].in = <<[id |-> call.req, call |-> call.n]>>
      /\ srv[S].alive /\ srv[S] \in Processes
  <2>1. Alive(s) /\ srv[s].in # <<>> /\ srv[s] \in Processes
    BY DEF Serve
  <2> QED
    BY <2>1 DEF Safe, Pending, Alive
<1>2. Head(srv[S].in) = [id |-> call.req, call |-> call.n] /\ Tail(srv[S].in) = <<>>
  BY <1>1
<1> DEFINE h == Head(srv[s].in)
<1>2a. /\ srv' = [srv EXCEPT ![s] = Process(srv[s].alive, srv[s].kin, srv[s].next, Tail(srv[s].in),
            Append(srv[s].out, [id |-> h.id, call |-> h.call, ok |-> ok]))]
      /\ ran' = [ran EXCEPT ![h.call] = @ + 1]
      /\ UNCHANGED <<pc, call, pool, result, crashes>>
  BY DEF Serve
<1>2b. h.id = call.req /\ h.call = call.n
  BY <1>1, <1>2
<1>3. /\ srv'[S].in = <<>> /\ srv'[S].out = Append(q, l)
      /\ srv'[S].next = srv[S].next /\ srv'[S].alive = srv[S].alive
      /\ srv'[S].kin = srv[S].kin
      /\ \A t \in Servers : t # S => srv'[t] = srv[t]
  <2>1. srv' = [srv EXCEPT ![S] = Process(srv[S].alive, srv[S].kin, srv[S].next, <<>>, Append(q, l))]
    BY <1>1, <1>2, <1>2a, <1>2b
  <2> QED
    BY <1>1, <2>1 DEF Process
<1>4. /\ ran' = [ran EXCEPT ![call.n] = @ + 1]
      /\ UNCHANGED <<pc, call, pool, result, crashes>> /\ S' = S
  BY <1>2a, <1>2b DEF S
<1>5. call.n \in Calls /\ call.req = srv[S].next - 1 /\ call.req \in Nat
  BY <1>1 DEF Safe, Ids, Waiting, Busy
<1>6. q \in Seq(Line) /\ l \in Line
  BY <1>1, <1>5 DEF Processes, Line
<1>7. \A i \in DOMAIN q : i \in Nat /\ q[i].id \in Nat /\ q[i].id < srv[S].next
  BY <1>1, LineIds
<1>8. Pending'
  BY <1>1, <1>3, <1>4 DEF Safe, Pending, Waiting, Alive
<1>9. Ids'
  <2>1. ASSUME NEW t \in Servers, NEW i \in Nat, i \in DOMAIN srv'[t].out
        PROVE  srv'[t].out[i].id < srv'[t].next
    <3>1. CASE t # S
      BY <1>3, <2>1, <3>1 DEF Safe, Ids
    <3>2. CASE t = S /\ i = Len(q) + 1
      <4>1. srv'[t].out[i] = l
        BY <1>3, <1>6, <3>2, AddLine
      <4> QED
        <5>1. srv[S].next \in Nat /\ srv'[t].next = srv[S].next
          BY <1>1, <1>3, <3>2, LineIds
        <5> QED
          BY <1>5, <4>1, <5>1
    <3>3. CASE t = S /\ i # Len(q) + 1
      <4>1. i \in DOMAIN q /\ srv'[t].out[i] = q[i]
        BY <1>3, <1>6, <2>1, <3>3, AddLine
      <4> QED
        BY <1>3, <1>7, <3>3, <4>1
    <3> QED
      BY <3>1, <3>2, <3>3
  <2> QED
    BY <1>3, <1>4, <2>1 DEF Safe, Ids, Busy, Waiting
<1>10. ran[call.n] < call.attempt /\ ran[call.n] \in Nat /\ call.attempt \in {1, 2}
  BY <1>1, <1>5 DEF Safe, Attempts, Busy, Waiting
<1>11. ran'[call.n] = ran[call.n] + 1 /\ \A n \in Calls : n # call.n => ran'[n] = ran[n]
  BY <1>4, <1>5
<1>12. Answers'
  <2> SUFFICES ASSUME pc = "wait" PROVE Answers'
    BY <1>4 DEF Answers
  <2>1. \A i \in DOMAIN q : q[i].id # call.req
    BY <1>1 DEF Safe, Answers
  <2>0. PICK k \in Nat : k = Len(q) + 1
    BY <1>6
  <2>2. First(S, k)'
    <3>1. k \in DOMAIN srv'[S].out /\ srv'[S].out[k] = l
      BY <1>3, <1>6, <2>0, AddLine
    <3>2. \A j \in 1..(k - 1) : srv'[S].out[j].id # call.req
      BY <1>3, <1>6, <2>0, <2>1, AddLine
    <3> QED
      BY <1>4, <3>1, <3>2 DEF First
  <2>3. ASSUME NEW i \in Nat, First(S, i)' PROVE srv'[S].out[i] = l
    <3>1. i \in DOMAIN Append(q, l) /\ Append(q, l)[i].id = call.req
      BY <1>3, <1>4, <2>3 DEF First
    <3>2. i = Len(q) + 1
      BY <1>6, <2>1, <3>1, AddLine
    <3> QED
      BY <1>3, <1>6, <3>2, AddLine
  <2>4. \A i \in Nat : First(S, i)' => srv'[S].out[i].call = call.n /\ ran'[call.n] > 0
    BY <1>10, <1>11, <2>3
  <2>5. \E i \in Nat : First(S, i)'
    BY <2>2
  <2>6. srv'[S].in = <<>>
    BY <1>3
  <2> QED
    BY <1>4, <2>4, <2>5, <2>6 DEF Answers
<1>13. Attempts'
  <2>1. \A n \in Calls : ran'[n] <= 2
    BY <1>10, <1>11 DEF Safe, Attempts
  <2>2. \A n \in Calls : n > call.n => ran'[n] = 0
    BY <1>5, <1>11 DEF Safe, Attempts, Calls
  <2> QED
    BY <1>1, <1>3, <1>4, <1>10, <1>11, <2>1, <2>2 DEF Attempts, Busy, Waiting
<1>14. Pooled'
  BY <1>1, <1>3, <1>4 DEF Safe, Pooled, Running, Alive
<1>15. AnswerIsOwn'
  <2>1. result.ok => result.n \in Calls /\ ran[result.n] > 0
    BY DEF Safe, Ids, AnswerIsOwn
  <2> QED
    BY <1>4, <1>10, <1>11, <2>1 DEF Safe, AnswerIsOwn
<1> QED
  BY <1>8, <1>9, <1>12, <1>13, <1>14, <1>15 DEF Safe

\* A second answer comes after the first, so it is never the one that is taken.
LEMMA EchoSafe ==
  ASSUME TypeOK, Safe, NEW s \in Servers, NEW id, Echo(s, id)
  PROVE  Safe'
<1> USE DEF TypeOK
<1> DEFINE l == [id |-> id, call |-> 0, ok |-> TRUE]
           q == srv[s].out
<1>1. /\ srv[s].next \in Nat /\ srv[s].alive /\ q \in Seq(Line)
      /\ id = 0 \/ (srv[s].next > 2 /\ srv[s].in = <<>> /\ id = srv[s].next - 1)
  BY LineIds DEF Echo, Alive
<1>2. l \in Line
  <2>1. id \in Nat
    BY <1>1
  <2> QED
    BY <2>1 DEF Line
<1>3. /\ srv'[s].in = srv[s].in /\ srv'[s].out = Append(q, l)
      /\ srv'[s].kin = srv[s].kin
      /\ srv'[s].next = srv[s].next /\ srv'[s].alive = srv[s].alive
      /\ \A t \in Servers : t # s => srv'[t] = srv[t]
      /\ UNCHANGED <<pc, call, pool, result, ran, crashes>> /\ S' = S
  BY <1>1 DEF Echo, S, Processes
<1>3a. /\ \A i \in Nat : i \in DOMAIN srv'[s].out =>
             i = Len(q) + 1 \/ (i \in DOMAIN q /\ srv'[s].out[i] = q[i])
       /\ \A i \in DOMAIN q : i \in DOMAIN srv'[s].out /\ srv'[s].out[i] = q[i]
  BY <1>1, <1>2, <1>3, AddLine
<1>4. Pending'
  BY <1>1, <1>3 DEF Safe, Pending, Waiting, Alive
<1>5. Ids'
  <2>1. ASSUME NEW t \in Servers, NEW i \in Nat, i \in DOMAIN srv'[t].out
        PROVE  srv'[t].out[i].id < srv'[t].next
    <3>1. CASE t # s
      BY <1>3, <2>1, <3>1 DEF Safe, Ids
    <3>2. CASE t = s /\ i = Len(q) + 1
      <4>1. srv'[t].out[i] = l
        BY <1>1, <1>2, <1>3, <3>2, AddLine
      <4>2. srv'[t].next = srv[s].next /\ srv[s].next # 0
        BY <1>3, <3>2 DEF Safe, Ids
      <4>3. id < srv[s].next
        BY <1>1, <4>2
      <4> QED
        BY <4>1, <4>2, <4>3
    <3>3. CASE t = s /\ i # Len(q) + 1
      <4>1. i \in DOMAIN q /\ srv'[t].out[i] = q[i]
        BY <1>3a, <2>1, <3>3
      <4> QED
        BY <1>3, <3>3, <4>1, LineIds
    <3> QED
      BY <3>1, <3>2, <3>3
  <2>2. (Busy => call.n \in Calls) /\ (result.ok => result.n \in Calls)
    BY DEF Safe, Ids
  <2>3. \A t \in Servers : srv'[t].next = srv[t].next /\ srv'[t].in = srv[t].in
    BY <1>3
  <2>4. pc = "wait" \/ srv'[S].in # <<>> => call.req = srv'[S].next - 1 /\ call.req # 0
    BY <2>3 DEF Safe, Ids, S
  <2>5. \A t \in Servers : srv'[t].next # 0
    BY <2>3 DEF Safe, Ids
  <2> QED
    BY <1>3, <2>1, <2>2, <2>4, <2>5 DEF Ids, Busy
<1>6. Answers'
  <2>1. CASE s # S
    <3>1. srv'[S] = srv[S]
      BY <1>3, <2>1 DEF S
    <3> QED
      BY <1>3, <3>1 DEF Safe, Answers, First, Alive
  <2>2. CASE s = S /\ pc = "wait"
    <3>1. id = call.req => \E i \in Nat : First(S, i)
      <4>1. call.req # 0
        BY <2>2 DEF Safe, Ids
      <4>2. id = call.req => srv[S].in = <<>>
        BY <1>1, <2>2, <4>1
      <4> QED
        BY <1>1, <2>2, <4>2 DEF Safe, Answers, Alive
    <3>2. \A i \in Nat : First(S, i) => /\ i \in DOMAIN q /\ q[i].id = call.req /\ i \in 1..Len(q)
                                       /\ \A j \in 1..(i - 1) : q[j].id # call.req
      BY <1>1, <2>2 DEF First
    <3>3. \A j \in 1..Len(q) : srv'[S].out[j] = q[j]
      BY <1>1, <1>3a, <2>2
    <3>4. \A j \in Nat : j \in DOMAIN srv'[S].out => j \in 1..Len(q) \/ j = Len(q) + 1
      BY <1>1, <1>3a, <2>2
    <3>5. ASSUME NEW i \in Nat, First(S, i) PROVE First(S, i)'
      <4>0. /\ i \in DOMAIN q /\ q[i].id = call.req /\ i \in 1..Len(q)
            /\ \A j \in 1..(i - 1) : q[j].id # call.req
        BY <3>2, <3>5
      <4>1. i \in DOMAIN srv'[S].out
        BY <1>3a, <2>2, <4>0
      <4>2. \A j \in 1..(i - 1) : j \in 1..Len(q)
        BY <1>1, <4>0
      <4>3. \A j \in 1..(i - 1) : srv'[S].out[j].id # call.req
        BY <3>3, <4>0, <4>2
      <4> QED
        BY <1>3, <3>3, <4>0, <4>1, <4>3 DEF First
    <3>6. ASSUME NEW j \in Nat, First(S, j)' PROVE First(S, j) /\ srv'[S].out[j] = q[j]
      <4>1. /\ j \in DOMAIN srv'[S].out /\ srv'[S].out[j].id = call.req
            /\ \A k \in 1..(j - 1) : srv'[S].out[k].id # call.req
        BY <1>3, <3>6 DEF First
      <4>2. j # Len(q) + 1
        <5> SUFFICES ASSUME j = Len(q) + 1 PROVE FALSE
          OBVIOUS
        <5>1. srv'[S].out[j] = l
          BY <1>1, <1>2, <1>3, <2>2, AddLine
        <5>2. PICK i \in Nat : First(S, i)
          BY <3>1, <4>1, <5>1
        <5>3. q[i].id = call.req /\ i \in 1..Len(q)
          BY <3>2, <5>2
        <5>4. i \in 1..(j - 1)
          BY <1>1, <5>3
        <5> QED
          BY <3>3, <4>1, <5>3, <5>4
      <4>3. j \in 1..Len(q) /\ j \in DOMAIN q
        BY <1>1, <3>4, <4>1, <4>2
      <4>4. \A k \in 1..(j - 1) : k \in 1..Len(q)
        BY <1>1, <4>3
      <4>5. \A k \in 1..(j - 1) : q[k].id # call.req
        BY <3>3, <4>1, <4>4
      <4> QED
        BY <2>2, <3>3, <4>1, <4>3, <4>5 DEF First
    <3>7. \A j \in Nat : First(S, j) => q[j].call = call.n /\ ran[call.n] > 0
      BY <2>2 DEF Safe, Answers
    <3>8. ASSUME srv'[S].in # <<>>
          PROVE  \A i \in DOMAIN srv'[S].out : srv'[S].out[i].id # call.req
      <4>1. srv[S].in # <<>>
        BY <1>3, <2>2, <3>8
      <4>2. \A i \in DOMAIN q : q[i].id # call.req
        BY <2>2, <4>1 DEF Safe, Answers
      <4>3. \A i \in Nat : ~First(S, i)
        BY <3>2, <4>2
      <4>4. id # call.req
        BY <3>1, <4>3
      <4>5. srv'[S].out[Len(q) + 1] = l
        BY <1>1, <1>2, <1>3, <2>2, AddLine
      <4>6. \A i \in DOMAIN srv'[S].out : i \in Nat
        <5>1. Append(q, l) \in Seq(Line)
          BY <1>1, <1>2, AddLine
        <5>2. \A i \in DOMAIN Append(q, l) : i \in Nat
          BY <5>1
        <5> QED
          BY <1>3, <2>2, <5>2
      <4>7. ASSUME NEW i \in DOMAIN srv'[S].out PROVE srv'[S].out[i].id # call.req
        <5>1. i \in 1..Len(q) \/ i = Len(q) + 1
          BY <3>4, <4>6, <4>7
        <5>2. CASE i \in 1..Len(q)
          <6>1. i \in DOMAIN q /\ srv'[S].out[i] = q[i]
            BY <1>1, <3>3, <5>2
          <6> QED
            BY <4>2, <6>1
        <5>3. CASE i = Len(q) + 1
          BY <4>4, <4>5, <5>3
        <5> QED
          BY <5>1, <5>2, <5>3
      <4> QED
        BY <4>7
    <3>9. srv'[S].alive /\ srv'[S].in = <<>> => \E i \in Nat : First(S, i)'
      <4>1. srv'[S].in = srv[S].in
        BY <1>3, <2>2
      <4>2. srv[S].in = <<>> => \E i \in Nat : First(S, i)
        BY <1>1, <2>2 DEF Safe, Answers, Alive
      <4> QED
        BY <3>5, <4>1, <4>2
    <3> QED
      BY <1>3, <3>6, <3>7, <3>8, <3>9 DEF Answers, Alive
  <2>3. CASE pc # "wait"
    BY <1>3, <2>3 DEF Answers
  <2> QED
    BY <2>1, <2>2, <2>3
<1>7. Attempts'
  <2>1. srv'[S].in = srv[S].in
    BY <1>1, <1>3 DEF S
  <2> QED
    BY <1>3, <2>1 DEF Safe, Attempts, Busy, Waiting
<1>8. Pooled'
  BY <1>1, <1>3 DEF Safe, Pooled, Running, Alive
<1>9. AnswerIsOwn'
  BY <1>3 DEF Safe, AnswerIsOwn
<1> QED
  BY <1>4, <1>5, <1>6, <1>7, <1>8, <1>9 DEF Safe

LEMMA ExitSafe ==
  ASSUME TypeOK, Safe, NEW s \in Servers, Exit(s)
  PROVE  Safe'
<1> USE DEF TypeOK
<1>1. /\ srv'[s].in = <<>> /\ srv'[s].out = srv[s].out
      /\ srv'[s].next = srv[s].next /\ ~srv'[s].alive /\ ~srv'[s].kin
      /\ \A t \in Servers : t # s => srv'[t] = srv[t]
      /\ UNCHANGED <<pc, call, pool, result, ran>> /\ S' = S
  BY DEF Exit, Process, S
<1>2. Pending'
  BY <1>1 DEF Safe, Pending, Waiting, Alive
<1>3. Ids'
  <2>1. ASSUME NEW t \in Servers PROVE srv'[t].out = srv[t].out /\ srv'[t].next = srv[t].next
    BY <1>1
  <2> QED
    BY <1>1, <2>1 DEF Safe, Ids, Busy, Waiting, S
<1>4. Answers'
  <2>1. CASE s # S
    BY <1>1, <2>1 DEF Safe, Answers, First, Alive, S
  <2>2. CASE s = S
    BY <1>1, <2>2 DEF Safe, Answers, First, Alive
  <2> QED
    BY <2>1, <2>2
<1>5. Attempts'
  <2>1. srv'[S].in # <<>> => srv[S].in # <<>>
    BY <1>1 DEF S
  <2> QED
    BY <1>1, <2>1 DEF Safe, Attempts, Busy, Waiting
<1>6. Pooled'
  BY <1>1 DEF Safe, Pooled, Running, Alive
<1>7. AnswerIsOwn'
  BY <1>1 DEF Safe, AnswerIsOwn
<1> QED
  BY <1>2, <1>3, <1>4, <1>5, <1>6, <1>7 DEF Safe

-----------------------------------------------------------------------------
\* The invariant holds at first and every step keeps it.
LEMMA Initially == Init => IInv
  BY InitType, InitSafe DEF IInv, Safe

LEMMA Inductive == IInv /\ [Next]_vars => IInv'
<1> SUFFICES ASSUME TypeOK, Safe, [Next]_vars PROVE IInv'
  BY DEF IInv, Safe
<1>1. TypeOK'
  BY TypeInductive DEF Safe, Ids
<1>2. Safe'
  <2>1. CASE Manager
    BY <2>1, ReuseSafe, LaunchSafe, LaunchFailsSafe, SendSafe, BlockSafe, ReceiveSafe,
       SkipLineSafe, FailSafe, CloseSafe DEF Manager, Send
  <2>2. CASE External
    BY <2>2, EchoSafe, ExitSafe, ServeSafe, SendSafe, FailSafe DEF External, Drain
  <2>3. CASE CloseAll
    BY <2>3, CloseAllSafe
  <2>4. CASE \E s \in Servers, op \in Ops : Begin(s, op)
    BY <2>4, BeginSafe
  <2>5. CASE UNCHANGED vars
    BY <2>5 DEF vars, Safe, Pending, Ids, First, Answers, Attempts, Pooled, AnswerIsOwn, Busy,
       Waiting, Alive, Running, S
  <2> QED
    BY <2>1, <2>2, <2>3, <2>4, <2>5 DEF Next
<1> QED
  BY <1>1, <1>2 DEF IInv, Safe

LEMMA Invariant == Spec => []IInv
<1>1. Init => IInv
  BY Initially
<1>2. IInv /\ [Next]_vars => IInv'
  BY Inductive
<1> QED
  BY <1>1, <1>2, PTL DEF Spec

\* Every variable has its type: the requests and lines in the pipes included.
THEOREM TypeCorrect == Spec => []TypeOK
<1>1. IInv => TypeOK
  BY DEF IInv
<1> QED
  BY <1>1, Invariant, PTL

\* Call_tool returns as a result only what the server answered to that very call, and
\* a call that returns a result has run.
THEOREM AnswersAreOwn == Spec => []AnswerIsOwn
<1>1. IInv => AnswerIsOwn
  BY DEF IInv
<1> QED
  BY <1>1, Invariant, PTL

\* The second attempt of call_tool is the last: no request runs more than twice.
THEOREM RunsBounded == Spec => []RunsAtMostTwice
<1>1. IInv => RunsAtMostTwice
  BY DEF IInv, Attempts, RunsAtMostTwice
<1> QED
  BY <1>1, Invariant, PTL

\* Between calls every leader that runs, and every helper whose leader has not exited by
\* itself, is of a client in the pool; after close_all_sessions there is none of either.
THEOREM NothingLeaked == Spec => []NoneLeaked
<1>1. IInv => NoneLeaked
  BY DEF IInv, Pooled, NoneLeaked
<1> QED
  BY <1>1, Invariant, PTL

\* A request of a call that has returned is never run: its client was closed first.
THEOREM NothingLate == Spec => NothingRunsLater
<1>1. IInv /\ [Next]_vars =>
        [\A n \in Calls : ran'[n] # ran[n] => call.n = n /\ pc \in {"wait", "closing"}]_vars
  <2> SUFFICES ASSUME IInv, Next, NEW n \in Calls, ran'[n] # ran[n]
               PROVE  call.n = n /\ pc \in {"wait", "closing"}
    OBVIOUS
  <2>1. ran' # ran
    OBVIOUS
  <2>2. PICK s \in Servers, ok \in BOOLEAN : Serve(s, ok)
    BY <2>1 DEF Next, Manager, External, Begin, Reuse, Launch, LaunchFails, Return, Send,
       Drain, Refuse, Block, Sent, Receive, SkipLine, Fail, Close, Closed, CloseAll, Echo, Exit
  <2>3. Waiting /\ Head(srv[s].in).call = call.n
    BY <2>2 DEF IInv, Pending, Serve
  <2>4. ran' = [ran EXCEPT ![call.n] = @ + 1]
    BY <2>2, <2>3 DEF Serve
  <2> QED
    BY <2>3, <2>4 DEF IInv, TypeOK, Waiting
<1> QED
  BY <1>1, Invariant, PTL DEF Spec, NothingRunsLater
=============================================================================
