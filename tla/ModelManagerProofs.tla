------------------------ MODULE ModelManagerProofs ------------------------
(***************************************************************************)
(* Proofs about ModelManager and Routing for any set of clients, any       *)
(* backlog, any rankings of models and any budget.                         *)
(***************************************************************************)
EXTENDS Routing, TLAPS

USE ModelManagerAssumption

Req == [from : Clients \cup {Nobody}, model : Models]

LEMMA InitType == Init => TypeOK
  BY DEF Init, TypeOK, Launched, Models

\* The queue without its first request.
LEMMA QueueTail ==
  ASSUME TypeOK, queue # <<>>
  PROVE  /\ Request \in Req /\ Tail(queue) \in Seq(Req)
         /\ Len(Tail(queue)) = Len(queue) - 1
         /\ \A i \in DOMAIN Tail(queue) : i + 1 \in DOMAIN queue /\ Tail(queue)[i] = queue[i + 1]
         /\ 1 \in DOMAIN queue /\ Request = queue[1]
<1> DEFINE R == Req
<1>1. queue \in Seq(R)
  BY DEF TypeOK, Req
<1> HIDE DEF R
<1>2. /\ Head(queue) \in R /\ Tail(queue) \in Seq(R)
      /\ Len(Tail(queue)) = Len(queue) - 1
      /\ \A i \in DOMAIN Tail(queue) : i + 1 \in DOMAIN queue /\ Tail(queue)[i] = queue[i + 1]
      /\ 1 \in DOMAIN queue /\ Head(queue) = queue[1]
  BY <1>1
<1> QED
  BY <1>2 DEF R, Request

\* A request either fails at once or is the last one the control port holds.
LEMMA PostTypes ==
  ASSUME TypeOK, NEW c \in Clients, NEW m \in Models, Post(c, m)
  PROVE  /\ queue' \in Seq(Req) /\ Len(queue') <= Backlog
         /\ reply' \in [Clients -> {"none", "ok", "failed"}]
<1>1. CASE mgr.for = Boot \/ Len(queue) = Backlog
  BY <1>1 DEF Post, TypeOK, Req
<1>2. CASE ~(mgr.for = Boot \/ Len(queue) = Backlog)
  <2>1. [from |-> c, model |-> m] \in Req
    BY DEF Req
  <2>2. queue' = Append(queue, [from |-> c, model |-> m]) /\ reply' = [reply EXCEPT ![c] = "none"]
    BY <1>2 DEF Post
  <2> QED
    BY <1>2, <2>1, <2>2 DEF TypeOK, Req
<1> QED
  BY <1>1, <1>2

LEMMA HangUpTypes ==
  ASSUME TypeOK, NEW c \in Clients, HangUp(c)
  PROVE  /\ queue' \in Seq(Req) /\ Len(queue') = Len(queue)
         /\ mgr' \in [model : Models \cup {NoModel}, for : Clients \cup {Nobody, Boot}]
<1>1. mgr' \in [model : Models \cup {NoModel}, for : Clients \cup {Nobody, Boot}]
  BY DEF HangUp, TypeOK
<1>2. \A i \in DOMAIN queue : queue[i] \in Req /\ [queue[i] EXCEPT !.from = Nobody] \in Req
  <2>1. \A i \in DOMAIN queue : queue[i] \in Req
    <3>1. queue \in Seq(Req)
      BY DEF TypeOK, Req
    <3> QED
      BY <3>1
  <2>2. \A q \in Req : [q EXCEPT !.from = Nobody] \in Req
    BY DEF Req
  <2> QED
    BY <2>1, <2>2
<1>3. queue' = [i \in 1..Len(queue) |-> IF queue[i].from = c
                                        THEN [queue[i] EXCEPT !.from = Nobody] ELSE queue[i]]
  BY DEF HangUp, TypeOK
<1>4. \A i \in 1..Len(queue) : queue'[i] \in Req
  BY <1>2, <1>3 DEF TypeOK
<1>5. Len(queue) \in Nat
  BY DEF TypeOK
<1> QED
  BY <1>1, <1>3, <1>4, <1>5

LEMMA AnswerTypes ==
  ASSUME TypeOK, NEW c, NEW r \in {"none", "ok", "failed"}, Answer(c, r)
  PROVE  reply' \in [Clients -> {"none", "ok", "failed"}]
  BY DEF Answer, TypeOK

LEMMA NextType == TypeOK /\ [Next]_vars => TypeOK'
<1> SUFFICES ASSUME TypeOK, [Next]_vars PROVE TypeOK'
  OBVIOUS
<1>a. Idle \in [model : Models \cup {NoModel}, for : Clients \cup {Nobody, Boot}]
  BY DEF Idle
<1>1. CASE Load \/ Die
  BY <1>1 DEF Load, Die, TypeOK
<1>2. CASE AlreadyServing
  <2>1. reply' \in [Clients -> {"none", "ok", "failed"}]
    BY <1>2, AnswerTypes DEF AlreadyServing
  <2> QED
    BY <1>2, <2>1, QueueTail DEF AlreadyServing, TakeRequest, TypeOK, Req
<1>3. CASE Launch
  <2>1. Request \in Req /\ Tail(queue) \in Seq(Req) /\ Len(Tail(queue)) = Len(queue) - 1
    BY <1>3, QueueTail DEF Launch, TakeRequest
  <2> QED
    BY <1>3, <2>1 DEF Launch, Launched, TakeRequest, TypeOK, Req
<1>4. CASE LoadReady
  <2>1. reply' \in [Clients -> {"none", "ok", "failed"}]
    BY <1>4, AnswerTypes DEF LoadReady
  <2> QED
    BY <1>4, <2>1, <1>a DEF LoadReady, TypeOK
<1>5. CASE LoadExited \/ LoadLate
  <2>1. reply' \in [Clients -> {"none", "ok", "failed"}]
    BY <1>5, AnswerTypes DEF LoadExited, LoadLate
  <2> QED
    BY <1>5, <2>1, <1>a DEF LoadExited, LoadLate, TypeOK
<1>6. CASE Restart
  <2>1. queue' = <<>> /\ queue' \in Seq(Req) /\ Len(queue') = 0
    BY <1>6 DEF Restart
  <2>2. reply' \in [Clients -> {"none", "ok", "failed"}]
    BY <1>6 DEF Restart, TypeOK
  <2> QED
    BY <1>6, <2>1, <2>2 DEF Restart, Launched, TypeOK, Req, Models
<1>7. ASSUME NEW c \in Clients, Escalate(c) \/ RetryEnds(c) PROVE TypeOK'
  <2>1. PICK m \in Models : Post(c, m)
    BY <1>7 DEF Escalate, RetryEnds, Models
  <2> QED
    BY <1>7, <2>1, PostTypes DEF Escalate, RetryEnds, Goto, TypeOK, Req
<1>8. ASSUME NEW c \in Clients, Swapped(c) \/ Restored(c) PROVE TypeOK'
  BY <1>8 DEF Swapped, Restored, Goto, TypeOK
<1>9. ASSUME NEW c \in Clients, GiveUp(c) \/ Killed(c) PROVE TypeOK'
  BY <1>9, HangUpTypes DEF GiveUp, Killed, Goto, TypeOK, Req
<1>10. CASE UNCHANGED vars
  BY <1>10 DEF vars, TypeOK
<1> QED
  BY <1>1, <1>2, <1>3, <1>4, <1>5, <1>6, <1>7, <1>8, <1>9, <1>10
     DEF Next, Manager, ClientStep

\* The manager and its clients stay well typed, and the backlog within its bound.
THEOREM TypeCorrect == Spec => []TypeOK
  BY InitType, NextType, PTL DEF Spec
-----------------------------------------------------------------------------
\* What the manager believes is what is served, as long as no load outlives its
\* patience: while it waits, the server is the one it launched; otherwise a server
\* that is up is of the model it last saw ready.
Tracked ==
    "late" \notin faults =>
        /\ ~MgrIdle => server.model = mgr.model
        /\ MgrIdle => server.st # "loading"
        /\ MgrIdle /\ server.st = "ready" => server.model = current

\* A client waits for the one request it has posted, and there is no other of its.
Waits(at, got, c, m) ==
    /\ at[c] \in {"swapping", "restoring"} /\ got[c] = "none"
    /\ m = IF at[c] = "swapping" THEN Fallback ELSE Primary
Outstanding ==
    /\ \A i \in DOMAIN queue :
         queue[i].from \in Clients => Waits(client, reply, queue[i].from, queue[i].model)
    /\ \A i, j \in DOMAIN queue :
         queue[i].from \in Clients /\ queue[i].from = queue[j].from => i = j
    /\ mgr.for \in Clients =>
         /\ Waits(client, reply, mgr.for, mgr.model)
         /\ \A i \in DOMAIN queue : queue[i].from # mgr.for
    /\ MgrIdle => mgr.for = Nobody

LEMMA TrackedInductive ==
  ASSUME TypeOK, Tracked, [Next]_vars
  PROVE  Tracked'
<1> USE DEF MgrIdle
<1>1. CASE Load \/ Die
  BY <1>1 DEF Load, Die, Tracked, TypeOK
<1>2. CASE AlreadyServing
  BY <1>2 DEF AlreadyServing, Tracked
<1>3. CASE Launch
  <2>1. Request \in Req
    BY <1>3, QueueTail DEF Launch, TakeRequest
  <2> QED
    BY <1>3, <2>1 DEF Launch, Launched, Tracked, Req
<1>4. CASE LoadReady
  BY <1>4 DEF LoadReady, Idle, Tracked
<1>5. CASE LoadExited
  BY <1>5 DEF LoadExited, Idle, Tracked
<1>6. CASE LoadLate
  BY <1>6 DEF LoadLate, Tracked
<1>7. CASE Restart
  BY <1>7 DEF Restart, Launched, Tracked, Models
<1>8. ASSUME NEW c \in Clients, Escalate(c) \/ ClientStep(c) PROVE Tracked'
  BY <1>8 DEF Escalate, ClientStep, Swapped, RetryEnds, Restored, Tracked
<1>9. ASSUME NEW c \in Clients, GiveUp(c) \/ Killed(c) PROVE Tracked'
  <2>1. mgr'.model = mgr.model
    BY <1>9 DEF GiveUp, Killed, HangUp, TypeOK
  <2> QED
    BY <1>9, <2>1 DEF GiveUp, Killed, Tracked
<1>10. CASE UNCHANGED vars
  BY <1>10 DEF vars, Tracked
<1> QED
  BY <1>1, <1>2, <1>3, <1>4, <1>5, <1>6, <1>7, <1>8, <1>9, <1>10 DEF Next, Manager

\* A client's new request is the only one it has.
LEMMA PostOutstanding ==
  ASSUME TypeOK, Outstanding, NEW c \in Clients, client[c] \in {"idle", "retrying"},
         NEW s \in {"swapping", "restoring"}, Goto(c, s),
         Post(c, IF s = "swapping" THEN Fallback ELSE Primary), UNCHANGED mgr
  PROVE  Outstanding'
<1>1. /\ \A i \in DOMAIN queue : queue[i].from # c
      /\ mgr.for # c
  BY DEF Outstanding, Waits
<1>2. \A d \in Clients \ {c} : client'[d] = client[d] /\ reply'[d] = reply[d]
  BY DEF Goto, Post, TypeOK
<1>3. ASSUME NEW d \in Clients \ {c}, NEW m, Waits(client, reply, d, m) PROVE Waits(client', reply', d, m)
  BY <1>2, <1>3 DEF Waits
<1>4. CASE mgr.for = Boot \/ Len(queue) = Backlog
  <2>1. UNCHANGED <<queue, mgr>>
    BY <1>4 DEF Post
  <2> QED
    BY <1>1, <1>3, <2>1 DEF Outstanding, MgrIdle
<1>5. CASE ~(mgr.for = Boot \/ Len(queue) = Backlog)
  <2> DEFINE m == IF s = "swapping" THEN Fallback ELSE Primary
             new == [from |-> c, model |-> m]
             n == Len(queue) + 1
  <2>1. queue' = Append(queue, new) /\ reply'[c] = "none" /\ client'[c] = s
    BY <1>5 DEF Post, Goto, TypeOK
  <2>2. /\ DOMAIN queue' = (DOMAIN queue) \cup {n} /\ n \notin DOMAIN queue
        /\ queue'[n] = new
        /\ \A i \in DOMAIN queue : queue'[i] = queue[i]
    <3> HIDE DEF new
    <3>1. queue \in Seq(Req)
      BY DEF TypeOK, Req
    <3> QED
      BY <2>1, <3>1
  <2>3. Waits(client', reply', c, m)
    BY <2>1 DEF Waits
  <2>4. new.from = c /\ new.model = m
    OBVIOUS
  <2> HIDE DEF new, n, m
  <2>5. \A i \in DOMAIN queue' : queue'[i].from \in Clients => Waits(client', reply', queue'[i].from, queue'[i].model)
    BY <1>1, <1>3, <2>2, <2>3, <2>4 DEF Outstanding
  <2>6. \A i, j \in DOMAIN queue' :
          queue'[i].from \in Clients /\ queue'[i].from = queue'[j].from => i = j
    BY <1>1, <2>2, <2>4 DEF Outstanding
  <2>7. mgr.for \in Clients =>
          Waits(client', reply', mgr.for, mgr.model) /\ \A i \in DOMAIN queue' : queue'[i].from # mgr.for
    BY <1>1, <1>3, <2>2, <2>4 DEF Outstanding
  <2> QED
    BY <2>5, <2>6, <2>7 DEF Outstanding, MgrIdle
<1> QED
  BY <1>4, <1>5

\* A client that hangs up has no request left.
LEMMA HangUpOutstanding ==
  ASSUME TypeOK, Outstanding, NEW c \in Clients, HangUp(c),
         \A d \in Clients \ {c} : client'[d] = client[d] /\ reply'[d] = reply[d]
  PROVE  Outstanding'
<1>1. ASSUME NEW d \in Clients \ {c}, NEW m, Waits(client, reply, d, m) PROVE Waits(client', reply', d, m)
  BY <1>1 DEF Waits
<1>2. DOMAIN queue' = DOMAIN queue
  BY DEF HangUp
<1>3. ASSUME NEW i \in DOMAIN queue
      PROVE  /\ queue'[i].from \in Clients => queue'[i] = queue[i] /\ queue[i].from # c
             /\ queue[i].from # c => queue'[i] = queue[i]
             /\ queue'[i].from # c
  <2>1. queue[i] \in Req
    <3>1. queue \in Seq(Req)
      BY DEF TypeOK, Req
    <3> QED
      BY <1>3, <3>1
  <2> QED
    BY <1>3, <2>1 DEF HangUp, Req
<1>4. /\ mgr'.for \in Clients => mgr' = mgr /\ mgr.for # c
      /\ mgr'.model = mgr.model
      /\ mgr.for = Nobody => mgr' = mgr
      /\ mgr'.for # c
  BY DEF HangUp, TypeOK
<1>5. MgrIdle' => mgr'.for = Nobody
  BY <1>4 DEF Outstanding, MgrIdle
<1>6. mgr'.for \in Clients => /\ Waits(client', reply', mgr'.for, mgr'.model)
                              /\ \A i \in DOMAIN queue' : queue'[i].from # mgr'.for
  BY <1>1, <1>2, <1>3, <1>4 DEF Outstanding
<1>7. \A i \in DOMAIN queue' : queue'[i].from \in Clients => Waits(client', reply', queue'[i].from, queue'[i].model)
  BY <1>1, <1>2, <1>3 DEF Outstanding
<1>8. \A i, j \in DOMAIN queue' :
        queue'[i].from \in Clients /\ queue'[i].from = queue'[j].from => i = j
  BY <1>2, <1>3 DEF Outstanding
<1> QED
  BY <1>5, <1>6, <1>7, <1>8 DEF Outstanding

\* Answering the request being handled, or one at the head of the queue, leaves
\* every other client waiting as it was.
LEMMA AnswerOthers ==
  ASSUME TypeOK, NEW c, NEW r, Answer(c, r), UNCHANGED client,
         NEW d \in Clients, d # c, NEW m, Waits(client, reply, d, m)
  PROVE  Waits(client', reply', d, m)
  BY DEF Answer, Waits, TypeOK

LEMMA OutstandingInductive ==
  ASSUME TypeOK, Outstanding, [Next]_vars
  PROVE  Outstanding'
<1>t. queue \in Seq(Req)
  BY DEF TypeOK, Req
<1>r. \A i \in DOMAIN queue : queue[i] \in Req
  BY <1>t
<1>1. CASE Load \/ Die
  BY <1>1 DEF Load, Die, Outstanding, MgrIdle
<1>2. CASE AlreadyServing
  <2>1. /\ \A i \in DOMAIN queue' : i + 1 \in DOMAIN queue /\ queue'[i] = queue[i + 1]
        /\ 1 \in DOMAIN queue /\ Request = queue[1]
        /\ \A i \in DOMAIN queue' : i \in Nat \ {0}
    BY <1>2, QueueTail DEF AlreadyServing, TakeRequest, TypeOK
  <2>2. \A i \in DOMAIN queue' : queue'[i].from \in Clients => queue'[i].from # Request.from
    BY <2>1 DEF Outstanding
  <2>3. MgrIdle /\ mgr' = mgr /\ mgr.for = Nobody
    BY <1>2 DEF AlreadyServing, TakeRequest, Outstanding
  <2>4. \A i \in DOMAIN queue' :
          queue'[i].from \in Clients => Waits(client', reply', queue'[i].from, queue'[i].model)
    BY <1>2, <2>1, <2>2, AnswerOthers DEF AlreadyServing, Outstanding
  <2>5. \A i, j \in DOMAIN queue' :
          queue'[i].from \in Clients /\ queue'[i].from = queue'[j].from => i = j
    BY <2>1 DEF Outstanding
  <2> QED
    BY <2>3, <2>4, <2>5 DEF Outstanding
<1>3. CASE Launch
  <2>1. /\ \A i \in DOMAIN queue' : i + 1 \in DOMAIN queue /\ queue'[i] = queue[i + 1]
        /\ 1 \in DOMAIN queue /\ Request = queue[1] /\ Request \in Req
        /\ \A i \in DOMAIN queue' : i \in Nat \ {0}
    BY <1>3, QueueTail DEF Launch, TakeRequest, TypeOK
  <2>2. /\ mgr'.for = Request.from /\ mgr'.model = Request.model /\ ~MgrIdle'
        /\ UNCHANGED <<client, reply>>
    BY <1>3, <2>1 DEF Launch, MgrIdle, Req
  <2>3. \A i \in DOMAIN queue' : queue'[i].from \in Clients =>
          queue'[i].from # Request.from /\ Waits(client, reply, queue'[i].from, queue'[i].model)
    BY <2>1 DEF Outstanding
  <2>4. \A i, j \in DOMAIN queue' :
          queue'[i].from \in Clients /\ queue'[i].from = queue'[j].from => i = j
    BY <2>1 DEF Outstanding
  <2>5. Request.from \in Clients => Waits(client, reply, Request.from, Request.model)
    BY <2>1 DEF Outstanding
  <2> QED
    BY <2>2, <2>3, <2>4, <2>5 DEF Outstanding
<1>4. CASE LoadReady \/ LoadExited \/ LoadLate
  <2>1. PICK r \in {"ok", "failed"} : Answer(mgr.for, r)
    BY <1>4 DEF LoadReady, LoadExited, LoadLate
  <2>2. UNCHANGED <<queue, client>> /\ mgr' = Idle
    BY <1>4 DEF LoadReady, LoadExited, LoadLate
  <2>3. mgr'.for = Nobody /\ Nobody \notin Clients
    BY <2>2 DEF Idle
  <2>4. \A i \in DOMAIN queue : queue[i].from \in Clients =>
          Waits(client', reply', queue[i].from, queue[i].model)
    <3> SUFFICES ASSUME NEW i \in DOMAIN queue, queue[i].from \in Clients
                 PROVE  Waits(client', reply', queue[i].from, queue[i].model)
      OBVIOUS
    <3>1. queue[i].from # mgr.for /\ Waits(client, reply, queue[i].from, queue[i].model)
      BY DEF Outstanding
    <3> QED
      BY <2>1, <2>2, <3>1, AnswerOthers
  <2> QED
    BY <2>2, <2>3, <2>4 DEF Outstanding
<1>5. CASE Restart
  <2>1. queue' = <<>> /\ mgr'.for = Boot /\ mgr'.model = Default
    BY <1>5 DEF Restart
  <2>2. DOMAIN queue' = {} /\ ~MgrIdle'
    BY <2>1 DEF MgrIdle, Models
  <2> QED
    BY <2>1, <2>2 DEF Outstanding
<1>6. ASSUME NEW c \in Clients, Escalate(c) PROVE Outstanding'
  BY <1>6, PostOutstanding DEF Escalate
<1>7. ASSUME NEW c \in Clients, RetryEnds(c) PROVE Outstanding'
  BY <1>7, PostOutstanding DEF RetryEnds
<1>8. ASSUME NEW c \in Clients, Swapped(c) \/ Restored(c) PROVE Outstanding'
  <2>1. reply[c] # "none" /\ UNCHANGED <<queue, mgr, reply>>
        /\ \A d \in Clients \ {c} : client'[d] = client[d]
    BY <1>8 DEF Swapped, Restored, Goto, TypeOK
  <2>2. ASSUME NEW d \in Clients, NEW m, Waits(client, reply, d, m)
        PROVE  Waits(client', reply', d, m)
    BY <2>1, <2>2 DEF Waits
  <2> QED
    BY <2>1, <2>2 DEF Outstanding, MgrIdle
<1>9. ASSUME NEW c \in Clients, GiveUp(c) \/ Killed(c) PROVE Outstanding'
  <2>1. HangUp(c) /\ \A d \in Clients \ {c} : client'[d] = client[d] /\ reply'[d] = reply[d]
    BY <1>9 DEF GiveUp, Killed, Goto, TypeOK
  <2> QED
    BY <2>1, HangUpOutstanding
<1>10. CASE UNCHANGED vars
  BY <1>10 DEF vars, Outstanding, MgrIdle
<1> QED
  BY <1>1, <1>2, <1>3, <1>4, <1>5, <1>6, <1>7, <1>8, <1>9, <1>10
     DEF Next, Manager, ClientStep

\* Only the two places that answer "ok" can break honesty, and there the model
\* asked for is the one being served.
LEMMA HonestStep ==
  ASSUME TypeOK, Tracked, Outstanding, [Next]_vars, "late" \notin faults,
         NEW c \in Clients, reply[c] # "ok", reply'[c] = "ok"
  PROVE  Serving(Asked(c))
<1>1. CASE AlreadyServing
  <2>1. c = Request.from
    BY <1>1 DEF AlreadyServing, Answer, TypeOK
  <2>2. 1 \in DOMAIN queue /\ Request = queue[1]
    BY <1>1, QueueTail DEF AlreadyServing, TakeRequest
  <2>3. Request.model = Asked(c)
    BY <2>1, <2>2 DEF Outstanding, Waits, Asked
  <2>4. server.model = Request.model /\ server.st = "ready"
    BY <1>1 DEF AlreadyServing, TakeRequest, Tracked
  <2> QED
    BY <2>3, <2>4 DEF Serving, TypeOK
<1>2. CASE LoadReady
  <2>1. c = mgr.for
    BY <1>2 DEF LoadReady, Answer, TypeOK
  <2>2. mgr.model = Asked(c)
    BY <2>1 DEF Outstanding, Waits, Asked
  <2>3. server.model = mgr.model /\ server.st = "ready"
    BY <1>2 DEF LoadReady, Tracked
  <2> QED
    BY <2>2, <2>3 DEF Serving, TypeOK
<1>3. CASE Load \/ Die \/ Launch \/ UNCHANGED vars
  BY <1>3 DEF Load, Die, Launch, vars
<1>4. CASE LoadExited \/ LoadLate
  BY <1>4 DEF LoadExited, LoadLate, Answer, TypeOK
<1>5. CASE Restart
  BY <1>5 DEF Restart
<1>6. ASSUME NEW d \in Clients, Escalate(d) \/ RetryEnds(d) PROVE FALSE
  <2>1. PICK m : Post(d, m)
    BY <1>6 DEF Escalate, RetryEnds
  <2> QED
    BY <2>1 DEF Post, TypeOK
<1>7. ASSUME NEW d \in Clients, Swapped(d) \/ Restored(d) \/ GiveUp(d) \/ Killed(d) PROVE FALSE
  BY <1>7 DEF Swapped, Restored, GiveUp, Killed, TypeOK
<1> QED
  BY <1>1, <1>2, <1>3, <1>4, <1>5, <1>6, <1>7 DEF Next, Manager, ClientStep

\* Whatever is requested, abandoned, killed or restarted, and by however many
\* clients, an "ok" names the model that is served.
THEOREM RepliesAreHonest == Spec => ReplyIsHonest
<1>1. Init => Tracked /\ Outstanding
  <2> SUFFICES ASSUME Init PROVE Tracked /\ Outstanding
    OBVIOUS
  <2>1. queue = <<>> /\ DOMAIN queue = {} /\ mgr.for = Boot /\ mgr.model = Default
        /\ server.model = Default
    BY DEF Init, Launched
  <2> QED
    BY <2>1 DEF Tracked, Outstanding, MgrIdle, Models
<1>2. TypeOK /\ Tracked /\ Outstanding /\ [Next]_vars => Tracked' /\ Outstanding'
  BY TrackedInductive, OutstandingInductive
<1>3. TypeOK /\ Tracked /\ Outstanding /\ [Next]_vars =>
        [\A c \in Clients :
           "late" \notin faults /\ reply[c] # "ok" /\ reply'[c] = "ok" => Serving(Asked(c))]_vars
  BY HonestStep
<1> QED
  BY <1>1, <1>2, <1>3, InitType, NextType, PTL DEF Spec, ReplyIsHonest
-----------------------------------------------------------------------------
\* What is being served once every request has been: the model of the last one.
Last == IF queue # <<>> THEN queue[Len(queue)].model
        ELSE IF ~MgrIdle THEN mgr.model
        ELSE IF server.st = "ready" THEN server.model ELSE NoModel

\* An escalation whose `finally` is still to come.
Returning(c) == client[c] = "retrying" \/ (client[c] = "swapping" /\ reply[c] # "failed")

\* Where the last request is one for the fallback, an escalation is on its way that will ask for
\* the primary after it; a request that is refused meets a booting manager or a full backlog,
\* whose last request is of somebody else who waits.
Patient == faults \cap {"giveup", "late", "killed"} = {}
Kept ==
    /\ mgr.for = Boot => queue = <<>> /\ mgr.model = Default
    /\ Backlog = 0 => server.model = Default
    /\ Patient =>
         /\ \A i \in DOMAIN queue : queue[i].from \in Clients
         /\ Last = Fallback => \E c \in Clients : Returning(c)

IInv == TypeOK /\ Tracked /\ Outstanding /\ Kept

LEMMA InitIInv == ASSUME Default # Fallback PROVE Init => IInv
<1> SUFFICES ASSUME Init PROVE IInv
  OBVIOUS
<1>1. queue = <<>> /\ DOMAIN queue = {} /\ mgr.for = Boot /\ mgr.model = Default
      /\ server.model = Default /\ ~MgrIdle
  BY DEF Init, Launched, MgrIdle, Models
<1>2. Tracked /\ Outstanding
  BY <1>1 DEF Tracked, Outstanding
<1> QED
  BY <1>1, <1>2, InitType DEF IInv, Kept, Last

\* The last request of a non-empty queue is of a client that waits for it.
LEMMA LastWaits ==
  ASSUME TypeOK, Outstanding, Kept, Patient, queue # <<>>, Last = Fallback
  PROVE  /\ Len(queue) \in DOMAIN queue
         /\ queue[Len(queue)].from \in Clients
         /\ client[queue[Len(queue)].from] = "swapping" /\ reply[queue[Len(queue)].from] = "none"
<1>1. Len(queue) \in DOMAIN queue
  <2>1. queue \in Seq(Req)
    BY DEF TypeOK, Req
  <2> QED
    BY <2>1
<1> QED
  BY <1>1 DEF Kept, Outstanding, Waits, Last

\* Taking a request leaves the last one the last.
LEMMA TailLast ==
  ASSUME TypeOK, queue # <<>>
  PROVE  /\ Tail(queue) # <<>> => Tail(queue)[Len(Tail(queue))] = queue[Len(queue)]
         /\ Tail(queue) = <<>> => Request = queue[Len(queue)]
<1> DEFINE R == Req
           T == Tail(queue)
<1>1. queue \in Seq(R)
  BY DEF TypeOK, Req
<1>2. T \in Seq(R) /\ Len(T) = Len(queue) - 1 /\ Request = queue[1]
      /\ \A i \in DOMAIN T : T[i] = queue[i + 1]
  BY QueueTail
<1> HIDE DEF R, T
<1>3. Len(queue) \in Nat
  BY <1>1
<1>4. ASSUME T # <<>> PROVE T[Len(T)] = queue[Len(queue)]
  <2>1. Len(T) \in DOMAIN T
    BY <1>2, <1>4
  <2>2. T[Len(T)] = queue[Len(T) + 1]
    BY <1>2, <2>1
  <2>3. Len(T) + 1 = Len(queue)
    BY <1>2, <1>3
  <2> QED
    BY <2>2, <2>3
<1>5. ASSUME T = <<>> PROVE Request = queue[Len(queue)]
  <2>1. Len(T) = 0
    BY <1>5
  <2>2. Len(queue) = 1
    BY <1>2, <1>3, <2>1
  <2> QED
    BY <1>2, <2>2
<1> QED
  BY <1>4, <1>5 DEF T

LEMMA TakenKept ==
  ASSUME TypeOK, Kept, TakeRequest, Patient
  PROVE  \A i \in DOMAIN queue' : queue'[i].from \in Clients
  BY QueueTail DEF TakeRequest, Kept

LEMMA PostKept ==
  ASSUME TypeOK, Tracked, Outstanding, Kept, Default # Fallback, Patient,
         NEW c \in Clients, NEW m \in Models, Post(c, m), UNCHANGED <<server, mgr>>
  PROVE  /\ \A i \in DOMAIN queue' : queue'[i].from \in Clients
         /\ mgr.for = Boot => queue' = queue
         /\ \/ queue' = queue /\ Last' = Last /\ reply'[c] = "failed"
               /\ (mgr.for = Boot \/ Len(queue) = Backlog)
            \/ Last' = m /\ reply'[c] = "none"
<1>1. queue \in Seq(Req)
  BY DEF TypeOK, Req
<1>2. CASE mgr.for = Boot \/ Len(queue) = Backlog
  <2>1. queue' = queue /\ reply'[c] = "failed"
    BY <1>2 DEF Post, TypeOK
  <2> QED
    BY <1>2, <2>1 DEF Last, Kept, MgrIdle
<1>3. CASE ~(mgr.for = Boot \/ Len(queue) = Backlog)
  <2> DEFINE new == [from |-> c, model |-> m]
  <2>1. queue' = Append(queue, new) /\ reply'[c] = "none"
    BY <1>3 DEF Post, TypeOK
  <2>2. new.from = c /\ new.model = m /\ new \in Req
    BY DEF Req
  <2> HIDE DEF new
  <2>3. /\ queue' # <<>> /\ queue'[Len(queue')] = new
        /\ \A i \in DOMAIN queue' : queue'[i] = new \/ (i \in DOMAIN queue /\ queue'[i] = queue[i])
    BY <1>1, <2>1, <2>2
  <2> QED
    BY <1>3, <2>1, <2>2, <2>3 DEF Last, Kept
<1> QED
  BY <1>2, <1>3

LEMMA KeptInductive ==
  ASSUME IInv, [Next]_vars, Default # Fallback
  PROVE  Kept'
<1> USE DEF IInv
<1>p. faults' = faults
  BY DEF Next, vars, Load, Die, Manager, AlreadyServing, Launch, LoadReady, LoadExited, LoadLate,
         Restart, Escalate, ClientStep, Swapped, RetryEnds, Restored, GiveUp, Killed
<1>1. CASE Load \/ Die
  <2>1. /\ UNCHANGED <<current, mgr, queue, client, reply>>
        /\ server'.model = server.model
        /\ server'.st = "ready" => server.st = "ready" \/ server.st = "loading"
    BY <1>1 DEF Load, Die, TypeOK
  <2>2. Patient => Last' \in {Last, NoModel}
    BY <2>1 DEF Last, MgrIdle, Tracked, Patient
  <2> QED
    BY <1>p, <2>1, <2>2 DEF Kept, Patient, Returning, Models
<1>2. CASE AlreadyServing
  <2>1. queue # <<>> /\ queue' = Tail(queue) /\ MgrIdle /\ mgr' = mgr /\ server' = server
        /\ client' = client /\ mgr.for = Nobody
    BY <1>2 DEF AlreadyServing, TakeRequest, Outstanding
  <2>2. Patient => Last' = Last
    BY <1>2, <2>1, TailLast DEF AlreadyServing, Last, MgrIdle, Tracked, Patient
  <2>3. \A c \in Clients : Returning(c) => Returning(c)'
    BY <1>2 DEF AlreadyServing, Answer, Returning, TypeOK
  <2>4. Patient => \A i \in DOMAIN queue' : queue'[i].from \in Clients
    BY <1>2, TakenKept DEF AlreadyServing
  <2> QED
    BY <1>p, <2>1, <2>2, <2>3, <2>4 DEF Kept, Patient
<1>3. CASE Launch
  <2>1. queue # <<>> /\ queue' = Tail(queue) /\ MgrIdle /\ Request \in Req
        /\ client' = client /\ reply' = reply
    BY <1>3, QueueTail DEF Launch, TakeRequest
  <2>2. mgr'.model = Request.model /\ mgr'.for = Request.from /\ ~MgrIdle' /\ mgr'.for # Boot
    BY <1>3, <2>1 DEF Launch, MgrIdle, Req
  <2>3. Patient => Last' = Last
    BY <2>1, <2>2, TailLast DEF Last
  <2>4. Patient => \A i \in DOMAIN queue' : queue'[i].from \in Clients
    BY <1>3, TakenKept DEF Launch
  <2>5. Backlog # 0
    <3>1. Len(queue) # 0
      BY <2>1, QueueTail DEF TypeOK
    <3> QED
      BY <3>1 DEF TypeOK
  <2> QED
    BY <1>p, <2>1, <2>2, <2>3, <2>4, <2>5 DEF Kept, Patient, Returning
<1>4. CASE LoadReady
  <2>1. UNCHANGED <<server, queue, client>> /\ ~MgrIdle /\ server.st = "ready"
        /\ mgr'.for # Boot /\ MgrIdle'
    BY <1>4 DEF LoadReady, Idle, MgrIdle
  <2>2. Patient => Last' = Last
    BY <2>1 DEF Last, Tracked, Patient
  <2>3. \A c \in Clients : Returning(c) => Returning(c)'
    BY <1>4 DEF LoadReady, Answer, Returning, TypeOK
  <2> QED
    BY <1>p, <2>1, <2>2, <2>3 DEF Kept, Patient
<1>5. CASE LoadExited \/ LoadLate
  <2>1. UNCHANGED <<server, queue, client>> /\ ~MgrIdle /\ mgr'.for # Boot /\ MgrIdle'
        /\ Answer(mgr.for, "failed")
    BY <1>5 DEF LoadExited, LoadLate, Idle, MgrIdle
  <2>2. Patient => server.st = "down"
    BY <1>5 DEF LoadExited, LoadLate, Patient
  <2>3. Patient /\ Last' = Fallback => queue # <<>> /\ Last = Fallback
    BY <2>1, <2>2 DEF Last, Models
  <2>4. Patient /\ Last' = Fallback => \E c \in Clients : Returning(c)'
    <3> SUFFICES ASSUME Patient, Last' = Fallback PROVE \E c \in Clients : Returning(c)'
      OBVIOUS
    <3> DEFINE d == queue[Len(queue)].from
    <3>1. d \in Clients /\ client[d] = "swapping" /\ reply[d] = "none" /\ Len(queue) \in DOMAIN queue
      BY <2>3, LastWaits
    <3>2. d # mgr.for
      BY <3>1 DEF Outstanding
    <3>3. reply'[d] = "none"
      BY <2>1, <3>1, <3>2 DEF Answer, TypeOK
    <3> QED
      BY <2>1, <3>1, <3>3 DEF Returning
  <2> QED
    BY <1>p, <2>1, <2>4 DEF Kept, Patient
<1>6. CASE Restart
  <2>1. queue' = <<>> /\ DOMAIN queue' = {} /\ mgr'.for = Boot /\ mgr'.model = Default
        /\ server'.model = Default
    BY <1>6 DEF Restart, Launched
  <2>2. ~MgrIdle'
    BY <2>1 DEF MgrIdle, Models
  <2> QED
    BY <2>1, <2>2 DEF Kept, Last
<1>7. ASSUME NEW c \in Clients, Escalate(c) PROVE Kept'
  <2>1. Post(c, Fallback) /\ Fallback \in Models /\ UNCHANGED <<server, mgr>>
        /\ client[c] = "idle" /\ client'[c] = "swapping"
    BY <1>7 DEF Escalate, Goto, TypeOK, Models
  <2>2. \A d \in Clients \ {c} : client'[d] = client[d] /\ reply'[d] = reply[d]
    BY <1>7 DEF Escalate, Goto, Post, TypeOK
  <2>3. \A d \in Clients : Returning(d) => d # c /\ Returning(d)'
    BY <2>1, <2>2 DEF Returning
  <2>4. Patient => \/ Last' = Last
                   \/ Returning(c)'
    <3>1. Patient => Last' = Last \/ reply'[c] = "none"
      BY <2>1, PostKept
    <3>2. reply'[c] = "none" => Returning(c)'
      BY <2>1 DEF Returning
    <3> QED
      BY <3>1, <3>2
  <2>5. Patient => \A i \in DOMAIN queue' : queue'[i].from \in Clients
    BY <2>1, PostKept
  <2>6. mgr.for = Boot => queue' = queue
    BY <2>1 DEF Post
  <2> QED
    BY <1>p, <2>1, <2>3, <2>4, <2>5, <2>6 DEF Kept, Patient
<1>8. ASSUME NEW c \in Clients, RetryEnds(c) PROVE Kept'
  <2>1. Post(c, Primary) /\ Primary \in Models /\ UNCHANGED <<server, mgr>>
        /\ client[c] = "retrying" /\ client'[c] = "restoring"
    BY <1>8 DEF RetryEnds, Goto, TypeOK, Models
  <2>2. \A d \in Clients \ {c} : client'[d] = client[d] /\ reply'[d] = reply[d]
    BY <1>8 DEF RetryEnds, Goto, Post, TypeOK
  <2>3. Patient /\ Last' = Fallback => queue' = queue /\ Last = Fallback
                                      /\ (mgr.for = Boot \/ Len(queue) = Backlog)
    BY <2>1, PostKept
  <2>4. Patient /\ Last' = Fallback => queue # <<>>
    <3> SUFFICES ASSUME Patient, Last' = Fallback, queue = <<>> PROVE FALSE
      OBVIOUS
    <3>1. Len(queue) = 0
      OBVIOUS
    <3>2. CASE mgr.for = Boot
      <4>1. mgr.model = Default /\ Default # NoModel
        BY <3>2 DEF Kept, Models
      <4>2. Last = Default
        BY <4>1 DEF Last, MgrIdle
      <4> QED
        BY <2>3, <4>2
    <3>3. CASE mgr.for # Boot
      <4>1. Backlog = 0
        BY <2>3, <3>1, <3>3
      <4>2. server.model = Default
        BY <4>1 DEF Kept
      <4>3. "late" \notin faults /\ Fallback # NoModel
        BY DEF Patient, Models
      <4>4. Last \in {Default, NoModel}
        BY <4>2, <4>3 DEF Last, Tracked
      <4> QED
        BY <2>3, <4>3, <4>4
    <3> QED
      BY <3>2, <3>3
  <2>5. Patient /\ Last' = Fallback => \E d \in Clients : Returning(d)'
    <3> SUFFICES ASSUME Patient, Last' = Fallback PROVE \E d \in Clients : Returning(d)'
      OBVIOUS
    <3>1. queue # <<>> /\ Last = Fallback
      BY <2>3, <2>4
    <3>2. PICK d \in Clients : client[d] = "swapping" /\ reply[d] = "none"
      BY <3>1, LastWaits
    <3>3. d # c
      BY <2>1, <3>2
    <3>4. Returning(d)'
      BY <2>2, <3>2, <3>3 DEF Returning
    <3> QED
      BY <3>4
  <2>6. Patient => \A i \in DOMAIN queue' : queue'[i].from \in Clients
    BY <2>1, PostKept
  <2>7. mgr.for = Boot => queue' = queue
    BY <2>1 DEF Post
  <2> QED
    BY <1>p, <2>1, <2>5, <2>6, <2>7 DEF Kept, Patient
<1>9. ASSUME NEW c \in Clients, Swapped(c) \/ Restored(c) PROVE Kept'
  <2>1. UNCHANGED <<server, mgr, queue, reply>>
    BY <1>9 DEF Swapped, Restored
  <2>2. \A d \in Clients : Returning(d) => Returning(d)'
    BY <1>9 DEF Swapped, Restored, Goto, Returning, TypeOK
  <2> QED
    BY <1>p, <2>1, <2>2 DEF Kept, Patient, Last, MgrIdle
<1>10. ASSUME NEW c \in Clients, GiveUp(c) \/ Killed(c) PROVE Kept'
  <2>1. ~Patient /\ ~Patient'
    BY <1>p, <1>10 DEF GiveUp, Killed, Patient
  <2>2. mgr'.for = Boot => mgr.for = Boot /\ mgr' = mgr
    BY <1>10 DEF GiveUp, Killed, HangUp, TypeOK
  <2>3. queue = <<>> => queue' = <<>>
    BY <1>10 DEF GiveUp, Killed, HangUp
  <2>4. server' = server
    BY <1>10 DEF GiveUp, Killed
  <2> QED
    BY <2>1, <2>2, <2>3, <2>4 DEF Kept
<1>11. CASE UNCHANGED vars
  BY <1>11 DEF vars, Kept, Last, Patient, Returning, MgrIdle
<1> QED
  BY <1>1, <1>2, <1>3, <1>4, <1>5, <1>6, <1>7, <1>8, <1>9, <1>10, <1>11 DEF Next, Manager, ClientStep

\* fix_loop_escalating and build_system_escalating: clients that wait and are not killed never
\* leave the fallback being served, however many there are, however their swaps interleave and
\* however short the backlog, unless the fallback is what the manager boots.
THEOREM FallbackIsLeft == ASSUME Default # Fallback PROVE Spec => []PatientRestores
<1>1. IInv /\ [Next]_vars => IInv'
  BY NextType, TrackedInductive, OutstandingInductive, KeptInductive DEF IInv
<1>2. IInv => PatientRestores
  <2> SUFFICES ASSUME IInv, Patient, Quiet, Serving(Fallback) PROVE FALSE
    BY DEF PatientRestores, EscalationRestores, Patient
  <2>1. Last = Fallback
    BY DEF Last, Quiet, Serving
  <2> QED
    BY <2>1 DEF IInv, Kept, Returning, Quiet
<1> QED
  BY <1>1, <1>2, InitIInv, PTL DEF Spec
-----------------------------------------------------------------------------
RouterStates == [st : {"idle", "reading", "posting", "swapping", "activating", "solving", "testing"},
                 todo : Seq(Models), gated : BOOLEAN, made : Models \cup {NoModel}]
Legal(x) == /\ x \in RouterStates
            /\ x.st = "idle" <=> x.todo = <<>>
            /\ Len(x.todo) <= MaxModels

LEMMA RoutersLegal == RTypeOK <=>
  /\ TypeOK
  /\ router \in [Routers -> RouterStates]
  /\ \A r \in Routers : Legal(router[r])
  /\ alias \in [Routers -> Models]
  /\ label \in [named : Models \cup {NoModel}, made : Models \cup {NoModel}]
  /\ company \in BOOLEAN
  BY DEF RTypeOK, Legal, RouterStates, Stage

\* A routed solve tries at least one model and at most max_models.
LEMMA Budget ==
  ASSUME NEW rank \in Rankings
  PROVE  /\ Candidates(rank) \in Seq(Models) /\ Candidates(rank) # <<>>
         /\ Len(Candidates(rank)) <= MaxModels
         /\ <<Best(rank)>> \in Seq(Models) /\ Best(rank) \in Models
<1> USE RoutingAssumption
<1> DEFINE M == Models
           order == IF \E i \in DOMAIN rank : rank[i] = Default THEN rank ELSE <<Default>> \o rank
           n == IF Len(order) < MaxModels THEN Len(order) ELSE MaxModels
<1>1. rank \in Seq(M) /\ Default \in M
  BY DEF Models
<1> HIDE DEF M
<1>2. order \in Seq(M) /\ Len(order) >= 1
  <2>1. CASE \E i \in DOMAIN rank : rank[i] = Default
    <3>1. rank # <<>>
      BY <2>1
    <3> QED
      BY <1>1, <2>1, <3>1
  <2>2. CASE ~\E i \in DOMAIN rank : rank[i] = Default
    <3>1. <<Default>> \in Seq(M) /\ Len(<<Default>>) = 1
      BY <1>1
    <3>2. <<Default>> \o rank \in Seq(M) /\ Len(<<Default>> \o rank) = 1 + Len(rank) /\ Len(rank) \in Nat
      BY <1>1, <3>1
    <3> QED
      BY <2>2, <3>2
  <2> QED
    BY <2>1, <2>2
<1>3. Candidates(rank) = SubSeq(order, 1, n)
  BY DEF Candidates
<1> HIDE DEF order
<1>4. n \in 1..Len(order) /\ n <= MaxModels
  BY <1>2
<1> HIDE DEF n
<1>5. SubSeq(order, 1, n) \in Seq(M) /\ Len(SubSeq(order, 1, n)) = n
  BY <1>2, <1>4
<1>6. Best(rank) \in M
  BY <1>1 DEF Best
<1>7. <<Best(rank)>> \in Seq(M)
  BY <1>6
<1>8. Candidates(rank) # <<>>
  <2>1. n # 0 /\ Len(<<>>) = 0
    BY <1>4
  <2> QED
    BY <1>3, <1>5, <2>1
<1> QED
  BY <1>3, <1>4, <1>5, <1>6, <1>7, <1>8 DEF M

\* The step from a candidate to the next, whose solve is over or starts over.
LEMMA NextLegal ==
  ASSUME RTypeOK, NEW r \in Routers, Stage(r) # "idle", NextCandidate(r)
  PROVE  /\ router' = [router EXCEPT ![r] = router'[r]]
         /\ Legal(router'[r]) /\ router'[r].st \in {"idle", "reading"}
<1> DEFINE M == Models
           todo == router[r].todo
           rest == Tail(todo)
<1>1. Legal(router[r]) /\ router \in [Routers -> RouterStates]
  BY RoutersLegal
<1>2. todo \in Seq(M) /\ todo # <<>> /\ Len(todo) <= MaxModels
  BY <1>1 DEF Legal, RouterStates, Stage
<1> HIDE DEF M, todo
<1>3. rest \in Seq(M) /\ Len(rest) = Len(todo) - 1 /\ Len(todo) \in Nat
  BY <1>2
<1> HIDE DEF rest
<1>4. Len(rest) <= MaxModels
  BY <1>2, <1>3, RoutingAssumption
<1>5. router' = [router EXCEPT ![r] = IF rest = <<>> THEN Asleep
                                      ELSE [@ EXCEPT !.st = "reading", !.todo = rest, !.made = NoModel]]
  BY DEF NextCandidate, rest, todo
<1>6. CASE rest = <<>>
  <2>1. router' = [router EXCEPT ![r] = Asleep] /\ router'[r] = Asleep
    BY <1>1, <1>5, <1>6
  <2>2. Asleep \in RouterStates /\ Asleep.st = "idle" /\ Asleep.todo = <<>> /\ Len(Asleep.todo) <= MaxModels
    BY RoutingAssumption DEF Asleep, RouterStates
  <2> QED
    BY <2>1, <2>2 DEF Legal
<1>7. CASE rest # <<>>
  <2> DEFINE x == [router[r] EXCEPT !.st = "reading", !.todo = rest, !.made = NoModel]
  <2>1. router' = [router EXCEPT ![r] = x] /\ router'[r] = x
    BY <1>1, <1>5, <1>7
  <2>2. x \in RouterStates /\ x.st = "reading" /\ x.todo = rest
    BY <1>1, <1>3 DEF RouterStates, M
  <2> HIDE DEF x
  <2> QED
    BY <1>4, <1>7, <2>1, <2>2 DEF Legal
<1> QED
  BY <1>6, <1>7

LEMMA ToLegal ==
  ASSUME RTypeOK, NEW r \in Routers, Stage(r) # "idle",
         NEW s \in {"reading", "posting", "swapping", "activating", "solving", "testing"}, To(r, s)
  PROVE  /\ router' = [router EXCEPT ![r] = router'[r]]
         /\ Legal(router'[r]) /\ router'[r].st = s
         /\ router'[r].todo = router[r].todo /\ router'[r].made = router[r].made
  BY RoutersLegal DEF To, Legal, RouterStates, Stage

LEMMA AsleepLegal ==
  ASSUME RTypeOK, NEW r \in Routers, router' = [router EXCEPT ![r] = Asleep]
  PROVE  /\ router' = [router EXCEPT ![r] = router'[r]]
         /\ Legal(router'[r]) /\ router'[r].st = "idle"
<1>1. router'[r] = Asleep
  BY RoutersLegal
<1>2. Asleep \in RouterStates /\ Asleep.st = "idle" /\ Asleep.todo = <<>> /\ Len(Asleep.todo) <= MaxModels
  BY RoutingAssumption DEF Asleep, RouterStates
<1> QED
  BY <1>1, <1>2 DEF Legal

LEMMA RouteLegal ==
  ASSUME RTypeOK, NEW r \in Routers, Route(r)
  PROVE  /\ router' = [router EXCEPT ![r] = router'[r]]
         /\ Legal(router'[r]) /\ router'[r].st = "reading"
<1>1. PICK rank \in Rankings, gated \in BOOLEAN :
         router' = [router EXCEPT ![r] =
             [st |-> "reading", gated |-> gated, made |-> NoModel,
              todo |-> IF gated THEN Candidates(rank) ELSE <<Best(rank)>>]]
  BY DEF Route
<1> DEFINE t == IF gated THEN Candidates(rank) ELSE <<Best(rank)>>
           x == [st |-> "reading", gated |-> gated, made |-> NoModel, todo |-> t]
<1>2. t \in Seq(Models) /\ t # <<>> /\ Len(t) <= MaxModels
  <2>1. Len(<<Best(rank)>>) = 1 /\ <<Best(rank)>> # <<>>
    OBVIOUS
  <2> QED
    BY <2>1, Budget, RoutingAssumption
<1> HIDE DEF t
<1>3. x \in RouterStates /\ x.st = "reading" /\ x.todo = t
  BY <1>2 DEF RouterStates
<1>4. router' = [router EXCEPT ![r] = x] /\ router'[r] = x
  BY <1>1, RoutersLegal DEF t
<1> HIDE DEF x
<1> QED
  BY <1>2, <1>3, <1>4 DEF Legal

\* Every step of a router changes its own state only, and legally.
LEMMA RouterStepLegal ==
  ASSUME RTypeOK, NEW r \in Routers, Route(r) \/ RouterStep(r) \/ Abandon(r)
  PROVE  \/ router' = router
         \/ router' = [router EXCEPT ![r] = router'[r]] /\ Legal(router'[r])
<1>1. CASE Route(r)
  BY <1>1, RouteLegal
<1>2. CASE ReadCurrent(r)
  <2>1. To(r, "posting") \/ To(r, "activating")
    BY <1>2 DEF ReadCurrent
  <2> QED
    BY <1>2, <2>1, ToLegal DEF ReadCurrent
<1>3. CASE AskForSwap(r)
  BY <1>3, ToLegal DEF AskForSwap
<1>4. CASE SwapAnswered(r)
  BY <1>4, ToLegal, NextLegal DEF SwapAnswered
<1>5. CASE Activate(r)
  BY <1>5, ToLegal, NextLegal DEF Activate
<1>6. CASE Solve(r)
  <2>1. CASE NextCandidate(r)
    BY <1>6, <2>1, NextLegal DEF Solve
  <2>2. CASE router' = [router EXCEPT ![r].st = "testing", ![r].made = server.model]
    <3>1. server.model \in Models /\ Stage(r) = "solving"
      BY <1>6, RoutersLegal DEF TypeOK, Solve
    <3> QED
      BY <2>2, <3>1, RoutersLegal DEF Legal, RouterStates, Stage
  <2> QED
    BY <1>6, <2>1, <2>2 DEF Solve
<1>7. CASE Test(r)
  BY <1>7, AsleepLegal, NextLegal DEF Test
<1>8. CASE Abandon(r)
  BY <1>8, AsleepLegal DEF Abandon, rvars
<1> QED
  BY <1>1, <1>2, <1>3, <1>4, <1>5, <1>6, <1>7, <1>8 DEF RouterStep

\* What the others do is a step of ModelManager.
LEMMA OthersStep == Others => Next /\ UNCHANGED rvars
  BY DEF Others, Next

LEMMA RNextType == RTypeOK /\ [RNext]_allvars => RTypeOK'
<1> SUFFICES ASSUME RTypeOK, [RNext]_allvars PROVE RTypeOK'
  OBVIOUS
<1>t. TypeOK
  BY RoutersLegal
<1>1. CASE Others
  BY <1>1, <1>t, OthersStep, NextType DEF RTypeOK, rvars, Stage
<1>2. CASE UNCHANGED allvars
  BY <1>2, <1>t, NextType DEF RTypeOK, allvars, rvars, Stage
<1>3. ASSUME NEW r \in Routers, Route(r) \/ RouterStep(r) \/ Abandon(r) PROVE RTypeOK'
  <2>c. r \in Clients
    BY RoutingAssumption
  <2>1. \/ router' = router
        \/ router' = [router EXCEPT ![r] = router'[r]] /\ Legal(router'[r])
    BY <1>3, RouterStepLegal
  <2>2. Candidate(r) \in Models \/ Stage(r) = "idle"
    <3>1. Stage(r) # "idle" => router[r].todo \in Seq(Models) /\ router[r].todo # <<>>
      BY RoutersLegal DEF Legal, RouterStates, Stage
    <3>2. ASSUME NEW S, NEW s \in Seq(S), s # <<>> PROVE Head(s) \in S
      BY <3>2
    <3> QED
      BY <3>1, <3>2 DEF Candidate
  <2>3. TypeOK'
    <3>1. CASE UNCHANGED vars
      BY <1>t, <3>1, NextType
    <3>2. CASE AskForSwap(r)
      <4>1. Post(r, Candidate(r)) /\ Candidate(r) \in Models
        BY <2>2, <3>2 DEF AskForSwap
      <4> QED
        BY <1>t, <2>c, <3>2, <4>1, PostTypes DEF AskForSwap, Goto, TypeOK, Req
    <3>3. CASE SwapAnswered(r)
      BY <1>t, <2>c, <3>3 DEF SwapAnswered, Goto, TypeOK
    <3>4. CASE GiveUp(r)
      BY <1>t, <2>c, <3>4, NextType DEF Next
    <3>5. CASE Goto(r, "idle") /\ HangUp(r) /\ UNCHANGED <<server, current, reply, faults>>
      BY <1>t, <2>c, <3>5, HangUpTypes DEF Goto, TypeOK, Req
    <3> QED
      BY <1>3, <3>1, <3>2, <3>3, <3>4, <3>5
         DEF RouterStep, Route, ReadCurrent, Activate, Solve, Test, Abandon
  <2>4. router' \in [Routers -> RouterStates] /\ \A q \in Routers : Legal(router'[q])
    BY <2>1, RoutersLegal DEF Legal
  <2>5. alias' \in [Routers -> Models]
    <3>1. CASE Activate(r)
      <4>1. alias' = [alias EXCEPT ![r] = Candidate(r)] /\ Candidate(r) \in Models
        BY <2>2, <3>1 DEF Activate
      <4> QED
        BY <4>1, RoutersLegal
    <3>2. CASE alias' = [alias EXCEPT ![r] = Default]
      BY <3>2, RoutersLegal DEF Models
    <3>3. CASE alias' = alias
      BY <3>3, RoutersLegal
    <3> QED
      BY <1>3, <3>1, <3>2, <3>3
         DEF RouterStep, Route, ReadCurrent, AskForSwap, SwapAnswered, Solve, Test, Abandon, rvars
  <2>6. label' \in [named : Models \cup {NoModel}, made : Models \cup {NoModel}]
    <3>1. CASE Test(r)
      <4>1. label' = [named |-> Candidate(r), made |-> router[r].made] /\ Candidate(r) \in Models
        BY <2>2, <3>1 DEF Test
      <4>2. router[r].made \in Models \cup {NoModel}
        BY RoutersLegal DEF Legal, RouterStates
      <4> QED
        BY <4>1, <4>2
    <3>2. CASE label' = label
      BY <3>2, RoutersLegal
    <3> QED
      BY <1>3, <3>1, <3>2
         DEF RouterStep, Route, ReadCurrent, AskForSwap, SwapAnswered, Activate, Solve, Abandon, rvars
  <2>7. company' \in BOOLEAN
    <3>1. company' = company
      BY <1>3 DEF RouterStep, Route, ReadCurrent, AskForSwap, SwapAnswered, Activate, Solve, Test,
                  Abandon, rvars
    <3> QED
      BY <3>1, RoutersLegal
  <2> QED
    BY <2>3, <2>4, <2>5, <2>6, <2>7 DEF RTypeOK, Legal, RouterStates, Stage
<1> QED
  BY <1>1, <1>2, <1>3 DEF RNext

LEMMA RInitType == RInit => RTypeOK
<1> SUFFICES ASSUME RInit PROVE RTypeOK
  OBVIOUS
<1>1. Asleep \in RouterStates /\ Asleep.st = "idle" /\ Asleep.todo = <<>> /\ Len(Asleep.todo) <= MaxModels
  BY RoutingAssumption DEF Asleep, RouterStates
<1>2. TypeOK
  BY InitType DEF RInit
<1> QED
  BY <1>1, <1>2, RoutersLegal DEF RInit, Legal, NoLabel, Models

\* A routed solve and everyone it shares the manager with stay well typed, and it never has more
\* models to try than its budget.
THEOREM RTypeCorrect == RSpec => []RTypeOK
  BY RInitType, RNextType, PTL DEF RSpec
-----------------------------------------------------------------------------
\* With a server that neither dies nor loads for too long, the manager is right about it: while it
\* waits the model it launched is coming up, and otherwise the one it names is served.
Steady ==
    Reliable =>
        /\ server.st # "down"
        /\ ~MgrIdle => server.model = mgr.model
        /\ MgrIdle => server.model = current /\ server.st = "ready"

LEMMA SteadyInductive ==
  ASSUME RTypeOK, Steady, [RNext]_allvars
  PROVE  Steady'
<1>t. TypeOK
  BY DEF RTypeOK
<1> USE DEF MgrIdle
<1>1. CASE Load \/ Die
  BY <1>t, <1>1 DEF Load, Die, Steady, Reliable, TypeOK
<1>2. CASE AlreadyServing
  BY <1>2 DEF AlreadyServing, Steady, Reliable
<1>3. CASE Launch
  <2>1. Request \in Req
    BY <1>t, <1>3, QueueTail DEF Launch, TakeRequest
  <2> QED
    BY <1>3, <2>1 DEF Launch, Launched, Steady, Reliable, Req
<1>4. CASE LoadReady
  BY <1>4 DEF LoadReady, Idle, Steady, Reliable
<1>5. CASE LoadExited \/ LoadLate
  BY <1>5 DEF LoadExited, LoadLate, Steady, Reliable
<1>6. CASE Restart
  BY <1>6 DEF Restart, Launched, Steady, Reliable, Models
<1>7. CASE UNCHANGED <<server, current, faults>> /\ mgr'.model = mgr.model
  BY <1>7 DEF Steady, Reliable
<1>8. ASSUME NEW c \in Clients, Escalate(c) \/ ClientStep(c) \/ GiveUp(c) \/ Killed(c)
      PROVE  UNCHANGED <<server, current, faults>> /\ mgr'.model = mgr.model
  BY <1>t, <1>8 DEF Escalate, ClientStep, Swapped, RetryEnds, Restored, GiveUp, Killed, HangUp, TypeOK
<1>9. ASSUME NEW r \in Routers, Route(r) \/ RouterStep(r) \/ Abandon(r)
      PROVE  UNCHANGED <<server, current, faults>> /\ mgr'.model = mgr.model
  BY <1>t, <1>9 DEF RouterStep, Route, ReadCurrent, AskForSwap, SwapAnswered, Activate, Solve, Test,
         Abandon, GiveUp, HangUp, TypeOK, vars
<1>10. CASE UNCHANGED allvars
  BY <1>10 DEF allvars, vars, Steady, Reliable
<1> QED
  BY <1>1, <1>2, <1>3, <1>4, <1>5, <1>6, <1>7, <1>8, <1>9, <1>10 DEF RNext, Others, Manager

\* rewire: what the manager says it serves is what a reliable server serves, for any number of routed
\* solves and escalating clients, whatever they ask for, give up on and leave behind.
THEOREM ServedIsServed == RSpec => SkipsOnlyServed
<1>1. RInit => Steady
  BY DEF RInit, Init, Launched, Steady, MgrIdle, Models
<1>2. RTypeOK /\ Steady /\ [RNext]_allvars =>
        [Reliable => \A r \in Routers :
           Stage(r) = "reading" /\ router'[r].st = "activating" => Serving(Candidate(r))]_allvars
  <2> SUFFICES ASSUME RTypeOK, Steady, [RNext]_allvars, Reliable, NEW r \in Routers,
                      Stage(r) = "reading", router'[r].st = "activating"
               PROVE  Serving(Candidate(r))
    OBVIOUS
  <2>1. router' # router
    BY DEF Stage
  <2>2. PICK q \in Routers : Route(q) \/ RouterStep(q) \/ Abandon(q)
    BY <2>1 DEF RNext, Others, rvars, allvars
  <2>3. q = r
    BY <2>1, <2>2, RouterStepLegal, RoutersLegal DEF Stage
  <2>4. ReadCurrent(r)
    BY <2>2, <2>3, AsleepLegal DEF RouterStep, Route, AskForSwap, SwapAnswered, Activate, Solve, Test,
           Abandon, rvars, Stage
  <2>5. MgrIdle /\ current = Candidate(r)
    <3>1. router'[r].st = IF MgrIdle /\ queue = <<>> /\ current = Candidate(r)
                          THEN "activating" ELSE "posting"
      BY <2>4, RoutersLegal DEF ReadCurrent, To, RouterStates
    <3> QED
      BY <3>1
  <2> QED
    BY <2>5 DEF Steady, Serving, RTypeOK, TypeOK
<1>3. RTypeOK /\ Steady /\ [RNext]_allvars => Steady'
  BY SteadyInductive
<1> QED
  BY <1>1, <1>2, <1>3, RInitType, RNextType, PTL DEF RSpec, SkipsOnlyServed
-----------------------------------------------------------------------------
\* A routed solve with nobody else: the request it waits for is the last of the queue or, with the
\* queue empty, the one being served, and what came before it was abandoned; the server has nothing
\* more to load from the moment the answer is "ok" to the end of the solve.
Waiting(r) == Stage(r) = "swapping" /\ reply[r] = "none"
Trusting(r) == Stage(r) \in {"activating", "solving"} \/ (Stage(r) = "swapping" /\ reply[r] = "ok")
Lone(r) ==
    /\ \A c \in Clients : client[c] = IF c = r /\ Stage(r) = "swapping" THEN "swapping" ELSE "idle"
    /\ \A i \in DOMAIN queue : /\ queue[i].from \in {r, Nobody}
                               /\ queue[i].from = r => Waiting(r) /\ i = Len(queue)
                                                       /\ queue[i].model = Candidate(r)
    /\ mgr.for \in {r, Nobody, Boot}
    /\ mgr.for = r => Waiting(r) /\ queue = <<>> /\ mgr.model = Candidate(r)
    /\ Trusting(r) => MgrIdle /\ queue = <<>> /\ Serving(Candidate(r))
    /\ Stage(r) = "testing" => router[r].made = Candidate(r)

RIInv ==
    /\ RTypeOK
    /\ Steady
    /\ Alone => label.named = label.made /\ \A r \in Routers : Lone(r)

\* Once the router waits for nothing and relies on nothing, only its client's state is left to say.
LEMMA LoneFree ==
  ASSUME TypeOK, NEW r \in Clients, Lone(r), ~Waiting(r), router'[r].st \in {"idle", "reading", "posting"},
         UNCHANGED <<server, mgr, queue, reply>>, client' = client \/ Goto(r, "idle"),
         client' = client => Stage(r) # "swapping"
  PROVE  Lone(r)'
<1>1. Stage(r)' \in {"idle", "reading", "posting"} /\ ~Trusting(r)' /\ ~Waiting(r)'
  BY DEF Stage, Trusting, Waiting
<1>2. \A c \in Clients : client'[c] = "idle"
  BY DEF Lone, Goto, TypeOK
<1>3. (\A i \in DOMAIN queue : queue[i].from \in {r, Nobody} /\ queue[i].from # r) /\ mgr.for # r
  BY DEF Lone
<1> QED
  BY <1>1, <1>2, <1>3 DEF Lone

\* A router that hangs up leaves only requests nobody waits for.
LEMMA LoneHangUp ==
  ASSUME TypeOK, NEW r \in Clients, Lone(r), HangUp(r)
  PROVE  /\ \A i \in DOMAIN queue' : queue'[i].from = Nobody
         /\ mgr'.for \in {Nobody, Boot} /\ mgr'.for # r
<1>1. \A i \in DOMAIN queue : queue[i] \in Req
  <2>1. queue \in Seq(Req)
    BY DEF TypeOK, Req
  <2> QED
    BY <2>1
<1>2. DOMAIN queue' = DOMAIN queue
  BY DEF HangUp
<1>3. ASSUME NEW i \in DOMAIN queue PROVE queue'[i].from = Nobody
  BY <1>1, <1>3 DEF HangUp, Req, Lone
<1>4. mgr'.for \in {Nobody, Boot} /\ mgr'.for # r
  BY DEF HangUp, Lone, TypeOK
<1> QED
  BY <1>2, <1>3, <1>4

\* What the others do while one router solves: only the manager and its server move.
LEMMA LoneOthers ==
  ASSUME RTypeOK, Steady, Alone, NEW r \in Routers, Lone(r), Others
  PROVE  Lone(r)'
<1>c. r \in Clients /\ TypeOK
  BY RoutingAssumption DEF RTypeOK
<1>q. queue \in Seq(Req)
  BY <1>c DEF TypeOK, Req
<1>a. /\ Reliable /\ ~company /\ "restart" \notin faults
      /\ \A q \in Routers : q = r
  BY DEF Alone
<1>s. /\ server.st # "down"
      /\ ~MgrIdle => server.model = mgr.model
      /\ MgrIdle => server.model = current /\ server.st = "ready"
  BY <1>a DEF Steady
<1>r. UNCHANGED rvars /\ Stage(r)' = Stage(r) /\ Candidate(r)' = Candidate(r)
  BY DEF Others, rvars, Stage, Candidate
<1>m. mgr.for = r => Candidate(r) \in Models /\ ~MgrIdle
  <2>1. Stage(r) = "swapping" => router[r].todo \in Seq(Models) /\ router[r].todo # <<>>
    BY RoutersLegal DEF Legal, RouterStates, Stage
  <2>2. ASSUME NEW S, NEW s \in Seq(S), s # <<>> PROVE Head(s) \in S
    BY <2>2
  <2>3. mgr.for = r => Stage(r) = "swapping" /\ mgr.model = Candidate(r)
    BY DEF Lone, Waiting
  <2>4. Stage(r) = "swapping" => Candidate(r) \in Models
    BY <2>1, <2>2 DEF Candidate
  <2> QED
    BY <2>3, <2>4 DEF MgrIdle
<1>1. CASE Load
  <2>1. ~Trusting(r)
    BY <1>1 DEF Load, Lone, Serving, TypeOK
  <2>2. UNCHANGED <<mgr, queue, client, reply>>
    BY <1>1 DEF Load
  <2>3. ~Trusting(r)' /\ (Waiting(r)' <=> Waiting(r))
    BY <1>r, <2>1, <2>2 DEF Trusting, Waiting
  <2> QED
    BY <1>r, <2>2, <2>3 DEF Lone, rvars
<1>2. CASE Die
  BY <1>2, <1>a DEF Die, Reliable
<1>3. CASE AlreadyServing \/ Launch
  <2>1. /\ TakeRequest /\ queue # <<>> /\ queue' = Tail(queue) /\ MgrIdle /\ client' = client
        /\ Request \in Req /\ 1 \in DOMAIN queue /\ Request = queue[1]
        /\ Len(queue') = Len(queue) - 1 /\ Len(queue) \in Nat
        /\ \A i \in DOMAIN queue' : i \in Nat /\ i + 1 \in DOMAIN queue /\ queue'[i] = queue[i + 1]
    BY <1>3, <1>c, <1>q, QueueTail DEF AlreadyServing, Launch, TakeRequest
  <2>2. ~Trusting(r) /\ mgr.for # r
    BY <1>m, <2>1 DEF Lone
  <2>3. Request.from \in {r, Nobody}
        /\ (Request.from = r => Waiting(r) /\ Len(queue) = 1 /\ Request.model = Candidate(r))
    BY <2>1 DEF Lone
  <2>4. Request.from = r => queue' = <<>>
    <3>1. queue' \in Seq(Req)
      BY <1>c, <2>1, QueueTail
    <3>2. Request.from = r => Len(queue') = 0
      <4>1. Len(queue') = Len(queue) - 1
        BY <2>1
      <4>2. Request.from = r => Len(queue) = 1
        BY <2>3
      <4>3. Request.from = r => Len(queue') = 1 - 1
        BY <4>1, <4>2, Zenon
      <4> QED
        BY <4>3
    <3> QED
      BY <3>1, <3>2
  <2>5. Request.from # r /\ Answer(Request.from, "ok") => reply' = reply
    BY <1>c, <2>3 DEF Answer
  <2>6. \A i \in DOMAIN queue' : /\ queue'[i].from \in {r, Nobody}
                                 /\ queue'[i].from = r => Waiting(r) /\ i = Len(queue')
                                                         /\ queue'[i].model = Candidate(r)
    BY <2>1 DEF Lone
  <2>7. CASE AlreadyServing
    <3>1. UNCHANGED <<server, mgr, client>> /\ Answer(Request.from, "ok")
          /\ Request.model = current /\ server.st = "ready"
      BY <2>7 DEF AlreadyServing
    <3>2. CASE Request.from = r
      <4>1. reply'[r] = "ok" /\ ~Waiting(r)'
        BY <1>c, <3>1, <3>2 DEF Answer, TypeOK, Waiting
      <4>2. Serving(Candidate(r))'
        BY <1>c, <1>r, <1>s, <2>1, <2>3, <3>1, <3>2 DEF Serving, TypeOK
      <4>3. queue' = <<>> /\ DOMAIN queue' = {} /\ MgrIdle'
        BY <2>1, <2>4, <3>1, <3>2 DEF MgrIdle
      <4>4. Stage(r) # "testing"
        BY <2>3, <3>2 DEF Waiting
      <4> QED
        BY <1>r, <2>2, <3>1, <4>2, <4>3, <4>4 DEF Lone
    <3>3. CASE Request.from # r
      <4>1. reply' = reply
        BY <2>5, <3>1, <3>3
      <4>2. (Waiting(r)' <=> Waiting(r)) /\ ~Trusting(r)'
        BY <1>r, <2>2, <4>1 DEF Waiting, Trusting
      <4> QED
        BY <1>r, <2>2, <2>6, <3>1, <4>2 DEF Lone, rvars
    <3> QED
      BY <3>2, <3>3
  <2>8. CASE Launch
    <3>1. UNCHANGED <<client, reply>> /\ mgr'.for = Request.from /\ mgr'.model = Request.model
      BY <2>8 DEF Launch
    <3>2. (Waiting(r)' <=> Waiting(r)) /\ ~Trusting(r)'
      BY <1>r, <2>2, <3>1 DEF Waiting, Trusting
    <3> QED
      BY <1>r, <2>3, <2>4, <2>6, <3>1, <3>2 DEF Lone, rvars
  <2> QED
    BY <1>3, <2>7, <2>8
<1>4. CASE LoadReady
  <2>1. /\ ~MgrIdle /\ server.st = "ready" /\ Answer(mgr.for, "ok") /\ mgr'.for = Nobody /\ MgrIdle'
        /\ UNCHANGED <<server, queue, client>>
    BY <1>4 DEF LoadReady, Idle, MgrIdle
  <2>2. ~Trusting(r)
    BY <2>1 DEF Lone
  <2>3. Nobody # r
    BY <1>c
  <2>4. CASE mgr.for = r
    <3>1. reply'[r] = "ok" /\ ~Waiting(r)'
      BY <1>c, <2>1, <2>4 DEF Answer, TypeOK, Waiting
    <3>2. queue' = <<>> /\ DOMAIN queue' = {} /\ mgr.model = Candidate(r) /\ Stage(r) # "testing"
      BY <2>1, <2>4 DEF Lone, Waiting
    <3>3. Serving(Candidate(r))'
      BY <1>c, <1>r, <1>s, <2>1, <3>2 DEF Serving, TypeOK
    <3> QED
      BY <1>r, <2>1, <2>3, <3>1, <3>2, <3>3 DEF Lone
  <2>5. CASE mgr.for # r
    <3>1. reply' = reply
      BY <1>c, <2>1, <2>5 DEF Answer, Lone
    <3>2. (Waiting(r)' <=> Waiting(r)) /\ ~Trusting(r)'
      BY <1>r, <2>2, <3>1 DEF Waiting, Trusting
    <3> QED
      BY <1>r, <2>1, <2>3, <3>2 DEF Lone, rvars
  <2> QED
    BY <2>4, <2>5
<1>5. CASE LoadExited \/ LoadLate \/ Restart
  BY <1>5, <1>a, <1>s DEF LoadExited, LoadLate, Restart, Reliable
<1>6. ASSUME NEW c \in Clients \ Routers,
             (company /\ Escalate(c)) \/ ClientStep(c) \/ GiveUp(c) \/ Killed(c)
      PROVE  FALSE
  <2>1. client[c] = "idle"
    BY <1>6 DEF Lone
  <2> QED
    BY <1>6, <1>a, <2>1 DEF ClientStep, Swapped, RetryEnds, Restored, GiveUp, Killed
<1> QED
  BY <1>1, <1>2, <1>3, <1>4, <1>5, <1>6 DEF Others, Manager

LEMMA LoneRouter ==
  ASSUME RTypeOK, Steady, Alone, label.named = label.made, NEW r \in Routers, Lone(r),
         Route(r) \/ RouterStep(r) \/ Abandon(r)
  PROVE  Lone(r)' /\ label'.named = label'.made
<1>c. r \in Clients /\ TypeOK
  BY RoutingAssumption DEF RTypeOK
<1>s. MgrIdle => server.model = current /\ server.st = "ready"
  BY DEF Steady, Alone
<1>1. CASE Route(r)
  <2>1. router'[r].st = "reading" /\ Stage(r) = "idle" /\ UNCHANGED <<vars, label>>
    BY <1>1, RouteLegal DEF Route
  <2> QED
    BY <1>c, <2>1, LoneFree DEF vars, Waiting
<1>2. CASE ReadCurrent(r)
  <2>1. UNCHANGED <<vars, label>> /\ Stage(r) = "reading"
    BY <1>2 DEF ReadCurrent
  <2>2. CASE MgrIdle /\ queue = <<>> /\ current = Candidate(r)
    <3>1. To(r, "activating")
      BY <1>2, <2>2 DEF ReadCurrent
    <3>2. Stage(r)' = "activating" /\ Candidate(r)' = Candidate(r)
      BY <2>1, <3>1, ToLegal DEF Stage, Candidate
    <3>3. Serving(Candidate(r))' /\ MgrIdle' /\ queue' = <<>> /\ DOMAIN queue' = {}
      BY <1>c, <1>s, <2>1, <2>2, <3>2 DEF Serving, TypeOK, vars, MgrIdle
    <3>4. mgr.for # r
      BY <2>1 DEF Lone, Waiting
    <3> QED
      BY <2>1, <3>2, <3>3, <3>4 DEF Lone, vars
  <2>3. CASE ~(MgrIdle /\ queue = <<>> /\ current = Candidate(r))
    <3>1. To(r, "posting")
      BY <1>2, <2>3 DEF ReadCurrent
    <3>2. router'[r].st = "posting"
      BY <2>1, <3>1, ToLegal
    <3> QED
      BY <1>c, <2>1, <3>2, LoneFree DEF vars, Waiting
  <2> QED
    BY <2>2, <2>3
<1>3. CASE AskForSwap(r)
  <2>1. /\ Stage(r) = "posting" /\ To(r, "swapping") /\ Goto(r, "swapping") /\ Post(r, Candidate(r))
        /\ UNCHANGED <<server, mgr, label>>
    BY <1>3 DEF AskForSwap
  <2>2. Stage(r)' = "swapping" /\ Candidate(r)' = Candidate(r)
    BY <2>1, ToLegal DEF Stage, Candidate
  <2>3. /\ \A i \in DOMAIN queue : queue[i].from = Nobody /\ queue[i].from # r
        /\ mgr.for # r
    BY <1>c, <2>1 DEF Lone, Waiting
  <2>4. \A c \in Clients : client'[c] = IF c = r THEN "swapping" ELSE "idle"
    BY <1>c, <2>1 DEF Lone, Goto, TypeOK
  <2>5. CASE mgr.for = Boot \/ Len(queue) = Backlog
    <3>1. queue' = queue /\ reply'[r] = "failed"
      BY <1>c, <2>1, <2>5 DEF Post, TypeOK
    <3>2. ~Trusting(r)'
      BY <2>2, <3>1 DEF Trusting
    <3> QED
      BY <2>1, <2>2, <2>3, <2>4, <3>1, <3>2 DEF Lone
  <2>6. CASE ~(mgr.for = Boot \/ Len(queue) = Backlog)
    <3> DEFINE new == [from |-> r, model |-> Candidate(r)]
    <3>1. queue' = Append(queue, new) /\ reply'[r] = "none" /\ new.from = r /\ new.model = Candidate(r)
      BY <1>c, <2>1, <2>6 DEF Post, TypeOK
    <3> HIDE DEF new
    <3>2. queue \in Seq(Req)
      BY <1>c DEF TypeOK, Req
    <3>3. \A i \in DOMAIN queue' : \/ i = Len(queue') /\ queue'[i] = new
                                   \/ i \in DOMAIN queue /\ queue'[i] = queue[i]
      BY <3>1, <3>2
    <3>4. Waiting(r)' /\ ~Trusting(r)'
      BY <2>2, <3>1 DEF Trusting, Waiting
    <3> QED
      BY <2>1, <2>2, <2>3, <2>4, <3>1, <3>3, <3>4 DEF Lone
  <2> QED
    BY <2>5, <2>6
<1>4. CASE SwapAnswered(r)
  <2>1. /\ Stage(r) = "swapping" /\ reply[r] # "none" /\ Goto(r, "idle")
        /\ UNCHANGED <<server, mgr, queue, reply, label>>
    BY <1>4 DEF SwapAnswered
  <2>2. CASE reply[r] = "ok"
    <3>1. Stage(r)' = "activating" /\ Candidate(r)' = Candidate(r)
      BY <1>4, <2>1, <2>2, ToLegal DEF SwapAnswered, Stage, Candidate
    <3>2. MgrIdle /\ queue = <<>> /\ Serving(Candidate(r)) /\ mgr.for # r
      BY <2>1, <2>2 DEF Lone, Trusting, Waiting
    <3>3. \A c \in Clients : client'[c] = "idle"
      BY <1>c, <2>1 DEF Lone, Goto, TypeOK
    <3>4. Serving(Candidate(r))' /\ MgrIdle' /\ queue' = <<>> /\ DOMAIN queue' = {}
      BY <2>1, <3>1, <3>2 DEF Serving, MgrIdle
    <3> QED
      BY <2>1, <3>1, <3>2, <3>3, <3>4 DEF Lone
  <2>3. CASE reply[r] # "ok"
    <3>1. router'[r].st \in {"idle", "reading"}
      BY <1>4, <2>1, <2>3, NextLegal DEF SwapAnswered
    <3>2. client' # client
      BY <1>c, <2>1 DEF Lone, Goto, TypeOK
    <3> QED
      BY <1>c, <2>1, <3>1, <3>2, LoneFree DEF Waiting
  <2> QED
    BY <2>2, <2>3
<1>5. CASE Activate(r)
  <2>1. Stage(r) = "activating" /\ UNCHANGED <<vars, label>>
    BY <1>5 DEF Activate
  <2>2. CASE To(r, "solving")
    <3>1. Stage(r)' = "solving" /\ Candidate(r)' = Candidate(r)
      BY <2>1, <2>2, ToLegal DEF Stage, Candidate
    <3>2. MgrIdle /\ queue = <<>> /\ Serving(Candidate(r)) /\ mgr.for # r
      BY <2>1 DEF Lone, Trusting, Waiting
    <3>3. Serving(Candidate(r))' /\ MgrIdle' /\ queue' = <<>> /\ DOMAIN queue' = {}
      BY <2>1, <3>1, <3>2 DEF Serving, MgrIdle, vars
    <3> QED
      BY <2>1, <3>1, <3>2, <3>3 DEF Lone, vars
  <2>3. CASE NextCandidate(r)
    <3>1. router'[r].st \in {"idle", "reading"}
      BY <2>1, <2>3, NextLegal
    <3> QED
      BY <1>c, <2>1, <3>1, LoneFree DEF vars, Waiting
  <2> QED
    BY <1>5, <2>2, <2>3 DEF Activate
<1>6. CASE Solve(r)
  <2>1. Stage(r) = "solving" /\ UNCHANGED <<vars, label>>
    BY <1>6 DEF Solve
  <2>2. CASE router' = [router EXCEPT ![r].st = "testing", ![r].made = server.model]
    <3>1. Stage(r)' = "testing" /\ router'[r].made = server.model /\ Candidate(r)' = Candidate(r)
      BY <2>2, RoutersLegal DEF RouterStates, Stage, Candidate
    <3>2. server.model = Candidate(r) /\ mgr.for # r /\ queue = <<>> /\ DOMAIN queue = {}
      BY <2>1 DEF Lone, Trusting, Waiting, Serving
    <3>3. ~Trusting(r)'
      BY <3>1 DEF Trusting
    <3> QED
      BY <2>1, <3>1, <3>2, <3>3 DEF Lone, vars
  <2>3. CASE NextCandidate(r)
    <3>1. router'[r].st \in {"idle", "reading"}
      BY <2>1, <2>3, NextLegal
    <3> QED
      BY <1>c, <2>1, <3>1, LoneFree DEF vars, Waiting
  <2> QED
    BY <1>6, <2>2, <2>3 DEF Solve
<1>7. CASE Test(r)
  <2>1. /\ Stage(r) = "testing" /\ UNCHANGED vars
        /\ label' = [named |-> Candidate(r), made |-> router[r].made]
    BY <1>7 DEF Test
  <2>2. router'[r].st \in {"idle", "reading"}
    BY <1>7, <2>1, NextLegal, AsleepLegal DEF Test
  <2>3. label'.named = label'.made
    BY <2>1 DEF Lone
  <2> QED
    BY <1>c, <2>1, <2>2, <2>3, LoneFree DEF vars, Waiting
<1>8. CASE GiveUp(r) /\ UNCHANGED rvars
  <2>1. HangUp(r) /\ reply'[r] = "failed" /\ UNCHANGED <<client, router, label>>
        /\ client[r] # "idle"
    BY <1>8, <1>c DEF GiveUp, TypeOK, rvars
  <2>2. Stage(r) = "swapping" /\ Stage(r)' = "swapping"
    BY <1>c, <2>1 DEF Lone, Stage
  <2>3. ~Trusting(r)'
    BY <2>1, <2>2 DEF Trusting
  <2> QED
    BY <1>c, <2>1, <2>2, <2>3, LoneHangUp DEF Lone
<1>9. CASE router' = [router EXCEPT ![r] = Asleep] /\ Goto(r, "idle") /\ HangUp(r) /\ label' = label
  <2>1. Stage(r)' = "idle" /\ ~Trusting(r)'
    BY <1>9, AsleepLegal DEF Stage, Trusting
  <2>2. \A c \in Clients : client'[c] = "idle"
    BY <1>c, <1>9 DEF Lone, Goto, TypeOK
  <2> QED
    BY <1>c, <1>9, <2>1, <2>2, LoneHangUp DEF Lone
<1> QED
  BY <1>1, <1>2, <1>3, <1>4, <1>5, <1>6, <1>7, <1>8, <1>9 DEF RouterStep, Abandon

\* solve_routed's label store: the model recorded for a class of problems is the model that was
\* served while the tested result was made, whatever the order of its candidates, also after swaps
\* that were given up on and solves killed in between.
THEOREM LabelsNameMakers == RSpec => []LabelNamesMaker
<1>1. RInit => RIInv
  <2> SUFFICES ASSUME RInit PROVE RIInv
    OBVIOUS
  <2>1. RTypeOK
    BY RInitType
  <2>2. Steady
    BY DEF RInit, Init, Launched, Steady, MgrIdle, Models
  <2>3. ASSUME NEW r \in Routers PROVE Lone(r)
    <3>1. /\ Stage(r) = "idle" /\ queue = <<>> /\ DOMAIN queue = {} /\ mgr.for = Boot
          /\ client = [c \in Clients |-> "idle"] /\ r \in Clients /\ r # Boot
      BY RoutingAssumption DEF RInit, Init, Stage, Asleep
    <3> QED
      BY <3>1 DEF Lone, Trusting
  <2>4. label.named = label.made
    BY DEF RInit, NoLabel
  <2> QED
    BY <2>1, <2>2, <2>3, <2>4 DEF RIInv
<1>2. RIInv /\ [RNext]_allvars => RIInv'
  <2> SUFFICES ASSUME RIInv, [RNext]_allvars PROVE RIInv'
    OBVIOUS
  <2>1. RTypeOK' /\ Steady'
    BY RNextType, SteadyInductive DEF RIInv
  <2>2. ASSUME Alone' PROVE label'.named = label'.made /\ \A r \in Routers : Lone(r)'
    <3>1. company' = company /\ faults' = faults
      BY DEF RNext, Others, rvars, allvars, vars, Route, RouterStep, ReadCurrent, AskForSwap,
             SwapAnswered, Activate, Solve, Test, Abandon, GiveUp, Load, Die, Manager, AlreadyServing,
             Launch, LoadReady, LoadExited, LoadLate, Restart, Escalate, ClientStep, Swapped, RetryEnds,
             Restored, Killed
    <3>2. Alone
      BY <2>2, <3>1 DEF Alone, Reliable
    <3>3. label.named = label.made /\ \A r \in Routers : Lone(r)
      BY <3>2 DEF RIInv
    <3>4. CASE Others
      BY <3>2, <3>3, <3>4, LoneOthers DEF RIInv, Others, rvars
    <3>5. ASSUME NEW q \in Routers, Route(q) \/ RouterStep(q) \/ Abandon(q)
          PROVE  label'.named = label'.made /\ \A r \in Routers : Lone(r)'
      <4>1. label'.named = label'.made /\ Lone(q)'
        BY <3>2, <3>3, <3>5, LoneRouter DEF RIInv
      <4>2. \A r \in Routers : r = q
        BY <3>2 DEF Alone
      <4> QED
        BY <4>1, <4>2
    <3>6. CASE UNCHANGED allvars
      BY <3>3, <3>6 DEF allvars, vars, rvars, Lone, Waiting, Trusting, Stage, Candidate, Serving, MgrIdle
    <3> QED
      BY <3>4, <3>5, <3>6 DEF RNext
  <2> QED
    BY <2>1, <2>2 DEF RIInv
<1>3. RIInv => LabelNamesMaker
  BY DEF RIInv, LabelNamesMaker
<1> QED
  BY <1>1, <1>2, <1>3, PTL DEF RSpec
=============================================================================
