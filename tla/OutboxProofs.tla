------------------------------ MODULE OutboxProofs -----------------------------
(***************************************************************************)
(* The claims of the outbox workers hold for every batch size, number of   *)
(* replicas and timing that TimingAssumption allows.  What makes a lease   *)
(* exclusive is a comparison of two timers: while an entry has a task, its *)
(* claim runs out later than the poll's deadline.                          *)
(***************************************************************************)
EXTENDS OutboxWorker, TLAPS

\* A replica has tasks only while it delivers, and none of its tasks outlives its
\* claim on the row.
TasksAreClaims ==
  \A w \in Replica, e \in Entry : task[w][e].stage # "none" =>
    /\ loop[w] = "deliver"
    /\ status[e] = "processing" /\ task[w][e].seen = attempts[e]
    /\ due[e] - deadline[w] >= Lease - DeliverTimeout
    /\ task[w][e].stage = "sent" => e \in sent

OneReplica ==
  \A w, v \in Replica : \A e \in Entry :
    task[w][e].stage # "none" /\ task[v][e].stage # "none" => w = v

\* A row that waits has an attempt left; one that is not there yet has all.
AttemptsLeft ==
  \A e \in Entry :
    /\ status[e] \in {"pending", "processing"} => attempts[e] < MaxAttempts
    /\ status[e] = "absent" => attempts[e] = 0

IInv == TypeOK /\ TasksAreClaims /\ OneReplica /\ AttemptsLeft

-------------------------------------------------------------------------------
\* What a step may do to a replica's tasks without taking new claims: drop some
\* and move the others on.
LEMMA NoTaskIsTask == NoTask \in Task /\ NoTask.stage = "none"
  BY DEF NoTask, Task, Stage

\* A batch holds rows of the table that no replica works on.
LEMMA BatchIsFree ==
  ASSUME IInv, NEW B \in Batches
  PROVE  /\ B \subseteq Entry
         /\ \A e \in B : status[e] \in {"pending", "processing"}
         /\ \A e \in B, w \in Replica : task[w][e].stage = "none"
<1>1. B \subseteq Entry /\ \A e \in B : Claimable(e)
  BY DEF Batches
<1>2. \A e \in B, w \in Replica : task[w][e].stage = "none"
  <2> SUFFICES ASSUME NEW e \in B, NEW w \in Replica, task[w][e].stage # "none" PROVE FALSE
    OBVIOUS
  <2>1. due[e] - deadline[w] >= Lease - DeliverTimeout
    BY <1>1 DEF IInv, TasksAreClaims
  <2>2. due[e] \in Int /\ deadline[w] \in Nat /\ due[e] <= 0
    BY <1>1 DEF IInv, TypeOK, Claimable
  <2> QED BY <2>1, <2>2, TimingAssumption
<1> QED BY <1>1, <1>2 DEF Claimable

LEMMA InitIInv == Init => IInv
  BY NoTaskIsTask, TimingAssumption DEF Init, IInv, TypeOK, TasksAreClaims, OneReplica, AttemptsLeft, NoTask

\* Claiming a batch leaves every row well typed and with an attempt left, and does
\* not touch a row somebody works on.
LEMMA ClaimedTable ==
  ASSUME IInv, NEW B \in Batches, MarkClaimed(B)
  PROVE  /\ status' \in [Entry -> {"absent", "pending", "processing", "delivered", "dead_letter"}]
         /\ due' \in [Entry -> Int] /\ attempts' = attempts
         /\ \A e \in Entry : IF e \in B THEN status'[e] = "processing" /\ due'[e] = Lease
                                         ELSE status'[e] = status[e] /\ due'[e] = due[e]
         /\ AttemptsLeft'
<1>1. B \subseteq Entry /\ \A e \in B : status[e] \in {"pending", "processing"}
  BY BatchIsFree
<1>2. /\ status' = [e \in Entry |-> IF e \in B THEN "processing" ELSE status[e]]
      /\ due' = [e \in Entry |-> IF e \in B THEN Lease ELSE due[e]] /\ attempts' = attempts
  BY DEF MarkClaimed, ClaimLease
<1>3. Lease \in Int
  BY TimingAssumption
<1> QED BY <1>1, <1>2, <1>3 DEF IInv, TypeOK, AttemptsLeft

-------------------------------------------------------------------------------
\* Every step preserves the inductive invariant.

LEMMA EnqueueIInv ==
  ASSUME IInv, NEW e \in Entry, Enqueue(e)
  PROVE  IInv'
  BY TimingAssumption
  DEF Enqueue, IInv, TypeOK, TasksAreClaims, OneReplica, AttemptsLeft, process

\* The poll's own steps that touch no row and no task
LEMMA LoopIInv ==
  ASSUME IInv, NEW w \in Replica, StartPoll(w) \/ Return(w) \/ EndPoll(w) \/ CancelWorker(w) \/ Boot(w)
  PROVE  IInv'
<1>1. UNCHANGED <<status, attempts, due, task, sent>>
  BY DEF StartPoll, Return, EndPoll, CancelWorker, Boot, table
<1>2. \A e \in Entry : loop[w] # loop'[w] => task[w][e].stage = "none"
  BY DEF IInv, TasksAreClaims, StartPoll, Return, EndPoll, CancelWorker, Boot, Tasks
<1>3. /\ loop'[w] # loop[w] \/ (loop'[w] = loop[w] /\ deadline'[w] = deadline[w])
      /\ \A v \in Replica \ {w} : loop'[v] = loop[v] /\ deadline'[v] = deadline[v]
  BY DEF IInv, TypeOK, StartPoll, Return, EndPoll, CancelWorker, Boot
<1>4. TypeOK'
  <2> USE <1>1, TimingAssumption DEF IInv, TypeOK
  <2>1. CASE StartPoll(w) BY <2>1 DEF StartPoll
  <2>2. CASE Return(w) BY <2>2 DEF Return
  <2>3. CASE EndPoll(w) BY <2>3 DEF EndPoll
  <2>4. CASE CancelWorker(w) BY <2>4 DEF CancelWorker, Fault
  <2>5. CASE Boot(w) BY <2>5 DEF Boot
  <2> QED BY <2>1, <2>2, <2>3, <2>4, <2>5
<1>5. TasksAreClaims'
  BY <1>1, <1>2, <1>3 DEF IInv, TasksAreClaims
<1> QED BY <1>1, <1>4, <1>5 DEF IInv, OneReplica, AttemptsLeft

LEMMA ClaimIInv ==
  ASSUME IInv, NEW w \in Replica, Claim(w)
  PROVE  IInv'
<1>1. PICK B \in Batches :
        /\ MarkClaimed(B)
        /\ task' = [task EXCEPT ![w] =
             [e \in Entry |->
               IF e \in B THEN [stage |-> "queued", seen |-> attempts[e], timer |-> 0] ELSE NoTask]]
        /\ loop' = [loop EXCEPT ![w] = IF B = {} THEN "select" ELSE "deliver"]
        /\ deadline' = [deadline EXCEPT ![w] = IF B = {} THEN 0 ELSE @]
  BY DEF Claim
<1>2. /\ B \subseteq Entry
      /\ \A e \in B, v \in Replica : task[v][e].stage = "none"
  BY BatchIsFree
<1>3. /\ status' \in [Entry -> {"absent", "pending", "processing", "delivered", "dead_letter"}]
      /\ due' \in [Entry -> Int] /\ attempts' = attempts
      /\ \A e \in Entry : IF e \in B THEN status'[e] = "processing" /\ due'[e] = Lease
                                      ELSE status'[e] = status[e] /\ due'[e] = due[e]
      /\ AttemptsLeft'
  BY <1>1, ClaimedTable
<1>4. UNCHANGED <<life, ticked, drain, sent, faults>> /\ loop[w] = "claim"
  BY DEF Claim
<1>5. /\ \A v \in Replica \ {w} : task'[v] = task[v] /\ loop'[v] = loop[v] /\ deadline'[v] = deadline[v]
      /\ \A e \in Entry :
           task'[w][e] = IF e \in B THEN [stage |-> "queued", seen |-> attempts[e], timer |-> 0]
                                    ELSE NoTask
  BY <1>1 DEF IInv, TypeOK
<1>6. task' \in [Replica -> [Entry -> Task]]
  <2>1. \A e \in Entry : [stage |-> "queued", seen |-> attempts[e], timer |-> 0] \in Task
    BY TimingAssumption DEF IInv, TypeOK, Task, Stage
  <2> QED BY <1>1, <2>1, NoTaskIsTask DEF IInv, TypeOK
<1>7. /\ deadline' \in [Replica -> 0..DeliverTimeout]
      /\ loop' \in [Replica -> {"select", "claim", "deliver", "returned"}]
  BY <1>1, TimingAssumption DEF IInv, TypeOK
<1>8. TypeOK'
  BY <1>3, <1>4, <1>6, <1>7 DEF IInv, TypeOK
<1>9. TasksAreClaims'
  <2> SUFFICES ASSUME NEW v \in Replica, NEW e \in Entry, task'[v][e].stage # "none"
               PROVE  /\ loop'[v] = "deliver"
                      /\ status'[e] = "processing" /\ task'[v][e].seen = attempts'[e]
                      /\ due'[e] - deadline'[v] >= Lease - DeliverTimeout
                      /\ task'[v][e].stage = "sent" => e \in sent'
    BY DEF TasksAreClaims
  <2>1. CASE v = w
    <3>1. e \in B /\ B # {}
      BY <2>1, <1>5, NoTaskIsTask
    <3>2. /\ task'[v][e].stage = "queued" /\ task'[v][e].seen = attempts[e]
          /\ loop'[v] = "deliver" /\ deadline'[v] = deadline[v]
      BY <3>1, <2>1, <1>1, <1>5 DEF IInv, TypeOK
    <3>3. deadline[v] \in Nat /\ deadline[v] <= DeliverTimeout
      BY TimingAssumption DEF IInv, TypeOK
    <3> QED BY <3>1, <3>2, <3>3, <1>3, TimingAssumption
  <2>2. CASE v # w
    <3>1. task'[v] = task[v] /\ loop'[v] = loop[v] /\ deadline'[v] = deadline[v]
      BY <2>2, <1>5
    <3>2. e \notin B
      BY <3>1, <1>2
    <3> QED BY <3>1, <3>2, <1>3, <1>4 DEF IInv, TasksAreClaims
  <2> QED BY <2>1, <2>2
<1>10. OneReplica'
  <2>1. \A v \in Replica, e \in Entry :
          task'[v][e].stage # "none" => IF v = w THEN e \in B ELSE task[v][e].stage # "none" /\ e \notin B
    <3> SUFFICES ASSUME NEW v \in Replica, NEW e \in Entry, task'[v][e].stage # "none"
                 PROVE  IF v = w THEN e \in B ELSE task[v][e].stage # "none" /\ e \notin B
      OBVIOUS
    <3>1. CASE v = w
      BY <3>1, <1>5, NoTaskIsTask
    <3>2. CASE v # w
      <4>1. task'[v] = task[v]
        BY <3>2, <1>5
      <4>2. task[v][e].stage # "none"
        BY <4>1
      <4> QED BY <3>2, <4>2, <1>2
    <3> QED BY <3>1, <3>2
  <2>2. \A v, u \in Replica : \A e \in Entry :
          task[v][e].stage # "none" /\ task[u][e].stage # "none" => v = u
    BY DEF IInv, OneReplica
  <2> QED BY <2>1, <2>2 DEF OneReplica
<1> QED BY <1>3, <1>8, <1>9, <1>10 DEF IInv

LEMMA ClaimFailsIInv ==
  ASSUME IInv, NEW w \in Replica, ClaimFails(w)
  PROVE  IInv'
<1>1. /\ UNCHANGED <<life, ticked, drain, task, sent>> /\ loop[w] = "claim"
      /\ loop' = [loop EXCEPT ![w] = "select"]
      /\ deadline' = [deadline EXCEPT ![w] = 0]
      /\ faults' \in 0..MaxFaults
  BY TimingAssumption DEF ClaimFails, Fault, IInv, TypeOK
<1>2. \A e \in Entry : task[w][e].stage = "none"
  BY <1>1 DEF IInv, TasksAreClaims
<1>3. \A v \in Replica \ {w} : loop'[v] = loop[v] /\ deadline'[v] = deadline[v]
  BY <1>1 DEF IInv, TypeOK
<1>4. /\ deadline' \in [Replica -> 0..DeliverTimeout]
      /\ loop' \in [Replica -> {"select", "claim", "deliver", "returned"}]
  BY <1>1, TimingAssumption DEF IInv, TypeOK
<1>5. CASE UNCHANGED table
  <2>1. TypeOK' BY <1>1, <1>4, <1>5 DEF IInv, TypeOK, table
  <2>2. TasksAreClaims' BY <1>1, <1>2, <1>3, <1>5 DEF IInv, TasksAreClaims, table
  <2> QED BY <2>1, <2>2, <1>1, <1>5 DEF IInv, OneReplica, AttemptsLeft, table
<1>6. ASSUME NEW B \in Batches, MarkClaimed(B) PROVE IInv'
  <2>1. \A e \in B, v \in Replica : task[v][e].stage = "none"
    BY BatchIsFree
  <2>2. /\ status' \in [Entry -> {"absent", "pending", "processing", "delivered", "dead_letter"}]
        /\ due' \in [Entry -> Int] /\ attempts' = attempts
        /\ \A e \in Entry : IF e \in B THEN status'[e] = "processing" /\ due'[e] = Lease
                                        ELSE status'[e] = status[e] /\ due'[e] = due[e]
        /\ AttemptsLeft'
    BY <1>6, ClaimedTable
  <2>3. TypeOK' BY <1>1, <1>4, <2>2 DEF IInv, TypeOK
  <2>4. TasksAreClaims' BY <1>1, <1>2, <1>3, <2>1, <2>2 DEF IInv, TasksAreClaims
  <2> QED BY <2>2, <2>3, <2>4, <1>1 DEF IInv, OneReplica
<1> QED BY <1>5, <1>6 DEF ClaimFails

\* Setting the task of one entry leaves the others'.
LEMMA OneTask ==
  ASSUME TypeOK, NEW w \in Replica, NEW e \in Entry, NEW t \in Task, SetTask(w, e, t)
  PROVE  /\ task' \in [Replica -> [Entry -> Task]]
         /\ task'[w][e] = t
         /\ \A v \in Replica, f \in Entry : v # w \/ f # e => task'[v][f] = task[v][f]
  BY DEF SetTask, TypeOK

\* A task drops or moves on, its row untouched.
LEMMA TaskStepIInv ==
  ASSUME IInv, NEW w \in Replica, NEW e \in Entry, NEW t \in Task, SetTask(w, e, t),
         UNCHANGED <<table, process>>, faults' \in 0..MaxFaults,
         sent \subseteq sent', sent' \subseteq Entry,
         t.stage # "none" => task[w][e].stage # "none" /\ t.seen = task[w][e].seen,
         t.stage = "sent" => e \in sent'
  PROVE  IInv'
<1>1. /\ task' \in [Replica -> [Entry -> Task]]
      /\ task'[w][e] = t
      /\ \A v \in Replica, f \in Entry : v # w \/ f # e => task'[v][f] = task[v][f]
  BY OneTask DEF IInv
<1>2. /\ UNCHANGED <<status, attempts, due, life, loop, ticked, deadline, drain>>
  BY DEF table, process
<1>3. TypeOK'
  BY <1>1, <1>2 DEF IInv, TypeOK
<1>4. \A v \in Replica, f \in Entry :
        task'[v][f].stage # "none" =>
          /\ task[v][f].stage # "none" /\ task'[v][f].seen = task[v][f].seen
          /\ task'[v][f].stage = "sent" => task[v][f].stage = "sent" \/ f \in sent'
  BY <1>1
<1>5. TasksAreClaims'
  BY <1>2, <1>4 DEF IInv, TasksAreClaims
<1>6. OneReplica'
  BY <1>4 DEF IInv, OneReplica
<1> QED BY <1>2, <1>3, <1>5, <1>6 DEF IInv, AttemptsLeft

LEMMA SendIInv ==
  ASSUME IInv, NEW w \in Replica, NEW e \in Entry,
         StartSend(w, e) \/ SendReturns(w, e) \/ CutOff(w, e)
  PROVE  IInv'
<1> USE DEF IInv
<1>1. task[w][e] \in Task /\ sent \subseteq Entry /\ faults \in 0..MaxFaults
  BY DEF TypeOK
<1>2. CASE StartSend(w, e)
  <2> DEFINE t == [task[w][e] EXCEPT !.stage = "sending", !.timer = SendTimeout]
  <2>1. t \in Task /\ t.stage = "sending" /\ t.seen = task[w][e].seen
    BY <1>1, TimingAssumption DEF Task, Stage
  <2>2. SetTask(w, e, t) /\ UNCHANGED <<table, process, sent, faults>> /\ task[w][e].stage = "queued"
    BY <1>2 DEF StartSend
  <2> HIDE DEF t
  <2> QED BY <1>1, <2>1, <2>2, TaskStepIInv
<1>3. CASE SendReturns(w, e)
  <2>1. ASSUME NEW s \in {"sent", "failed"},
               SetTask(w, e, [task[w][e] EXCEPT !.stage = s, !.timer = 0]),
               sent' = IF s = "sent" THEN sent \cup {e} ELSE sent
        PROVE  IInv'
    <3> DEFINE t == [task[w][e] EXCEPT !.stage = s, !.timer = 0]
    <3>1. t \in Task /\ t.stage = s /\ t.seen = task[w][e].seen
      BY <1>1 DEF Task, Stage
    <3>2. SetTask(w, e, t) /\ UNCHANGED <<table, process, faults>> /\ task[w][e].stage = "sending"
      BY <1>3, <2>1 DEF SendReturns
    <3>3. sent \subseteq sent' /\ sent' \subseteq Entry /\ (s = "sent" => e \in sent')
      BY <1>1, <2>1
    <3> HIDE DEF t
    <3> QED BY <1>1, <3>1, <3>2, <3>3, TaskStepIInv
  <2> QED BY <1>3, <2>1 DEF SendReturns
<1>4. CASE CutOff(w, e)
  <2>1. /\ SetTask(w, e, NoTask) /\ UNCHANGED <<table, process, faults>>
        /\ sent \subseteq sent' /\ sent' \subseteq Entry
    BY <1>1, <1>4 DEF CutOff
  <2> QED BY <1>1, <2>1, NoTaskIsTask, TaskStepIInv
<1> QED BY <1>2, <1>3, <1>4

\* The row a mark writes is the one it claimed, and a failure leaves it an attempt
\* unless it was the last.
LEMMA MarkIInv ==
  ASSUME IInv, NEW w \in Replica, NEW e \in Entry, Mark(w, e)
  PROVE  IInv'
<1>1. /\ task[w][e].stage \in {"sent", "failed"} /\ SetTask(w, e, NoTask)
      /\ UNCHANGED <<process, sent>> /\ faults' \in 0..MaxFaults
  BY TimingAssumption DEF Mark, Fault, IInv, TypeOK
<1>2. CASE UNCHANGED table
  BY <1>1, <1>2, NoTaskIsTask, TaskStepIInv DEF IInv, TypeOK
<1>3. CASE MarkOutcome(e, task[w][e])
  <2>1. /\ task' \in [Replica -> [Entry -> Task]]
        /\ task'[w][e] = NoTask
        /\ \A v \in Replica, f \in Entry : v # w \/ f # e => task'[v][f] = task[v][f]
    BY <1>1, NoTaskIsTask, OneTask DEF IInv
  <2>2. task[w][e].seen = attempts[e] /\ attempts[e] < MaxAttempts /\ attempts[e] \in Nat
    BY <1>1, TimingAssumption DEF IInv, TypeOK, TasksAreClaims, AttemptsLeft
  <2>3. \A v \in Replica : task'[v][e].stage = "none"
    BY <1>1, <2>1, NoTaskIsTask DEF IInv, OneReplica
  <2>4. /\ status' \in [Entry -> {"absent", "pending", "processing", "delivered", "dead_letter"}]
        /\ attempts' \in [Entry -> 0..MaxAttempts] /\ due' \in [Entry -> Int]
        /\ \A f \in Entry \ {e} : status'[f] = status[f] /\ attempts'[f] = attempts[f] /\ due'[f] = due[f]
        /\ status'[e] = "pending" => attempts'[e] < MaxAttempts
        /\ status'[e] \in {"pending", "delivered", "dead_letter"}
    <3> USE DEF IInv, TypeOK
    <3>1. CASE status' = [status EXCEPT ![e] = "delivered"] /\ UNCHANGED <<attempts, due>>
      BY <3>1
    <3>2. CASE /\ status' = [status EXCEPT ![e] = "dead_letter"]
               /\ attempts' = [attempts EXCEPT ![e] = @ + 1] /\ UNCHANGED due
      BY <3>2, <2>2, TimingAssumption
    <3>3. CASE /\ ~Exhausted(task[w][e].seen + 1)
               /\ status' = [status EXCEPT ![e] = "pending"]
               /\ attempts' = [attempts EXCEPT ![e] = @ + 1]
               /\ due' = [due EXCEPT ![e] = Backoff[task[w][e].seen + 1]]
      <4>1. attempts[e] + 1 < MaxAttempts
        BY <2>2, <3>3, TimingAssumption DEF Exhausted
      <4>2. Backoff[task[w][e].seen + 1] \in Nat
        BY <2>2, <4>1, TimingAssumption
      <4> QED BY <2>2, <3>3, <4>1, <4>2, TimingAssumption
    <3> QED BY <1>3, <3>1, <3>2, <3>3 DEF MarkOutcome
  <2>5. TypeOK'
    BY <1>1, <2>1, <2>4 DEF IInv, TypeOK, process
  <2>6. TasksAreClaims'
    BY <1>1, <2>1, <2>3, <2>4 DEF IInv, TasksAreClaims, process
  <2>7. OneReplica'
    BY <2>1, <2>3 DEF IInv, OneReplica
  <2>8. AttemptsLeft'
    BY <2>4 DEF IInv, AttemptsLeft
  <2> QED BY <2>5, <2>6, <2>7, <2>8 DEF IInv
<1> QED BY <1>2, <1>3 DEF Mark

LEMMA GoneIInv ==
  ASSUME IInv, NEW w \in Replica, Close(w) \/ Crash(w)
  PROVE  IInv'
<1>1. Gone(w) /\ faults' \in 0..MaxFaults
  BY TimingAssumption DEF Close, Crash, Fault, IInv, TypeOK
<1>2. UNCHANGED <<status, attempts, due, sent>>
  BY <1>1 DEF Gone, table
<1>3. TypeOK'
  BY <1>1, <1>2, NoTaskIsTask, TimingAssumption DEF Gone, IInv, TypeOK
<1>4. \A v \in Replica, e \in Entry :
        task'[v][e].stage # "none" =>
          task'[v][e] = task[v][e] /\ loop'[v] = loop[v] /\ deadline'[v] = deadline[v]
  BY <1>1, NoTaskIsTask DEF Gone, IInv, TypeOK
<1>5. TasksAreClaims'
  BY <1>2, <1>4 DEF IInv, TasksAreClaims
<1>6. OneReplica'
  BY <1>4 DEF IInv, OneReplica
<1> QED BY <1>2, <1>3, <1>5, <1>6 DEF IInv, AttemptsLeft

\* A poll whose deadline has passed ends before time goes on, so a claim and the
\* deadline of the poll that holds it come closer together by no unit of time.
LEMMA PassTimeIInv ==
  ASSUME IInv, PassTime
  PROVE  IInv'
<1>1. /\ UNCHANGED <<status, attempts, life, loop, sent>> /\ faults' \in 0..MaxFaults
  BY TimingAssumption DEF PassTime, Fault, IInv, TypeOK
<1>2. \A e \in Entry : due'[e] \in {due[e], due[e] - 1}
  BY DEF PassTime
<1>3. /\ deadline' \in [Replica -> 0..DeliverTimeout]
      /\ drain' \in [Replica -> 0..DrainTimeout]
  <2>2. \A w \in Replica : CountDown(deadline[w]) \in 0..DeliverTimeout /\ CountDown(drain[w]) \in 0..DrainTimeout
    <3> TAKE w \in Replica
    <3>1. deadline[w] \in 0..DeliverTimeout /\ drain[w] \in 0..DrainTimeout
      BY DEF IInv, TypeOK
    <3>2. CountDown(deadline[w]) \in 0..deadline[w] /\ CountDown(drain[w]) \in 0..drain[w]
      BY <3>1, TimingAssumption DEF CountDown
    <3> QED BY <3>1, <3>2, TimingAssumption
  <2> QED BY <2>2 DEF PassTime
<1>4. \A w \in Replica, e \in Entry :
        /\ task'[w][e] \in Task
        /\ task'[w][e].stage = task[w][e].stage /\ task'[w][e].seen = task[w][e].seen
  <2> SUFFICES ASSUME NEW w \in Replica, NEW e \in Entry
               PROVE  /\ task'[w][e] \in Task
                      /\ task'[w][e].stage = task[w][e].stage /\ task'[w][e].seen = task[w][e].seen
    OBVIOUS
  <2>1. task[w][e] \in Task
    BY DEF IInv, TypeOK
  <2>2. task'[w][e] = [task[w][e] EXCEPT !.timer = CountDown(@)]
    BY DEF PassTime
  <2> QED BY <2>1, <2>2 DEF Task, CountDown
<1>5. TypeOK'
  <2>1. due' \in [Entry -> Int]
    BY DEF PassTime, IInv, TypeOK
  <2>2. ticked' \in [Replica -> BOOLEAN]
    BY DEF PassTime
  <2>3. task' \in [Replica -> [Entry -> Task]]
    BY <1>4 DEF PassTime
  <2> QED BY <1>1, <1>3, <2>1, <2>2, <2>3 DEF IInv, TypeOK
<1>6. TasksAreClaims'
  <2> SUFFICES ASSUME NEW w \in Replica, NEW e \in Entry, task'[w][e].stage # "none"
               PROVE  /\ loop'[w] = "deliver"
                      /\ status'[e] = "processing" /\ task'[w][e].seen = attempts'[e]
                      /\ due'[e] - deadline'[w] >= Lease - DeliverTimeout
                      /\ task'[w][e].stage = "sent" => e \in sent'
    BY DEF TasksAreClaims
  <2>1. /\ loop[w] = "deliver" /\ status[e] = "processing" /\ task[w][e].seen = attempts[e]
        /\ due[e] - deadline[w] >= Lease - DeliverTimeout
        /\ task[w][e].stage = "sent" => e \in sent
    BY <1>4 DEF IInv, TasksAreClaims
  <2>2. deadline[w] # 0
    BY <2>1 DEF PassTime, Overrun
  <2>3. deadline'[w] = deadline[w] - 1 /\ deadline[w] \in Nat /\ due[e] \in Int
    BY <2>2, TimingAssumption DEF PassTime, CountDown, IInv, TypeOK
  <2>4. due'[e] - deadline'[w] >= Lease - DeliverTimeout
    BY <1>2, <2>1, <2>3, TimingAssumption
  <2> QED BY <1>1, <1>4, <2>1, <2>4
<1>7. OneReplica'
  BY <1>4 DEF IInv, OneReplica
<1> QED BY <1>1, <1>5, <1>6, <1>7 DEF IInv, AttemptsLeft

LEMMA NextIInv == IInv /\ [Next]_vars => IInv'
<1> SUFFICES ASSUME IInv, [Next]_vars PROVE IInv'
  OBVIOUS
<1>1. ASSUME NEW e \in Entry, Enqueue(e) PROVE IInv'
  BY <1>1, EnqueueIInv
<1>2. ASSUME NEW w \in Replica, Work(w) \/ ClaimFails(w) \/ CancelWorker(w) \/ Crash(w) PROVE IInv'
  <2>1. CASE StartPoll(w) \/ Return(w) \/ EndPoll(w) \/ CancelWorker(w) \/ Boot(w) BY <2>1, LoopIInv
  <2>2. CASE Claim(w) BY <2>2, ClaimIInv
  <2>3. CASE ClaimFails(w) BY <2>3, ClaimFailsIInv
  <2>4. CASE Close(w) \/ Crash(w) BY <2>4, GoneIInv
  <2>5. ASSUME NEW e \in Entry, StartSend(w, e) \/ SendReturns(w, e) \/ CutOff(w, e) PROVE IInv'
    BY <2>5, SendIInv
  <2>6. ASSUME NEW e \in Entry, Mark(w, e) PROVE IInv'
    BY <2>6, MarkIInv
  <2> QED BY <1>2, <2>1, <2>2, <2>3, <2>4, <2>5, <2>6 DEF Work
<1>3. CASE PassTime
  BY <1>3, PassTimeIInv
<1>4. CASE UNCHANGED vars
  BY <1>4 DEF vars, table, process, IInv, TypeOK, TasksAreClaims, OneReplica, AttemptsLeft
<1> QED BY <1>1, <1>2, <1>3, <1>4 DEF Next

\* The inductive invariant holds in every reachable state: claims outlive the polls
\* that took them (ClaimBatch, Run, deliver).
THEOREM OutboxIInv == Spec => []IInv
  BY InitIInv, NextIInv, PTL DEF Spec

\* Every state is well typed, and no entry counts more than MaxAttempts failures,
\* whatever crashes and whatever batch size and timing (deliver, MarkFailed).
THEOREM OutboxTypeCorrect == Spec => []TypeOK
<1>1. IInv => TypeOK BY DEF IInv
<1> QED BY <1>1, OutboxIInv, PTL

\* No two replicas work on one entry at once (ClaimBatch and claimLease).
THEOREM OutboxClaimsExclusive == Spec => []ClaimsAreExclusive
<1>1. IInv => ClaimsAreExclusive BY DEF IInv, OneReplica, ClaimsAreExclusive, Tasks
<1> QED BY <1>1, OutboxIInv, PTL

\* A task's row is still the one its poll claimed: processing, with the attempts the
\* claim returned, so no settled entry is sent again (deliver).
THEOREM OutboxTasksHoldClaims == Spec => []TaskHoldsClaim
<1>1. IInv => TaskHoldsClaim BY DEF IInv, TasksAreClaims, TaskHoldsClaim, Tasks
<1> QED BY <1>1, OutboxIInv, PTL

-------------------------------------------------------------------------------
\* Every step of the workers is a step of the promise or changes nothing it sees.

\* Steps that change no fate, no count and no delivery
LEMMA PromiseStutters ==
  ASSUME UNCHANGED <<attempts, sent>>,
         \A e \in Entry : \/ status'[e] = status[e]
                          \/ {status[e], status'[e]} \subseteq {"pending", "processing"}
  PROVE  UNCHANGED Promise!promise
  BY DEF Promise!promise

LEMMA ClaimStutters ==
  ASSUME IInv, NEW w \in Replica, Claim(w) \/ ClaimFails(w)
  PROVE  UNCHANGED Promise!promise
<1>1. ASSUME NEW B \in Batches, MarkClaimed(B), UNCHANGED sent
      PROVE  UNCHANGED Promise!promise
  <2>1. \A e \in B : status[e] \in {"pending", "processing"}
    BY BatchIsFree
  <2> QED BY <1>1, <2>1, PromiseStutters DEF MarkClaimed
<1>2. CASE UNCHANGED <<table, sent>>
  BY <1>2, PromiseStutters DEF table
<1> QED BY <1>1, <1>2 DEF Claim, ClaimFails

LEMMA MarkKeepsPromise ==
  ASSUME IInv, NEW w \in Replica, NEW e \in Entry, MarkOutcome(e, task[w][e]),
         task[w][e].stage \in {"sent", "failed"}, UNCHANGED sent
  PROVE  Promise!Deliver(e) \/ Promise!CountFailure(e)
<1>1. /\ status[e] = "processing" /\ task[w][e].seen = attempts[e]
      /\ attempts[e] < MaxAttempts /\ attempts[e] \in Nat
      /\ task[w][e].stage = "sent" => e \in sent
  BY TimingAssumption DEF IInv, TypeOK, TasksAreClaims, AttemptsLeft
<1>2. Exhausted(task[w][e].seen + 1) <=> attempts[e] + 1 = MaxAttempts
  BY <1>1, TimingAssumption DEF Exhausted
<1> USE DEF IInv, TypeOK
<1>3. CASE task[w][e].stage = "sent"
  BY <1>1, <1>3 DEF MarkOutcome, Promise!Deliver
<1>4. CASE task[w][e].stage = "failed" /\ Exhausted(task[w][e].seen + 1)
  BY <1>1, <1>2, <1>4 DEF MarkOutcome, Promise!CountFailure
<1>5. CASE task[w][e].stage = "failed" /\ ~Exhausted(task[w][e].seen + 1)
  BY <1>1, <1>2, <1>5 DEF MarkOutcome, Promise!CountFailure
<1> QED BY <1>3, <1>4, <1>5

LEMMA StepKeepsPromise ==
  IInv /\ [Next]_vars => [Promise!PromiseNext]_(Promise!promise)
<1> SUFFICES ASSUME IInv, [Next]_vars PROVE [Promise!PromiseNext]_(Promise!promise)
  OBVIOUS
<1>1. ASSUME NEW e \in Entry, Enqueue(e) PROVE Promise!PromiseNext
  BY <1>1 DEF Enqueue, IInv, TypeOK, Promise!PromiseNext, Promise!Queue
<1>2. ASSUME NEW w \in Replica, Claim(w) \/ ClaimFails(w) PROVE UNCHANGED Promise!promise
  BY <1>2, ClaimStutters
<1>3. ASSUME NEW w \in Replica, NEW e \in Entry, SendReturns(w, e) \/ CutOff(w, e)
      PROVE  [Promise!PromiseNext]_(Promise!promise)
  <2>1. UNCHANGED <<status, attempts>> /\ sent' \in {sent, sent \cup {e}} /\ status[e] = "processing"
    BY <1>3 DEF SendReturns, CutOff, table, IInv, TasksAreClaims
  <2>2. CASE sent' = sent
    BY <2>1, <2>2, PromiseStutters
  <2>3. CASE sent' = sent \cup {e}
    BY <2>1, <2>3 DEF Promise!PromiseNext, Promise!Send
  <2> QED BY <2>1, <2>2, <2>3
<1>4. ASSUME NEW w \in Replica, NEW e \in Entry, Mark(w, e)
      PROVE  [Promise!PromiseNext]_(Promise!promise)
  <2>1. CASE MarkOutcome(e, task[w][e])
    BY <1>4, <2>1, MarkKeepsPromise DEF Mark, Promise!PromiseNext
  <2>2. CASE UNCHANGED table
    BY <1>4, <2>2, PromiseStutters DEF Mark, table
  <2> QED BY <1>4, <2>1, <2>2 DEF Mark
<1>5. CASE UNCHANGED <<status, attempts, sent>>
  BY <1>5, PromiseStutters
<1>6. ASSUME NEW w \in Replica,
             StartPoll(w) \/ Return(w) \/ EndPoll(w) \/ CancelWorker(w) \/ Boot(w) \/ Close(w) \/ Crash(w)
      PROVE  UNCHANGED <<status, attempts, sent>>
  BY <1>6 DEF StartPoll, Return, EndPoll, CancelWorker, Boot, Close, Crash, Gone, table
<1>7. ASSUME NEW w \in Replica, NEW e \in Entry, StartSend(w, e) PROVE UNCHANGED <<status, attempts, sent>>
  BY <1>7 DEF StartSend, table
<1>8. ASSUME PassTime \/ UNCHANGED vars PROVE UNCHANGED <<status, attempts, sent>>
  BY <1>8 DEF PassTime, vars, table
<1> QED BY <1>1, <1>2, <1>3, <1>4, <1>5, <1>6, <1>7, <1>8 DEF Next, Work

LEMMA InitKeepsPromise == Init => Promise!Absent
  BY DEF Init, Promise!Absent

\* The workers keep the outbox's promise: an entry waits until a send of it returned
\* nil or its last attempt failed, failures are counted one at a time, and a settled
\* entry stays settled (deliver, MarkDelivered, MarkFailed, MarkDeadLetter).
THEOREM OutboxKeepsPromise == Spec => ImplementsOutbox
  BY InitKeepsPromise, StepKeepsPromise, OutboxIInv, PTL DEF Spec, ImplementsOutbox, Promise!PromiseSpec
===============================================================================
