----------------------------- MODULE OutboxWorker -----------------------------
(***************************************************************************)
(* The replicas' OutboxWorkers over the table notification_outbox, and the *)
(* part of App.Run that stops them.  A poll claims a batch in one UPDATE,  *)
(* sends its entries with bounded concurrency and marks each one; claim,   *)
(* sends and marks share a deadline, and the claim is a lease after which  *)
(* any replica may claim the entry again.                                  *)
(*                                                                         *)
(* Time advances in units of at least PollInterval.  Timers count down to  *)
(* zero; what a context or a timer cuts off returns before time goes on.   *)
(* A unit that passes while a worker has something to do counts as a fault *)
(* (a stall of the process or the database).  The replicas' clocks and the *)
(* database's agree, and a statement takes effect by its deadline or never. *)
(***************************************************************************)
EXTENDS Integers, FiniteSets

CONSTANTS
  Entry,          \* rows the ledger may queue
  Replica,        \* server processes, one worker each
  BatchSize,      \* OutboxWorkerConfig: entries claimed by a poll
  MaxConcurrency, \* sends of one poll in flight
  MaxAttempts,    \* counted failures before an entry is dead-lettered
  Backoff,        \* delay after the n-th counted failure
  DeliverTimeout, \* deadline of a poll
  Lease,          \* claimLease
  SendTimeout,    \* the longest a channel's Send takes
  DrainTimeout,   \* outboxDrainTimeout
  MaxOverdue,     \* bound: how long an entry is known to be overdue
  MaxFaults       \* bound: crashes, shutdowns, database errors and stalls

ASSUME TimingAssumption ==
  /\ BatchSize \in Nat \ {0} /\ MaxConcurrency \in Nat \ {0} /\ MaxAttempts \in Nat \ {0}
  /\ Backoff \in [1..MaxAttempts -> Nat]
  /\ SendTimeout \in Nat /\ DeliverTimeout \in Nat /\ Lease \in Nat /\ DrainTimeout \in Nat
  /\ SendTimeout < DeliverTimeout /\ DeliverTimeout < Lease /\ DeliverTimeout < DrainTimeout
  /\ MaxOverdue \in Nat /\ MaxFaults \in Nat

VARIABLES
  status,     \* notification_outbox.status, "absent" before the row exists
  attempts,   \* its attempts
  due,        \* time until next_attempt_at; zero or less is due
  life,       \* per replica: "up", "draining" (App.Run stops it) or "down"
  loop,       \* where its worker stands: "select", "claim", "deliver", "returned"
  ticked,     \* the ticker has fired since the last poll
  deadline,   \* time left to the running poll
  drain,      \* time App.Run still waits for the worker
  task,       \* per replica and entry: what the poll does with it
  sent,       \* entries some send of which returned without an error
  faults      \* faults so far

table   == <<status, attempts, due>>
process == <<life, loop, ticked, deadline, drain>>
vars    == <<table, process, task, sent, faults>>

-------------------------------------------------------------------------------
Stage == {"queued", "sending", "sent", "failed"}

\* No task, or the stage of one with the attempts its claim returned and the time
\* its send may still take
NoTask == [stage |-> "none", seen |-> 0, timer |-> 0]
Task   == [stage: Stage \cup {"none"}, seen: Nat, timer: Nat]

Tasks(w) == {e \in Entry : task[w][e].stage # "none"}
InFlight(w) == {e \in Entry : task[w][e].stage = "sending"}

\* Goroutines holding the semaphore: an entry's send and its mark
Holding(w) == {e \in Entry : task[w][e].stage \in {"sending", "sent", "failed"}}

Least(a, b) == IF a <= b THEN a ELSE b

\* Mutant: the status is not part of the claim's condition.
DueInAnyStatus(e) == status[e] # "absent" /\ due[e] <= 0
\* Mutant: an abandoned claim is not claimable again.
DuePending(e) == status[e] = "pending" /\ due[e] <= 0

Claimable(e) == status[e] \in {"pending", "processing"} /\ due[e] <= 0

\* The oldest due entries, at most BatchSize of them
Batches ==
  LET claimable == {e \in Entry : Claimable(e)}
  IN  {B \in SUBSET claimable :
         /\ Cardinality(B) = Least(BatchSize, Cardinality(claimable))
         /\ \A e \in B, f \in claimable \ B : due[e] <= due[f]}

Fault == faults < MaxFaults /\ faults' = faults + 1

Init ==
  /\ status = [e \in Entry |-> "absent"]
  /\ attempts = [e \in Entry |-> 0]
  /\ due = [e \in Entry |-> 0]
  /\ life = [w \in Replica |-> "up"]
  /\ loop = [w \in Replica |-> "select"]
  /\ ticked = [w \in Replica |-> FALSE]
  /\ deadline = [w \in Replica |-> 0]
  /\ drain = [w \in Replica |-> 0]
  /\ task = [w \in Replica |-> [e \in Entry |-> NoTask]]
  /\ sent = {}
  /\ faults = 0

\* A posting transaction of the ledger commits; next_attempt_at is now().
Enqueue(e) ==
  /\ status[e] = "absent"
  /\ status' = [status EXCEPT ![e] = "pending"]
  /\ UNCHANGED <<attempts, due, process, task, sent, faults>>

-------------------------------------------------------------------------------
\* OutboxWorker.Run

\* Mutant: a poll may outlast the lease.
StartLongPoll(w) ==
  /\ loop[w] = "select" /\ life[w] # "down" /\ ticked[w]
  /\ loop' = [loop EXCEPT ![w] = "claim"]
  /\ ticked' = [ticked EXCEPT ![w] = FALSE]
  /\ deadline' = [deadline EXCEPT ![w] = Lease + DeliverTimeout]
  /\ UNCHANGED <<table, life, drain, task, sent, faults>>

\* Once App.Run has cancelled the worker's context and the ticker has fired too,
\* select picks either: the worker may start another poll.
StartPoll(w) ==
  /\ loop[w] = "select" /\ life[w] # "down" /\ ticked[w]
  /\ loop' = [loop EXCEPT ![w] = "claim"]
  /\ ticked' = [ticked EXCEPT ![w] = FALSE]
  /\ deadline' = [deadline EXCEPT ![w] = DeliverTimeout]
  /\ UNCHANGED <<table, life, drain, task, sent, faults>>

Return(w) ==
  /\ loop[w] = "select" /\ life[w] = "draining"
  /\ loop' = [loop EXCEPT ![w] = "returned"]
  /\ ticked' = [ticked EXCEPT ![w] = FALSE]
  /\ UNCHANGED <<table, life, deadline, drain, task, sent, faults>>

\* Mutant: claimed rows stay due.
NoLease == 0
ClaimLease == Lease

MarkClaimed(B) ==
  /\ status' = [e \in Entry |-> IF e \in B THEN "processing" ELSE status[e]]
  /\ due' = [e \in Entry |-> IF e \in B THEN ClaimLease ELSE due[e]]
  /\ UNCHANGED attempts

\* ClaimBatch: one UPDATE over rows locked with SKIP LOCKED
Claim(w) ==
  /\ loop[w] = "claim" /\ deadline[w] > 0
  /\ \E B \in Batches :
       /\ MarkClaimed(B)
       /\ task' = [task EXCEPT ![w] =
            [e \in Entry |->
               IF e \in B THEN [stage |-> "queued", seen |-> attempts[e], timer |-> 0] ELSE NoTask]]
       /\ loop' = [loop EXCEPT ![w] = IF B = {} THEN "select" ELSE "deliver"]
       /\ deadline' = [deadline EXCEPT ![w] = IF B = {} THEN 0 ELSE @]
  /\ UNCHANGED <<life, ticked, drain, sent, faults>>

\* The claim fails, or its rows are lost on their way to the worker; so it does
\* when the deadline has passed, without a fault of the database.
ClaimFails(w) ==
  /\ loop[w] = "claim"
  /\ \/ deadline[w] = 0 /\ UNCHANGED <<table, faults>>
     \/ Fault /\ UNCHANGED table
     \/ deadline[w] > 0 /\ Fault /\ \E B \in Batches : MarkClaimed(B)
  /\ loop' = [loop EXCEPT ![w] = "select"]
  /\ deadline' = [deadline EXCEPT ![w] = 0]
  /\ UNCHANGED <<life, ticked, drain, task, sent>>

SetTask(w, e, t) == task' = [task EXCEPT ![w][e] = t]

\* pollOnce got the semaphore for the entry.
StartSend(w, e) ==
  /\ task[w][e].stage = "queued" /\ Cardinality(Holding(w)) < MaxConcurrency
  /\ SetTask(w, e, [task[w][e] EXCEPT !.stage = "sending", !.timer = SendTimeout])
  /\ UNCHANGED <<table, process, sent, faults>>

SendReturns(w, e) ==
  /\ task[w][e].stage = "sending" /\ deadline[w] > 0
  /\ \/ /\ SetTask(w, e, [task[w][e] EXCEPT !.stage = "sent", !.timer = 0])
        /\ sent' = sent \cup {e}
     \/ /\ SetTask(w, e, [task[w][e] EXCEPT !.stage = "failed", !.timer = 0])
        /\ UNCHANGED sent
  /\ UNCHANGED <<table, process, faults>>

\* Mutant: one attempt too many.
ExhaustedLate(count) == count > MaxAttempts

Exhausted(count) == count >= MaxAttempts

\* MarkDelivered, MarkDeadLetter or MarkFailed: by id, whatever the row says now
MarkOutcome(e, t) ==
  \/ /\ t.stage = "sent"
     /\ status' = [status EXCEPT ![e] = "delivered"]
     /\ UNCHANGED <<attempts, due>>
  \/ /\ t.stage = "failed" /\ Exhausted(t.seen + 1)
     /\ status' = [status EXCEPT ![e] = "dead_letter"]
     /\ attempts' = [attempts EXCEPT ![e] = @ + 1]
     /\ UNCHANGED due
  \/ /\ t.stage = "failed" /\ ~Exhausted(t.seen + 1)
     /\ status' = [status EXCEPT ![e] = "pending"]
     /\ attempts' = [attempts EXCEPT ![e] = @ + 1]
     /\ due' = [due EXCEPT ![e] = Backoff[t.seen + 1]]

Mark(w, e) ==
  /\ task[w][e].stage \in {"sent", "failed"} /\ deadline[w] > 0
  /\ \/ MarkOutcome(e, task[w][e]) /\ UNCHANGED faults
     \/ Fault /\ UNCHANGED table
  /\ SetTask(w, e, NoTask)
  /\ UNCHANGED <<process, sent>>

\* The deadline has passed: whatever the send comes to, the mark fails with the
\* context's error.  The entry stays claimed and its attempts are not counted.
CutOff(w, e) ==
  /\ task[w][e].stage # "none" /\ deadline[w] = 0
  /\ SetTask(w, e, NoTask)
  /\ sent' \in {sent, sent \cup {e}}
  /\ UNCHANGED <<table, process, faults>>

EndPoll(w) ==
  /\ loop[w] = "deliver" /\ Tasks(w) = {}
  /\ loop' = [loop EXCEPT ![w] = "select"]
  /\ deadline' = [deadline EXCEPT ![w] = 0]
  /\ UNCHANGED <<table, life, ticked, drain, task, sent, faults>>

-------------------------------------------------------------------------------
\* App.Run and the process

\* The HTTP server has stopped or failed: cancelWorker()
CancelWorker(w) ==
  /\ life[w] = "up" /\ Fault
  /\ life' = [life EXCEPT ![w] = "draining"]
  /\ drain' = [drain EXCEPT ![w] = DrainTimeout]
  /\ UNCHANGED <<table, loop, ticked, deadline, task, sent>>

\* The process is gone, and its tasks with it.
Gone(w) ==
  /\ life' = [life EXCEPT ![w] = "down"]
  /\ loop' = [loop EXCEPT ![w] = "select"]
  /\ ticked' = [ticked EXCEPT ![w] = FALSE]
  /\ deadline' = [deadline EXCEPT ![w] = 0]
  /\ drain' = [drain EXCEPT ![w] = 0]
  /\ task' = [task EXCEPT ![w] = [e \in Entry |-> NoTask]]
  /\ UNCHANGED <<table, sent>>

\* The worker has returned or the drain timeout has passed; Close shuts the pools.
Close(w) ==
  /\ life[w] = "draining" /\ (loop[w] = "returned" \/ drain[w] = 0)
  /\ Gone(w)
  /\ UNCHANGED faults

Crash(w) == life[w] # "down" /\ Fault /\ Gone(w)

Boot(w) ==
  /\ life[w] = "down"
  /\ life' = [life EXCEPT ![w] = "up"]
  /\ UNCHANGED <<table, loop, ticked, deadline, drain, task, sent, faults>>

CountDown(n) == IF n > 0 THEN n - 1 ELSE 0

\* Calls return by the end of their contexts, sends by their own timeout, and
\* Close follows the drain timeout, before time goes on.
Overrun(w) ==
  \/ loop[w] \in {"claim", "deliver"} /\ deadline[w] = 0
  \/ life[w] = "draining" /\ drain[w] = 0
  \/ \E e \in InFlight(w) : task[w][e].timer = 0

\* The worker need not wait for anything to go on.
Ready(w) ==
  \/ loop[w] = "select" /\ (ticked[w] \/ life[w] = "draining")
  \/ loop[w] = "claim"
  \/ /\ loop[w] = "deliver"
     /\ \/ Tasks(w) = {}
        \/ Holding(w) # InFlight(w)
        \/ Tasks(w) # Holding(w) /\ Cardinality(Holding(w)) < MaxConcurrency

PassTime ==
  /\ \A w \in Replica : ~Overrun(w)
  /\ \/ (\A w \in Replica : ~Ready(w)) /\ UNCHANGED faults
     \/ (\E w \in Replica : Ready(w)) /\ Fault
  /\ due' = [e \in Entry |->
       IF status[e] # "absent" /\ due[e] > -MaxOverdue THEN due[e] - 1 ELSE due[e]]
  /\ ticked' = [w \in Replica |-> life[w] # "down" /\ loop[w] # "returned"]
  /\ deadline' = [w \in Replica |-> CountDown(deadline[w])]
  /\ drain' = [w \in Replica |-> CountDown(drain[w])]
  /\ task' = [w \in Replica |-> [e \in Entry |-> [task[w][e] EXCEPT !.timer = CountDown(@)]]]
  /\ UNCHANGED <<status, attempts, life, loop, sent>>

Work(w) ==
  \/ StartPoll(w) \/ Return(w) \/ Claim(w) \/ EndPoll(w) \/ Close(w) \/ Boot(w)
  \/ \E e \in Entry : StartSend(w, e) \/ SendReturns(w, e) \/ Mark(w, e) \/ CutOff(w, e)
  \/ deadline[w] = 0 /\ ClaimFails(w)

Next ==
  \/ \E e \in Entry : Enqueue(e)
  \/ \E w \in Replica : Work(w) \/ ClaimFails(w) \/ CancelWorker(w) \/ Crash(w)
  \/ PassTime

Spec == Init /\ [][Next]_vars

\* A replica's worker goes on and is started again when it is down, and time
\* passes.  Nothing makes an entry appear or anything fail.
FairSpec == Spec /\ WF_vars(PassTime) /\ \A w \in Replica : WF_vars(Work(w))

-------------------------------------------------------------------------------
\* The type invariant.  No entry is tried more than MaxAttempts times: the
\* failures counted in the row stop there (deliver, MarkFailed, MarkDeadLetter).
TypeOK ==
  /\ status \in [Entry -> {"absent", "pending", "processing", "delivered", "dead_letter"}]
  /\ attempts \in [Entry -> 0..MaxAttempts]
  /\ due \in [Entry -> Int]
  /\ life \in [Replica -> {"up", "draining", "down"}]
  /\ loop \in [Replica -> {"select", "claim", "deliver", "returned"}]
  /\ ticked \in [Replica -> BOOLEAN]
  /\ deadline \in [Replica -> 0..DeliverTimeout]
  /\ drain \in [Replica -> 0..DrainTimeout]
  /\ task \in [Replica -> [Entry -> Task]]
  /\ sent \subseteq Entry
  /\ faults \in 0..MaxFaults

\* No two replicas work on an entry at once (ClaimBatch's promise): a claim is
\* given to another replica only when the poll that took it can no longer send.
ClaimsAreExclusive ==
  \A w, v \in Replica : w # v => Tasks(w) \cap Tasks(v) = {}

\* A task works on the row it claimed: still processing, with the attempts the
\* claim returned.  So deliver, which decides from its copy of the entry, counts
\* from the current value, and no settled entry is sent again.
TaskHoldsClaim ==
  \A w \in Replica : \A e \in Tasks(w) :
    status[e] = "processing" /\ task[w][e].seen = attempts[e]

\* The workers implement what the outbox promises: a pending or a processing row
\* waits, and only a send that returned nil or the last attempt settles it.
Promise ==
  INSTANCE Outbox WITH
    fate <- [e \in Entry |-> IF status[e] \in {"pending", "processing"} THEN "waiting" ELSE status[e]]

ImplementsOutbox == Promise!PromiseSpec

\* Every queued entry is settled in the end, across crashes, shutdowns, failed
\* marks and polls whose batch does not fit into their deadline.
EveryEntrySettled ==
  \A e \in Entry : status[e] = "pending" ~> status[e] \in {"delivered", "dead_letter"}

\* Run's comment in outbox_worker.go, and App.Run's: cancelling the worker stops
\* it from starting a new poll, so the drain timeout, which is longer than any
\* poll, never expires while one is running and Close never races it.
DrainOutlastsPolls ==
  \A w \in Replica :
    life[w] = "draining" /\ drain[w] = 0 => loop[w] \notin {"claim", "deliver"}
===============================================================================
