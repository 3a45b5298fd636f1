-------------------------------- MODULE Outbox --------------------------------
(***************************************************************************)
(* What notification_outbox promises of an entry, whatever replicas, leases *)
(* and crashes do to get there: it waits until a send of it returned       *)
(* without an error or until MaxAttempts failures were counted, one at a   *)
(* time, and then it is settled for good.                                  *)
(***************************************************************************)
EXTENDS Integers

CONSTANTS
  Entry,         \* rows of notification_outbox
  MaxAttempts    \* OutboxWorkerConfig.MaxAttempts

VARIABLES
  fate,          \* per entry: "absent", "waiting", "delivered" or "dead_letter"
  attempts,      \* failures counted
  sent           \* entries some send of which returned without an error

promise == <<fate, attempts, sent>>

Absent ==
  /\ fate = [e \in Entry |-> "absent"]
  /\ attempts = [e \in Entry |-> 0]
  /\ sent = {}

Queue(e) ==
  /\ fate[e] = "absent"
  /\ fate' = [fate EXCEPT ![e] = "waiting"]
  /\ UNCHANGED <<attempts, sent>>

Send(e) ==
  /\ fate[e] # "absent"
  /\ sent' = sent \cup {e}
  /\ UNCHANGED <<fate, attempts>>

Deliver(e) ==
  /\ fate[e] = "waiting" /\ e \in sent
  /\ fate' = [fate EXCEPT ![e] = "delivered"]
  /\ UNCHANGED <<attempts, sent>>

CountFailure(e) ==
  /\ fate[e] = "waiting"
  /\ attempts' = [attempts EXCEPT ![e] = @ + 1]
  /\ fate' = [fate EXCEPT ![e] = IF attempts[e] + 1 = MaxAttempts THEN "dead_letter" ELSE @]
  /\ UNCHANGED sent

PromiseNext == \E e \in Entry : Queue(e) \/ Send(e) \/ Deliver(e) \/ CountFailure(e)

PromiseSpec == Absent /\ [][PromiseNext]_promise
===============================================================================
