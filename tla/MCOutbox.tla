------------------------------- MODULE MCOutbox --------------------------------
(***************************************************************************)
(* Small instances of OutboxWorker.  The order of the timeouts is that of  *)
(* the code: a send's (15 s for three tries of 5 s) below a poll's (30 s), *)
(* below the drain (35 s) and the lease (60 s); a batch needs more rounds  *)
(* of sends than fit into a poll.                                          *)
(***************************************************************************)
EXTENDS OutboxWorker, TLC

CONSTANTS
  BaseBackoff,   \* OutboxWorkerConfig.BaseBackoff
  MaxBackoff     \* OutboxWorkerConfig.MaxBackoff

\* backoffFor; the shift of a Duration does not overflow for MaxAttempts this small
MCBackoff == [n \in 1..MaxAttempts |-> Least(BaseBackoff * 2 ^ (n - 1), MaxBackoff)]

Symmetry == Permutations(Entry) \cup Permutations(Replica)
===============================================================================
