----------------------------- MODULE AtomicLedger -----------------------------
(***************************************************************************)
(* What the ledger promises: every accrual, redemption and refund takes    *)
(* effect in one step, once per (store, type, external_tx_id), and its     *)
(* checks hold in the very state it changes.  Ledger implements it with    *)
(* interleaved statements, locks, failures and retries.                    *)
(***************************************************************************)
EXTENDS LedgerTables

Register(c) ==
  /\ clients' = clients \cup {c}
  /\ UNCHANGED <<rules, balance, txs, refunded, journal, outbox, now>>

\* Points are earned under some saved version of the store's rules, or none
\* before the first is saved.  An accrual that would leave a debt is refused.
Accrue(r) ==
  /\ r.kind = "accrual" /\ r.client \in clients /\ ~Posted(KeyOf(r))
  /\ \E n \in 0..Len(rules[r.store]), at \in 0..now, invited \in BOOLEAN :
       LET points == IF n = 0 THEN 0 ELSE Earned(rules[r.store][n], r.amount)
           after  == balance[r.client] + points
           row    == [Draft(r) EXCEPT !.delta = points, !.after = after, !.at = at, !.rule = n]
       IN  /\ after >= 0
           /\ Commit(KeyOf(r), row,
                NoticesFor(KeyOf(r), points) \cup InvitesFor(r.client, invited))

\* A redemption finds the balance at the minimum its rules ask for and large
\* enough, and stays inside the daily limit counted from its start.
Redeem(r) ==
  /\ r.kind = "redeem" /\ r.client \in clients /\ StoreOf[r.client] = r.store
  /\ ~Posted(KeyOf(r))
  /\ \E n \in 1..Len(rules[r.store]), at \in 0..now :
       LET rule   == rules[r.store][n]
           points == Capped(rule, r.amount, r.points)
           after  == balance[r.client] - points
           row    == [Draft(r) EXCEPT !.delta = -points, !.after = after, !.at = at, !.rule = n]
       IN  /\ points > 0 /\ after >= 0
           /\ balance[r.client] >= rule.minBalance
           /\ WithinDailyLimit(r.client, at, points)
           /\ Commit(KeyOf(r), row, NoticesFor(KeyOf(r), row.delta))

\* A refund never takes more than is left of its original; only the refund of
\* an accrual may leave a debt.
Refund(r) ==
  /\ r.kind = "refund" /\ ~Posted(KeyOf(r))
  /\ \E orig \in Originals(r), at \in 0..now :
       LET cum   == refunded[orig].amount + r.amount
           delta == RefundDelta(orig, cum)
           after == balance[txs[orig].client] + delta
           row   == [Draft(r) EXCEPT !.client = txs[orig].client, !.delta = delta,
                       !.after = after, !.fingerprint = Fingerprint(r, orig), !.at = at, !.orig = orig,
                       !.cum = cum, !.full = (cum = txs[orig].amount)]
       IN  /\ Posted(orig) /\ cum <= txs[orig].amount
           /\ KindOf(orig) = "redeem" => after >= 0
           /\ Commit(KeyOf(r), row, NoticesFor(KeyOf(r), row.delta))

AtomicNext ==
  \/ \E c \in Client : Register(c)
  \/ \E r \in Requests : Accrue(r) \/ Redeem(r) \/ Refund(r)
  \/ \E s \in Store, rule \in Rules : SaveRule(s, rule)
  \/ Tick

AtomicSpec == TablesInit /\ [][AtomicNext]_tables
===============================================================================
