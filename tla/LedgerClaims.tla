----------------------------- MODULE LedgerClaims -----------------------------
(***************************************************************************)
(* Statements of the documents and comments about the ledger that the code *)
(* does not keep.  Each is checked by a run that finds it violated.        *)
(***************************************************************************)
EXTENDS Ledger

\* README.md and DEC-012: a refund may leave a debt, and the next accrual first
\* pays it off.  So an accrual is never turned away for lack of points.  The
\* guard of Post's balance update refuses every accrual smaller than the debt.
AccrualsPayDebtFirst ==
  \A p \in Proc : answer[p] # None /\ request[p].kind = "accrual" =>
    answer[p].status # "insufficient"

\* domain.Transaction: a replayed refund answers with the totals stored when it
\* was posted.  GetByExternalID does not select them.
ReplayedRefundKeepsSnapshot ==
  \A p \in Proc : answer[p] # None /\ answer[p].replayed /\ request[p].kind = "refund" =>
    LET w == txs[KeyOf(request[p])]
    IN  answer[p].total = w.cum /\ answer[p].full = w.full

\* README.md and DEC-012: the refund that closes an operation takes the points
\* that remain.  PostRefund compares the amounts before the column rounds them,
\* so a total that is stored as complete may not have been compared as such.
NoPointsStranded ==
  \A k \in Key : Posted(k) /\ KindOf(k) # "refund" /\ refunded[k].amount = txs[k].amount =>
    refunded[k].points = Magnitude(txs[k].delta)

\* docs/register-simulator.md: a repeated request with the same id and data is
\* answered with the original result.  A duplicate that has passed its replay
\* check meets the effects of the first delivery, a smaller balance or a refunded
\* original, before it meets the unique index, and is refused.
RepeatedRequestIsReplayed ==
  [][\A p \in Proc : pc[p] # "done" /\ pc'[p] = "done" /\ Posted(KeyOf(request[p])) =>
       LET w == txs[KeyOf(request[p])]
       IN  w.fingerprint = row[p].fingerprint =>
             answer'[p].status \in {"ok", "error"}]_vars
===============================================================================
