------------------------------- MODULE MCLedger -------------------------------
\* Instances of Ledger for TLC.
EXTENDS LedgerClaims, TLC

CONSTANTS s1, s2, c1, c2

AllInS1 == [c \in Client |-> s1]
OwnPhone == [c \in Client |-> c]

Sale(e, c, a) ==
  [kind |-> "accrual", store |-> StoreOf[c], ext |-> e, client |-> c, amount |-> a,
   points |-> 0, origType |-> "any", origExt |-> e]
Payment(e, c, a, n) ==
  [kind |-> "redeem", store |-> StoreOf[c], ext |-> e, client |-> c, amount |-> a,
   points |-> n, origType |-> "any", origExt |-> e]
Return(e, type, orig, a) ==
  [kind |-> "refund", store |-> s1, ext |-> e, client |-> c1, amount |-> a, points |-> 0,
   origType |-> type, origExt |-> orig]

Receipts == {"e1", "e2"}

\* One point per rouble; at least two points to redeem, half the purchase at most.
Plain == [percent |-> 10000, minPurchase |-> 100, minBalance |-> 2, maxPercent |-> 5000, rate |-> 10000]
\* The same points, no minimum and no cap.
Open == [percent |-> 10000, minPurchase |-> 0, minBalance |-> 0, maxPercent |-> 0, rate |-> 10000]

\* A sale worth three points, a refund of a third of it and the refund that
\* completes it, whose receipt is also used for a larger amount: too much once
\* the third is returned.  The partial refund leaves a rounding remainder.
RefundRequests ==
  { Sale("e1", c1, 310), Return("e1", "accrual", "e1", 100), Return("e2", "any", "e1", 210),
    Return("e2", "any", "e1", 250) }

\* A sale, its receipt reused with another amount, two payments with its points
\* that cannot both go through, refunds of one of them and of the sale, which
\* leaves a debt once the points are spent.
PaymentRequests ==
  { Sale("e1", c1, 400), Sale("e1", c1, 200), Payment("e1", c1, 600, 4), Payment("e2", c1, 600, 1),
    Return("e1", "any", "e1", 400), Return("e2", "redeem", "e2", 600) }

\* A sale and payments of two points under a daily limit of three.
LimitRequests == {Sale("e1", c1, 600), Payment("e1", c1, 600, 2), Payment("e2", c1, 600, 2)}

\* First sales in two stores to clients who share a phone, and a refund.
InviteRequests ==
  {Sale("e1", c1, 300), Sale("e1", c2, 300), Return("e1", "accrual", "e1", 100)}
TwoStores == (c1 :> s1 @@ c2 :> s2)
SharedPhone == [c \in Client |-> "phone"]

\* A debt of three points, and a sale worth one.
DebtRequests ==
  {Sale("e1", c1, 300), Payment("e1", c1, 600, 3), Return("e1", "accrual", "e1", 300), Sale("e2", c1, 100)}

\* A refund delivered twice.
RepeatedRefund == {Sale("e1", c1, 300), Return("e1", "accrual", "e1", 100)}

\* A payment delivered twice.
RepeatedPayment == {Sale("e1", c1, 300), Payment("e1", c1, 600, 2)}

\* With ten units to a kopeck: three roubles, and all but 0.4 of a kopeck of it.
FineRefund == {Sale("e1", c1, 3000), Return("e1", "accrual", "e1", 2996)}

PlainRules == {Plain}
OpenRules == {Open}
BothRules == {Plain, Open}

Symmetry == Permutations(Proc)
===============================================================================
