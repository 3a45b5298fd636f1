------------------------------ MODULE PointsMath ------------------------------
(***************************************************************************)
(* The arithmetic of points: what a purchase earns, how much of a purchase *)
(* points may pay for, and which share of an operation's points a refund   *)
(* reverses.  Money is a natural number of units; Cent of them make one    *)
(* kopeck, the precision of the NUMERIC(20, 2) columns that store amounts. *)
(* A request may name a finer amount: the handlers accept any positive     *)
(* decimal, and Stored(a) is what the column keeps of it.                  *)
(*                                                                         *)
(* Percentages are in hundredths of a percent (NUMERIC(5, 2)) and          *)
(* PointsExchangeRate in ten-thousandths of a rouble (NUMERIC(10, 4)).     *)
(* Division is exact here; decimal.Div keeps 16 digits, which no amount    *)
(* below 10^12 roubles can tell from the exact floor.                      *)
(***************************************************************************)
EXTENDS Integers

CONSTANT Cent   \* units of money in one kopeck

ASSUME CentAssumption == Cent \in Nat \ {0}

Ruble == 100 * Cent

Rule == [percent: Nat, minPurchase: Nat, minBalance: Nat, maxPercent: Nat, rate: Nat]

Magnitude(n) == IF n < 0 THEN -n ELSE n

\* What a NUMERIC(20, 2) column keeps of an amount, and what StringFixed(2)
\* shows of it: both round half away from zero.
Stored(a) == ((2 * a + Cent) \div (2 * Cent)) * Cent

\* points.Mechanic.Accrue
Earned(rule, amount) ==
  IF amount < rule.minPurchase THEN 0 ELSE (amount * rule.percent) \div (10000 * Ruble)

\* The MaxRedeemPercent cap of LoyaltyService.Redeem: off unless the percentage
\* and the exchange rate are both positive.
Capped(rule, amount, points) ==
  LET cap == (amount * rule.maxPercent) \div (Ruble * rule.rate)
  IN  IF rule.maxPercent > 0 /\ rule.rate > 0 /\ points > cap THEN cap ELSE points

\* The cumulative share of an operation's points that PostRefund reverses once
\* `refunded` of its `total` has been returned.  The refund that completes the
\* operation takes all of them.
RefundShare(points, total, refunded) ==
  IF refunded = total THEN points
  ELSE IF total > 0 THEN (points * refunded) \div total ELSE 0
===============================================================================
