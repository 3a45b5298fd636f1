----------------------------- MODULE LedgerTables -----------------------------
(***************************************************************************)
(* The tables the ledger reads and writes, the requests that reach it, and *)
(* the effect of one committed posting.  AtomicLedger drives these tables  *)
(* with one step per operation, Ledger with the statements of concurrent   *)
(* requests.                                                               *)
(***************************************************************************)
EXTENDS PointsMath, Sequences, Functions

CONSTANTS
  Store,        \* stores
  Ext,          \* external_tx_id values: receipt numbers chosen by 1C
  Client,       \* clients that exist or may be registered, one per store and phone
  Phone,        \* phone numbers
  StoreOf,      \* Client -> Store
  PhoneOf,      \* Client -> Phone
  Requests,     \* the requests stores may send
  Rules,        \* loyalty configurations a store may save
  DailyLimit,   \* AntiFraudConfig.DailyRedeemPointsLimit, 0 switches it off
  Window,       \* AntiFraudConfig.DailyRedeemWindow
  None          \* a missing row or reference

VARIABLES
  clients,      \* registered clients
  rules,        \* per store, loyalty_config_history: version v is rules[s][v]
  balance,      \* per client, balances.points (0 for a missing row)
  txs,          \* per idempotency key, the immutable columns of its transactions row
  refunded,     \* per key, the row's refunded_amount and refunded_points
  journal,      \* per client, the keys of its rows in commit order
  outbox,       \* dedupe keys of notification_outbox
  now           \* the database clock

tables == <<clients, rules, balance, txs, refunded, journal, outbox, now>>

-------------------------------------------------------------------------------
Kind == {"accrual", "redeem", "refund"}

\* UNIQUE (store_id, type, external_tx_id)
Key == Store \X Kind \X Ext

KindOf(k) == k[2]

\* A request after the HTTP handler accepted it.  origType and origExt name the
\* transaction a refund reverses; client is the one the phone of an accrual
\* belongs to in that store, or the client_id a redeem names.
Request ==
  [kind: Kind, store: Store, ext: Ext, client: Client, amount: Nat \ {0}, points: Nat,
   origType: {"accrual", "redeem", "any"}, origExt: Ext]

KeyOf(r) == <<r.store, r.kind, r.ext>>

\* accrualFingerprint, redeemFingerprint and refundFingerprint
Fingerprint(r, orig) ==
  CASE r.kind = "accrual" -> <<r.client, Stored(r.amount), 0>>
    [] r.kind = "redeem"  -> <<r.client, Stored(r.amount), r.points>>
    [] r.kind = "refund"  -> <<orig, Stored(r.amount), 0>>

\* dedupe_key values: one per posted operation, one app invite per phone
NoticeOf(k) == <<"notice", k>>
InviteOf(c) == <<"invite", PhoneOf[c]>>

\* What an operation queues: a zero-point accrual is not worth a notification.
NoticesFor(k, delta) == IF KindOf(k) = "accrual" /\ delta = 0 THEN {} ELSE {NoticeOf(k)}
InvitesFor(c, invited) == IF invited THEN {InviteOf(c)} ELSE {}

Entry == ({"notice"} \X Key) \cup ({"invite"} \X Phone)

Row ==
  [client: Client, amount: Nat, delta: Int, after: Int,
   fingerprint: (Client \cup Key \cup {None}) \X Nat \X Nat,
   at: Nat, orig: Key \cup {None}, cum: Nat, full: BOOLEAN, rule: Nat]

ASSUME TablesAssumption ==
  /\ StoreOf \in [Client -> Store]
  /\ PhoneOf \in [Client -> Phone]
  /\ Requests \subseteq Request
  /\ \A r \in Requests : r.kind = "accrual" => StoreOf[r.client] = r.store
  /\ Rules \subseteq Rule
  /\ DailyLimit \in Nat
  /\ Window \in Nat
  /\ None \notin Row /\ None \notin Key /\ None \notin Request

TablesTypeOK ==
  /\ clients \subseteq Client
  /\ rules \in [Store -> Seq(Rule)]
  /\ balance \in [Client -> Int]
  /\ txs \in [Key -> Row \cup {None}]
  /\ refunded \in [Key -> [amount: Nat, points: Nat]]
  /\ journal \in [Client -> Seq(Key)]
  /\ outbox \subseteq Entry
  /\ now \in Nat

TablesInit ==
  /\ clients = {}
  /\ rules = [s \in Store |-> <<>>]
  /\ balance = [c \in Client |-> 0]
  /\ txs = [k \in Key |-> None]
  /\ refunded = [k \in Key |-> [amount |-> 0, points |-> 0]]
  /\ journal = [c \in Client |-> <<>>]
  /\ outbox = {}
  /\ now = 0

Posted(k) == txs[k] # None

-------------------------------------------------------------------------------
\* Mutant: the sign of a redemption's points_delta is forgotten.
SignedReversedAt(k, cum) == RefundShare(txs[k].delta, txs[k].amount, cum)

\* The points PostRefund has reversed of original k once the refunded amount
\* reaches cum.
ReversedAt(k, cum) == RefundShare(Magnitude(txs[k].delta), txs[k].amount, cum)

\* The rows a refund request may mean, before they are looked up
Originals(r) ==
  {<<r.store, t, r.origExt>> :
     t \in IF r.origType = "any" THEN {"accrual", "redeem"} ELSE {r.origType}}

\* A transaction as a use case first fills it in
Draft(r) ==
  [client |-> r.client, amount |-> r.amount, delta |-> 0, after |-> 0, fingerprint |-> Fingerprint(r, None),
   at |-> 0, orig |-> None, cum |-> 0, full |-> FALSE, rule |-> 0]

\* The sign of a refund: an accrual's points are taken back, a redemption's are
\* given back.
RefundDelta(k, cum) ==
  LET points == ReversedAt(k, cum) - refunded[k].points
  IN  IF KindOf(k) = "accrual" THEN -points ELSE points

\* Points of c redeemed by rows newer than t - Window
RedeemedSince(c, t) ==
  LET recent == {k \in Key : /\ Posted(k) /\ KindOf(k) = "redeem"
                             /\ txs[k].client = c /\ txs[k].at > t - Window}
  IN  SumFunction([k \in recent |-> -txs[k].delta])

\* Mutant: the redemption being made is left out of the sum.
WithinDailyLimitBefore(c, t, points) ==
  DailyLimit > 0 => RedeemedSince(c, t) <= DailyLimit

WithinDailyLimit(c, t, points) ==
  DailyLimit > 0 => RedeemedSince(c, t) + points <= DailyLimit

\* One committed posting: the row, the balance it leaves, the totals of the
\* original it refunds and the notifications queued with it.
Commit(k, row, notices) ==
  /\ txs' = [txs EXCEPT ![k] = [row EXCEPT !.amount = Stored(row.amount), !.cum = Stored(row.cum)]]
  /\ journal' = [journal EXCEPT ![row.client] = Append(@, k)]
  /\ balance' = [balance EXCEPT ![row.client] = row.after]
  /\ refunded' = IF KindOf(k) # "refund" THEN refunded
                 ELSE [refunded EXCEPT ![row.orig] =
                        [amount |-> Stored(row.cum), points |-> ReversedAt(row.orig, row.cum)]]
  /\ outbox' = outbox \cup notices
  /\ UNCHANGED <<clients, rules, now>>

\* LoyaltyConfigRepository.Upsert, committed: the next version.
SaveRule(s, rule) ==
  /\ rules' = [rules EXCEPT ![s] = Append(@, rule)]
  /\ UNCHANGED <<clients, balance, txs, refunded, journal, outbox, now>>

Tick ==
  /\ now' = now + 1
  /\ UNCHANGED <<clients, rules, balance, txs, refunded, journal, outbox>>

-------------------------------------------------------------------------------
\* What must hold of the tables

\* The balance client c had before its i-th row
Before(c, i) == IF i = 1 THEN 0 ELSE txs[journal[c][i - 1]].after

\* A client's rows form an unbroken account from zero: each row's balance_after
\* is the previous one plus its points_delta, and balances.points is the last.
\* Two postings that worked from the same balance would break the chain.
AccountsBalance ==
  \A c \in Client :
    /\ \A i \in 1..Len(journal[c]) :
         /\ txs[journal[c][i]].client = c
         /\ txs[journal[c][i]].after = Before(c, i) + txs[journal[c][i]].delta
    /\ balance[c] = Before(c, Len(journal[c]) + 1)

\* An operation counts once: every row stands in its client's account exactly
\* once, however often its request was delivered.
PostedOnce ==
  /\ \A c \in Client : \A i, j \in 1..Len(journal[c]) :
       journal[c][i] = journal[c][j] => i = j
  /\ \A k \in Key : Posted(k) <=>
       \E c \in Client : \E i \in 1..Len(journal[c]) : journal[c][i] = k

RefundsOf(k) == {f \in Key : Posted(f) /\ txs[f].orig = k}

\* The totals PostRefund keeps on an original are the sums over its refund rows:
\* no partial refund is lost or counted twice, and together they never exceed
\* the original.
RefundsAddUp ==
  \A k \in Key : Posted(k) =>
    /\ refunded[k].amount = SumFunction([f \in RefundsOf(k) |-> txs[f].amount])
    /\ refunded[k].points = Magnitude(SumFunction([f \in RefundsOf(k) |-> txs[f].delta]))
    /\ refunded[k].amount <= txs[k].amount

\* The points reversed are exactly the share of the refunded amount, all of
\* them once the original is fully refunded: rounding strands none.
RefundsProportional ==
  \A k \in Key : Posted(k) /\ KindOf(k) # "refund" =>
    /\ refunded[k].amount <= txs[k].amount
    /\ refunded[k].points = ReversedAt(k, refunded[k].amount)

\* No window of length Window holds more redeemed points than the daily limit,
\* although each redemption counts only from its own start.
DailyLimitHolds ==
  DailyLimit > 0 =>
    \A c \in Client, t \in 0..now :
      LET inside == {k \in Key : /\ Posted(k) /\ KindOf(k) = "redeem" /\ txs[k].client = c
                                 /\ txs[k].at > t - Window /\ txs[k].at <= t}
      IN  SumFunction([k \in inside |-> -txs[k].delta]) <= DailyLimit

\* A redemption found at least the minimum balance of the rules its row names,
\* took a positive number of points within their cap and left no debt.
RedeemsWithinRules ==
  \A c \in Client : \A i \in 1..Len(journal[c]) :
    LET k == journal[c][i]
        rule == rules[k[1]][txs[k].rule]
    IN  KindOf(k) = "redeem" =>
          /\ Before(c, i) >= rule.minBalance
          /\ txs[k].delta < 0 /\ txs[k].after >= 0
          /\ -txs[k].delta = Capped(rule, txs[k].amount, -txs[k].delta)

\* A client is in debt only because of a refund: its last row is one, of a sale.
DebtComesFromRefund ==
  \A c \in Client : balance[c] < 0 =>
    LET last == journal[c][Len(journal[c])]
    IN  KindOf(last) = "refund" /\ KindOf(txs[last].orig) = "accrual"

\* A notification is queued if and only if its operation is recorded.
NotifiedIffPosted ==
  \A k \in Key : NoticeOf(k) \in outbox <=> Posted(k) /\ NoticesFor(k, txs[k].delta) # {}

\* A row never changes after it is written; what is refunded of it only grows.
HistoryIsFinal ==
  [][\A k \in Key : Posted(k) =>
       /\ txs'[k] = txs[k]
       /\ refunded'[k].amount >= refunded[k].amount
       /\ refunded'[k].points >= refunded[k].points]_tables
===============================================================================
