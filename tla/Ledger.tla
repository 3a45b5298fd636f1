-------------------------------- MODULE Ledger --------------------------------
(***************************************************************************)
(* LoyaltyService's three use cases over the PostgreSQL ledger, one process *)
(* per HTTP request.  A step is one read of the service or one statement of *)
(* the posting transaction; a transaction's writes stay in row[p] until it  *)
(* commits (READ COMMITTED), and the rows and index keys it has written or  *)
(* locked stay in held[p] until it ends.  Statements that read only what    *)
(* the transaction has already locked are one step with the lock.           *)
(*                                                                          *)
(* A retry or a duplicate delivery is another process with the same         *)
(* request.  Any step may fail instead: a database error, a cancelled       *)
(* request context, a crash of the server.                                  *)
(***************************************************************************)
EXTENDS AtomicLedger

CONSTANTS
  Proc,        \* HTTP requests in flight or answered
  MaxRules,    \* bound: versions a store's rules may reach
  MaxTime      \* bound: the last time of the clock

ASSUME BoundsAssumption == MaxRules \in Nat /\ MaxTime \in Nat

VARIABLES
  pc,          \* where the request stands
  request,     \* what was asked
  row,         \* the domain.Transaction being built
  invited,     \* whether an app invite goes out with it
  held,        \* rows and keys its transaction has locked
  answer       \* what was answered

local == <<pc, request, row, invited, held, answer>>
vars  == <<tables, local>>

-------------------------------------------------------------------------------
Service == {"resolve", "resolve redeem", "client", "check", "register", "rule", "funds", "begin"}
Statement == {"original", "balance", "insert", "outbox", "commit"}

\* Mutants: SELECT without FOR UPDATE, and an index that is not unique.
NoOriginalLock(k) == {}
NoBalanceLock(c)  == {}

\* What a statement locks until its transaction ends
OriginalLock(k) == {<<"original", k>>}
BalanceLock(c)  == {<<"balance", c>>}
KeyLock(k)      == {<<"key", k>>}
DedupeLock(E)   == {<<"outbox", e>> : e \in E}
Resource == ({"original", "key"} \X Key) \cup ({"balance"} \X Client) \cup ({"outbox"} \X Entry)

Status == {"ok", "notfound", "ambiguous", "conflict", "insufficient", "limit", "overrefund", "error"}
Answer == [status: Status, points: Int, balance: Int, total: Nat, full: BOOLEAN, replayed: BOOLEAN]

Refused(status) ==
  [status |-> status, points |-> 0, balance |-> 0, total |-> 0, full |-> FALSE, replayed |-> FALSE]

Result(w) ==
  [status |-> "ok", points |-> w.delta, balance |-> w.after, total |-> w.cum, full |-> w.full,
   replayed |-> FALSE]

\* A replay answers from the stored row.  GetByExternalID does not select
\* refund_cumulative_amount and refund_fully_refunded: both read as zero.
Replayed(w) == [Result(w) EXCEPT !.total = 0, !.full = FALSE, !.replayed = TRUE]

\* No other transaction holds any of these
Free(p, resources) == \A q \in Proc \ {p} : held[q] \cap resources = {}

Acquire(p, resources) ==
  /\ Free(p, resources)
  /\ held' = [held EXCEPT ![p] = @ \cup resources]

Goto(p, label) == pc' = [pc EXCEPT ![p] = label]

\* Mutant: the transaction is not rolled back when the request fails.
FinishWithoutRollback(p, a) ==
  /\ Goto(p, "done")
  /\ answer' = [answer EXCEPT ![p] = a]
  /\ row' = [row EXCEPT ![p] = None]
  /\ invited' = [invited EXCEPT ![p] = FALSE]
  /\ UNCHANGED <<request, held>>

\* The request is answered; an open transaction has ended, and the process
\* forgets what it was building.
Finish(p, a) ==
  /\ Goto(p, "done")
  /\ answer' = [answer EXCEPT ![p] = a]
  /\ held' = [held EXCEPT ![p] = {}]
  /\ row' = [row EXCEPT ![p] = None]
  /\ invited' = [invited EXCEPT ![p] = FALSE]
  /\ UNCHANGED request

Refuse(p, status) == Finish(p, Refused(status)) /\ UNCHANGED tables

Init ==
  /\ TablesInit
  /\ pc = [p \in Proc |-> "idle"]
  /\ request = [p \in Proc |-> None]
  /\ row = [p \in Proc |-> None]
  /\ invited = [p \in Proc |-> FALSE]
  /\ held = [p \in Proc |-> {}]
  /\ answer = [p \in Proc |-> None]

-------------------------------------------------------------------------------
\* The service, up to the posting transaction

Receive(p) ==
  /\ pc[p] = "idle"
  /\ \E r \in Requests :
       /\ request' = [request EXCEPT ![p] = r]
       /\ row' = [row EXCEPT ![p] = Draft(r)]
       /\ Goto(p, CASE r.kind = "accrual" -> "check"
                    [] r.kind = "redeem"  -> "client"
                    [] r.kind = "refund"  -> "resolve")
  /\ UNCHANGED <<tables, invited, held, answer>>

RefundOf(p, k) ==
  /\ row' = [row EXCEPT ![p].orig = k, ![p].client = txs[k].client,
                        ![p].fingerprint = Fingerprint(request[p], k)]
  /\ Goto(p, "check")
  /\ UNCHANGED <<tables, request, invited, held, answer>>

\* resolveOriginalTransaction, when the request names the type
ResolveTyped(p) ==
  LET k == <<request[p].store, request[p].origType, request[p].origExt>>
  IN  /\ pc[p] = "resolve" /\ request[p].origType # "any"
      /\ \/ Posted(k) /\ RefundOf(p, k)
         \/ ~Posted(k) /\ Refuse(p, "notfound")

\* ... and when it does not: two reads, first for an accrual, then for a redeem
ResolveAccrual(p) ==
  LET k == <<request[p].store, "accrual", request[p].origExt>>
  IN  /\ pc[p] = "resolve" /\ request[p].origType = "any"
      /\ row' = [row EXCEPT ![p].orig = IF Posted(k) THEN k ELSE None]
      /\ Goto(p, "resolve redeem")
      /\ UNCHANGED <<tables, request, invited, held, answer>>

ResolveRedeem(p) ==
  LET accrual == row[p].orig
      redeem  == <<request[p].store, "redeem", request[p].origExt>>
  IN  /\ pc[p] = "resolve redeem"
      /\ \/ accrual # None /\ Posted(redeem) /\ Refuse(p, "ambiguous")
         \/ accrual # None /\ ~Posted(redeem) /\ RefundOf(p, accrual)
         \/ accrual = None /\ Posted(redeem) /\ RefundOf(p, redeem)
         \/ accrual = None /\ ~Posted(redeem) /\ Refuse(p, "notfound")

\* Redeem loads its client and checks the store it belongs to
LoadClient(p) ==
  LET c == request[p].client
  IN  /\ pc[p] = "client"
      /\ \/ /\ c \in clients /\ StoreOf[c] = request[p].store
            /\ Goto(p, "check")
            /\ UNCHANGED <<tables, request, row, invited, held, answer>>
         \/ /\ ~(c \in clients /\ StoreOf[c] = request[p].store)
            /\ Refuse(p, "notfound")

\* Mutant: the stored fingerprint is not compared.
AnyFingerprint(p) == TRUE

SameFingerprint(p) == txs[KeyOf(request[p])].fingerprint = row[p].fingerprint

\* replayedAccrue, replayedRedeem, replayedRefund: before the operation, and
\* again when its insert met a committed row
CheckReplay(p) ==
  LET k == KeyOf(request[p])
  IN  /\ pc[p] = "check"
      /\ \/ Posted(k) /\ SameFingerprint(p) /\ Finish(p, Replayed(txs[k])) /\ UNCHANGED tables
         \/ Posted(k) /\ ~SameFingerprint(p) /\ Refuse(p, "conflict")
         \/ /\ ~Posted(k)
            /\ Goto(p, CASE request[p].kind = "accrual" -> "register"
                         [] request[p].kind = "redeem"  -> "rule"
                         [] request[p].kind = "refund"  -> "begin")
            /\ UNCHANGED <<tables, request, row, invited, held, answer>>

\* resolveOrCreateClient and appInvite: only the request that registered the
\* client may queue an invite, and the store's settings, an existing account or
\* the daily limit may still keep it from doing so
RegisterClient(p) ==
  LET c == request[p].client
  IN  /\ pc[p] = "register"
      /\ clients' = clients \cup {c}
      /\ \E allowed \in BOOLEAN :
           invited' = [invited EXCEPT ![p] = (c \notin clients) /\ allowed]
      /\ Goto(p, "rule")
      /\ UNCHANGED <<rules, balance, txs, refunded, journal, outbox, now>>
      /\ UNCHANGED <<request, row, held, answer>>

\* Accrue reads the store's rules and runs the points mechanic
PriceAccrual(p) ==
  LET r == request[p]
      n == Len(rules[r.store])
  IN  /\ pc[p] = "rule" /\ r.kind = "accrual"
      /\ row' = [row EXCEPT ![p].rule = n,
                            ![p].delta = IF n = 0 THEN 0 ELSE Earned(rules[r.store][n], r.amount)]
      /\ Goto(p, "begin")
      /\ UNCHANGED <<tables, request, invited, held, answer>>

\* Redeem reads the store's rules ...
ReadRule(p) ==
  LET n == Len(rules[request[p].store])
  IN  /\ pc[p] = "rule" /\ request[p].kind = "redeem"
      /\ \/ n = 0 /\ Refuse(p, "insufficient")
         \/ /\ n > 0
            /\ row' = [row EXCEPT ![p].rule = n]
            /\ Goto(p, "funds")
            /\ UNCHANGED <<tables, request, invited, held, answer>>

\* ... and then, without a lock, the balance
ReadFunds(p) ==
  LET r      == request[p]
      rule   == rules[r.store][row[p].rule]
      points == Capped(rule, r.amount, r.points)
      enough == balance[r.client] >= rule.minBalance /\ points > 0 /\ balance[r.client] >= points
  IN  /\ pc[p] = "funds"
      /\ \/ ~enough /\ Refuse(p, "insufficient")
         \/ /\ enough
            /\ row' = [row EXCEPT ![p].delta = -points]
            /\ Goto(p, "begin")
            /\ UNCHANGED <<tables, request, invited, held, answer>>

-------------------------------------------------------------------------------
\* The posting transaction: Post, PostRedeemChecked, PostRefund

\* now() is the time the transaction began, however long it then waits
Begin(p) ==
  /\ pc[p] = "begin"
  /\ row' = [row EXCEPT ![p].at = now]
  /\ Goto(p, IF request[p].kind = "refund" THEN "original" ELSE "balance")
  /\ UNCHANGED <<tables, request, invited, held, answer>>

\* The original's refunded_amount once this refund is added to it
NewRefundedAmount(p) == refunded[row[p].orig].amount + request[p].amount

\* Mutant: each refund is compared with the original alone.
OverRefundsAlone(p) == request[p].amount > txs[row[p].orig].amount

OverRefunds(p) == NewRefundedAmount(p) > txs[row[p].orig].amount

\* SELECT ... FOR UPDATE of the original, and the refund's points from its
\* totals.  CannotRefundRefund is never met: an original is resolved by the types
\* accrual and redeem only.
LockOriginal(p) ==
  LET k   == row[p].orig
      cum == NewRefundedAmount(p)
  IN  /\ pc[p] = "original" /\ Free(p, OriginalLock(k))
      /\ \/ OverRefunds(p) /\ Refuse(p, "overrefund")
         \/ /\ ~OverRefunds(p)
            /\ Acquire(p, OriginalLock(k))
            /\ row' = [row EXCEPT ![p].cum = cum, ![p].full = (cum = txs[k].amount),
                                  ![p].delta = RefundDelta(k, cum)]
            /\ Goto(p, "balance")
            /\ UNCHANGED <<tables, request, invited, answer>>

\* Mutants: the minimum, or the balance itself, is checked without the lock only.
MinimumUnchecked(p) == FALSE
OverdrawsUnchecked(p) == FALSE

BelowMinimum(p) ==
  /\ request[p].kind = "redeem"
  /\ balance[row[p].client] < rules[request[p].store][row[p].rule].minBalance

OverDailyLimit(p) ==
  /\ request[p].kind = "redeem"
  /\ ~WithinDailyLimit(row[p].client, row[p].at, -row[p].delta)

\* The guard "points + delta >= 0" of every balance update but the one that
\* refunds an accrual
Overdraws(p) ==
  /\ request[p].kind = "refund" => KindOf(row[p].orig) = "redeem"
  /\ balance[row[p].client] + row[p].delta < 0

\* The balance row is created if missing, locked, checked and updated
AdjustBalance(p) ==
  LET c == row[p].client
  IN  /\ pc[p] = "balance" /\ Free(p, BalanceLock(c))
      /\ \/ BelowMinimum(p) /\ Refuse(p, "insufficient")
         \/ ~BelowMinimum(p) /\ OverDailyLimit(p) /\ Refuse(p, "limit")
         \/ ~BelowMinimum(p) /\ ~OverDailyLimit(p) /\ Overdraws(p) /\ Refuse(p, "insufficient")
         \/ /\ ~BelowMinimum(p) /\ ~OverDailyLimit(p) /\ ~Overdraws(p)
            /\ Acquire(p, BalanceLock(c))
            /\ row' = [row EXCEPT ![p].after = balance[c] + row[p].delta]
            /\ Goto(p, "insert")
            /\ UNCHANGED <<tables, request, invited, answer>>

\* Mutant: the index does not see a committed row.
KeyNeverTaken(p) == FALSE

KeyTaken(p) == Posted(KeyOf(request[p]))

\* INSERT INTO transactions.  The unique index makes it wait for another
\* transaction's uncommitted row with the key and fail on a committed one; the
\* rollback leaves nothing behind and the service looks for the replay.
InsertRow(p) ==
  LET k == KeyOf(request[p])
  IN  /\ pc[p] = "insert" /\ Free(p, KeyLock(k))
      /\ \/ /\ KeyTaken(p)
            /\ held' = [held EXCEPT ![p] = {}]
            /\ Goto(p, "check")
            /\ UNCHANGED <<tables, request, row, invited, answer>>
         \/ /\ ~KeyTaken(p)
            /\ Acquire(p, KeyLock(k))
            /\ Goto(p, "outbox")
            /\ UNCHANGED <<tables, request, row, invited, answer>>

\* Only an accrual registers clients and invites them to the app.
Notices(p) ==
  NoticesFor(KeyOf(request[p]), row[p].delta)
    \cup InvitesFor(row[p].client, request[p].kind = "accrual" /\ invited[p])

\* Mutant: the entries are written outside the posting transaction.
QueueNoticesAtOnce(p) ==
  /\ pc[p] = "outbox"
  /\ outbox' = outbox \cup Notices(p)
  /\ Goto(p, "commit")
  /\ UNCHANGED <<clients, rules, balance, txs, refunded, journal, now>>
  /\ UNCHANGED <<request, row, invited, held, answer>>

\* INSERT INTO notification_outbox ... ON CONFLICT (dedupe_key) DO NOTHING waits
\* for another transaction's uncommitted entry with the key
QueueNotices(p) ==
  /\ pc[p] = "outbox"
  /\ Acquire(p, DedupeLock(Notices(p) \ outbox))
  /\ Goto(p, "commit")
  /\ UNCHANGED <<tables, request, row, invited, answer>>

\* The commit may succeed and its answer be lost
CommitPosting(p) ==
  /\ pc[p] = "commit"
  /\ Commit(KeyOf(request[p]), row[p], Notices(p))
  /\ \E a \in {Result(row[p]), Refused("error")} : Finish(p, a)

Fail(p) == pc[p] \in Service \cup Statement /\ Refuse(p, "error")

-------------------------------------------------------------------------------
Step(p) ==
  \/ ResolveTyped(p) \/ ResolveAccrual(p) \/ ResolveRedeem(p)
  \/ LoadClient(p) \/ CheckReplay(p) \/ RegisterClient(p)
  \/ PriceAccrual(p) \/ ReadRule(p) \/ ReadFunds(p)
  \/ Begin(p) \/ LockOriginal(p) \/ AdjustBalance(p)
  \/ InsertRow(p) \/ QueueNotices(p) \/ CommitPosting(p)

\* An administrator saves new rules; time passes
ChangeRules == \E s \in Store, rule \in Rules :
  Len(rules[s]) < MaxRules /\ SaveRule(s, rule) /\ UNCHANGED local

PassTime == now < MaxTime /\ Tick /\ UNCHANGED local

AllAnswered == (\A p \in Proc : pc[p] = "done") /\ UNCHANGED vars

Next ==
  \/ \E p \in Proc : Receive(p) \/ Step(p) \/ Fail(p)
  \/ ChangeRules \/ PassTime \/ AllAnswered

Spec == Init /\ [][Next]_vars

\* PostgreSQL grants a free lock and runs the next statement; nothing makes a
\* request arrive, an administrator act or a step fail.
FairSpec == Spec /\ \A p \in Proc : WF_vars(Step(p))

-------------------------------------------------------------------------------
\* What must hold of the requests

LocalTypeOK ==
  /\ pc \in [Proc -> {"idle", "done"} \cup Service \cup Statement]
  /\ request \in [Proc -> Requests \cup {None}]
  /\ row \in [Proc -> Row \cup {None}]
  /\ invited \in [Proc -> BOOLEAN]
  /\ held \in [Proc -> SUBSET Resource]
  /\ answer \in [Proc -> Answer \cup {None}]

TypeOK == TablesTypeOK /\ LocalTypeOK

\* The operation whose success was answered to p, with its amount and its client
AnswerIsRecorded(p) ==
  answer[p] # None /\ answer[p].status = "ok" =>
    LET k == KeyOf(request[p])
    IN  /\ Posted(k)
        /\ txs[k].fingerprint[2] = Stored(request[p].amount)
        /\ request[p].kind # "refund" => txs[k].client = request[p].client
        /\ answer[p].points = txs[k].delta /\ answer[p].balance = txs[k].after

\* A success answered to the till is recorded, and it is the recorded operation
\* of the same fingerprint that was answered, whether it was this request or an
\* earlier delivery that recorded it.
AnswersAreRecorded == \A p \in Proc : AnswerIsRecorded(p)

\* No two transactions hold the same lock.
LocksAreExclusive == \A p, q \in Proc : p # q => held[p] \cap held[q] = {}

\* The refund's original, its share of the points and its totals
RefundIsPriced(w, r) ==
  /\ w.cum = refunded[w.orig].amount + r.amount
  /\ w.cum <= txs[w.orig].amount
  /\ w.full = (w.cum = txs[w.orig].amount)
  /\ w.delta = RefundDelta(w.orig, w.cum)

\* The row w that request r builds says, at label l, what was asked and what has
\* been read since: reads that later commits cannot make wrong, because clients
\* and versions of the rules are never removed and recorded rows never change.
AccrualFollows(l, r, w) ==
  /\ l \in {"check", "register", "rule", "begin"} \cup (Statement \ {"original"})
  /\ l \notin {"check", "register"} => r.client \in clients
  /\ l \notin {"check", "register", "rule"} =>
       /\ w.rule \in 0..Len(rules[r.store])
       /\ w.delta = IF w.rule = 0 THEN 0 ELSE Earned(rules[r.store][w.rule], r.amount)

RedeemFollows(l, r, w) ==
  /\ l \in {"client", "check", "rule", "funds", "begin"} \cup (Statement \ {"original"})
  /\ l # "client" => r.client \in clients /\ StoreOf[r.client] = r.store
  /\ l \notin {"client", "check", "rule"} => w.rule \in 1..Len(rules[r.store])
  /\ l \notin {"client", "check", "rule", "funds"} =>
       /\ w.delta = -Capped(rules[r.store][w.rule], r.amount, r.points)
       /\ w.delta < 0

RefundFollows(l, r, w) ==
  /\ l \in {"resolve", "resolve redeem", "check", "begin"} \cup Statement
  /\ w.rule = 0
  /\ l = "resolve redeem" =>
       r.origType = "any" /\ (w.orig # None => w.orig \in Originals(r) /\ Posted(w.orig))
  /\ l \notin {"resolve", "resolve redeem"} =>
       /\ w.orig \in Originals(r) /\ Posted(w.orig)
       /\ w.client = txs[w.orig].client /\ w.fingerprint = Fingerprint(r, w.orig)

\* Accruals and redemptions leave the columns of a refund empty.
NotARefund(r, w) ==
  /\ w.client = r.client /\ w.fingerprint = Fingerprint(r, None)
  /\ w.orig = None /\ w.cum = 0 /\ ~w.full

Follows(l, r, w) ==
  /\ w.amount = r.amount /\ w.at <= now
  /\ r.kind = "accrual" => NotARefund(r, w) /\ AccrualFollows(l, r, w)
  /\ r.kind = "redeem" => NotARefund(r, w) /\ RedeemFollows(l, r, w)
  /\ r.kind = "refund" => RefundFollows(l, r, w)

RowFollowsRequest(p) ==
  request[p] # None /\ row[p] # None /\ Follows(pc[p], request[p], row[p])

\* What the posting transaction has checked and computed still holds of the
\* tables when it commits, because the locks it holds protect what it read.
ChecksStillHold(p) ==
  LET r == request[p]
      w == row[p]
      b == balance[w.client]
  IN  /\ pc[p] \in {"balance", "insert", "outbox", "commit"} /\ r.kind = "refund" =>
           OriginalLock(w.orig) \subseteq held[p] /\ RefundIsPriced(w, r)
      /\ pc[p] \in {"insert", "outbox", "commit"} =>
           /\ BalanceLock(w.client) \subseteq held[p]
           /\ w.after = b + w.delta
           /\ ~BelowMinimum(p) /\ ~OverDailyLimit(p) /\ ~Overdraws(p)
      /\ pc[p] \in {"outbox", "commit"} =>
           KeyLock(KeyOf(r)) \subseteq held[p] /\ ~Posted(KeyOf(r))

\* The invariant from which LedgerProofs proves that Ledger implements
\* AtomicLedger.
CommitsAreCurrent ==
  /\ LocksAreExclusive
  /\ \A p \in Proc : pc[p] \in Service \cup Statement =>
       RowFollowsRequest(p) /\ ChecksStillHold(p)

\* Every request is answered: no cycle of waits, no lock kept by a request that
\* has ended.
EveryRequestAnswered == \A p \in Proc : pc[p] # "idle" ~> pc[p] = "done"

\* Each statement-level behaviour is a behaviour of the atomic ledger.
ImplementsAtomicLedger == AtomicSpec
===============================================================================
