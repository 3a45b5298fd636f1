----------------------------- MODULE LedgerProofs -----------------------------
(***************************************************************************)
(* Ledger implements AtomicLedger.  The inductive invariant is TypeOK with *)
(* CommitsAreCurrent: locks are exclusive, and what a request has read and *)
(* checked is either kept true by a lock it holds or cannot become false.  *)
(* At the commit the invariant says that the checks hold in the very state *)
(* the commit changes, which is what the atomic operation asks for.        *)
(***************************************************************************)
EXTENDS Ledger, AtomicLedgerProofs

LedgerInvariant == TypeOK /\ CommitsAreCurrent

Live(p) == pc[p] \in Service \cup Statement

\* The part of the invariant that speaks of one request
Current(p) == Live(p) => RowFollowsRequest(p) /\ ChecksStillHold(p)

\* Another process's step leaves this one's state alone.
Untouched(q) ==
  pc'[q] = pc[q] /\ request'[q] = request[q] /\ row'[q] = row[q] /\ held'[q] = held[q]

\* Clients, versions of the rules and time only grow; recorded rows stay.
Growth ==
  /\ clients \subseteq clients' /\ now <= now'
  /\ \A s \in Store : /\ Len(rules[s]) <= Len(rules'[s])
                      /\ \A n \in 1..Len(rules[s]) : rules'[s][n] = rules[s][n]
  /\ \A k \in Key : Posted(k) => txs'[k] = txs[k]

\* What the locks of request q protect is the same after a step.
Protected(q) ==
  /\ \A k \in Key : OriginalLock(k) \subseteq held[q] => refunded'[k] = refunded[k]
  /\ \A k \in Key : KeyLock(k) \subseteq held[q] => txs'[k] = txs[k]
  /\ \A c \in Client : BalanceLock(c) \subseteq held[q] =>
       balance'[c] = balance[c] /\ \A t \in Nat : RedeemedSince(c, t)' = RedeemedSince(c, t)

-------------------------------------------------------------------------------
\* A live request is one of the requests and builds a row.
LEMMA LiveIsTyped ==
  ASSUME TypeOK, NEW p \in Proc, RowFollowsRequest(p)
  PROVE  /\ request[p] \in Requests /\ request[p] \in Request /\ row[p] \in Row
         /\ KeyOf(request[p]) \in Key /\ KindOf(KeyOf(request[p])) = request[p].kind
         /\ request[p].kind \in Kind /\ request[p].store \in Store
         /\ request[p].client \in Client /\ request[p].amount \in Nat
<1>1. request[p] \in Requests /\ row[p] \in Row
  BY DEF TypeOK, LocalTypeOK, RowFollowsRequest
<1> QED BY <1>1, KeyOfRequest DEF Request, Kind

\* A refund's original is a recorded accrual or redemption.
LEMMA OriginalIsKey ==
  ASSUME NEW r \in Requests, NEW k \in Originals(r)
  PROVE  k \in Key /\ KindOf(k) \in {"accrual", "redeem"}
<1>1. PICK t \in {"accrual", "redeem"} : k = <<r.store, t, r.origExt>>
  BY KeyOfRequest DEF Originals, Request
<1> QED BY <1>1, KeyOfRequest DEF Request, Key, Kind, KindOf

\* The sum of a client's redemptions depends on the rows alone.
LEMMA SameRedeemed ==
  ASSUME UNCHANGED txs
  PROVE  \A c, t : RedeemedSince(c, t)' = RedeemedSince(c, t)
  BY DEF RedeemedSince, Posted

\* What a request has read stays true.
LEMMA GrowthKeepsFollows ==
  ASSUME TablesTypeOK, TablesTypeOK', Growth,
         NEW l, NEW r \in Requests, NEW w \in Row, Follows(l, r, w)
  PROVE  Follows(l, r, w)'
<1>0. r.store \in Store /\ w.at \in Nat /\ w.rule \in Nat /\ now \in Nat /\ now' \in Nat
  BY KeyOfRequest DEF TablesTypeOK, Row, Request
<1>1. Len(rules[r.store]) \in Nat /\ Len(rules'[r.store]) \in Nat
  <2>1. rules[r.store] \in Seq(Rule) /\ rules'[r.store] \in Seq(Rule)
    BY <1>0 DEF TablesTypeOK
  <2> QED BY <2>1
<1>2. /\ clients \subseteq clients' /\ now <= now'
      /\ Len(rules[r.store]) <= Len(rules'[r.store])
      /\ \A n \in 1..Len(rules[r.store]) : rules'[r.store][n] = rules[r.store][n]
  BY <1>0 DEF Growth
<1>3. w.at <= now'
  BY <1>0, <1>2 DEF Follows
<1>4. AccrualFollows(l, r, w) => AccrualFollows(l, r, w)'
  BY <1>0, <1>1, <1>2 DEF AccrualFollows
<1>5. RedeemFollows(l, r, w) => RedeemFollows(l, r, w)'
  BY <1>0, <1>1, <1>2 DEF RedeemFollows
<1>6. ASSUME w.orig \in Originals(r), Posted(w.orig)
      PROVE  Posted(w.orig)' /\ txs'[w.orig] = txs[w.orig]
  BY <1>6, OriginalIsKey DEF Growth, Posted
<1>7. RefundFollows(l, r, w) => RefundFollows(l, r, w)'
  BY <1>6 DEF RefundFollows
<1> QED BY <1>3, <1>4, <1>5, <1>7 DEF Follows, NotARefund

\* What a transaction has checked stays true of what its locks protect.
LEMMA ProtectedKeepsCurrent ==
  ASSUME TypeOK, TablesTypeOK', Growth, NEW q \in Proc, Untouched(q), Protected(q), Current(q)
  PROVE  Current(q)'
<1> SUFFICES ASSUME Live(q)
             PROVE  RowFollowsRequest(q)' /\ ChecksStillHold(q)'
  BY DEF Current, Live, Untouched
<1>1. RowFollowsRequest(q) /\ ChecksStillHold(q) /\ TablesTypeOK
  BY DEF Current, TypeOK
<1>r. PICK r \in Requests : r = request[q]
  BY <1>1 DEF RowFollowsRequest, TypeOK, LocalTypeOK
<1>w. PICK w \in Row : w = row[q]
  BY <1>1 DEF RowFollowsRequest, TypeOK, LocalTypeOK
<1>l. PICK l \in Service \cup Statement : l = pc[q]
  BY DEF Live
<1>2. w.client \in Client /\ w.at \in Nat /\ KeyOf(r) \in Key /\ r.store \in Store
  BY KeyOfRequest DEF Row, Request
<1>3. request'[q] = r /\ row'[q] = w /\ pc'[q] = l /\ held'[q] = held[q]
  BY <1>r, <1>w, <1>l DEF Untouched
<1>4. Follows(l, r, w)
  BY <1>1, <1>r, <1>w, <1>l DEF RowFollowsRequest
<1>5. Follows(l, r, w)'
  BY <1>1, <1>4, GrowthKeepsFollows
<1>6. RowFollowsRequest(q)'
  BY <1>1, <1>3, <1>5, <1>r, <1>w DEF RowFollowsRequest
<1>7. ASSUME r.kind = "refund", l \in {"balance", "insert", "outbox", "commit"}
      PROVE  OriginalLock(w.orig) \subseteq held[q] /\ RefundIsPriced(w, r)'
  <2>1. OriginalLock(w.orig) \subseteq held[q] /\ RefundIsPriced(w, r)
    BY <1>1, <1>7, <1>r, <1>w, <1>l DEF ChecksStillHold
  <2>2. w.orig \in Key /\ Posted(w.orig)
    BY <1>4, <1>7, OriginalIsKey DEF Follows, RefundFollows
  <2>3. refunded'[w.orig] = refunded[w.orig] /\ txs'[w.orig] = txs[w.orig]
    BY <2>1, <2>2, <1>w DEF Growth, Protected
  <2> QED BY <2>1, <2>3 DEF RefundIsPriced, RefundDelta, ReversedAt
<1>8. ASSUME l \in {"insert", "outbox", "commit"}
      PROVE  /\ BalanceLock(w.client) \subseteq held[q]
             /\ w.after = balance'[w.client] + w.delta
             /\ (~BelowMinimum(q) /\ ~OverDailyLimit(q) /\ ~Overdraws(q))'
  <2>1. /\ BalanceLock(w.client) \subseteq held[q]
        /\ w.after = balance[w.client] + w.delta
        /\ ~BelowMinimum(q) /\ ~OverDailyLimit(q) /\ ~Overdraws(q)
    BY <1>1, <1>8, <1>r, <1>w, <1>l DEF ChecksStillHold
  <2>2. balance'[w.client] = balance[w.client]
        /\ RedeemedSince(w.client, w.at)' = RedeemedSince(w.client, w.at)
    BY <1>2, <2>1 DEF Protected
  <2>3. r.kind = "redeem" => rules'[r.store][w.rule] = rules[r.store][w.rule]
    BY <1>2, <1>4, <1>8 DEF Follows, RedeemFollows, Growth
  <2>4. ~BelowMinimum(q)'
    BY <1>3, <1>r, <1>w, <2>1, <2>2, <2>3 DEF BelowMinimum
  <2>5. ~OverDailyLimit(q)'
    BY <1>3, <1>r, <1>w, <2>1, <2>2 DEF OverDailyLimit, WithinDailyLimit
  <2>6. ~Overdraws(q)'
    BY <1>3, <1>r, <1>w, <2>1, <2>2 DEF Overdraws
  <2> QED BY <2>1, <2>2, <2>4, <2>5, <2>6
<1>9. ASSUME l \in {"outbox", "commit"}
      PROVE  KeyLock(KeyOf(r)) \subseteq held[q] /\ ~Posted(KeyOf(r))'
  BY <1>1, <1>2, <1>9, <1>r, <1>w, <1>l DEF ChecksStillHold, Protected, Posted
<1> QED BY <1>3, <1>6, <1>7, <1>8, <1>9 DEF ChecksStillHold
-------------------------------------------------------------------------------
\* Two transactions never hold the same lock.
LEMMA LocksDiffer ==
  ASSUME LocksAreExclusive, NEW p \in Proc, NEW q \in Proc, p # q
  PROVE  /\ \A j, k : OriginalLock(j) \subseteq held[p] /\ OriginalLock(k) \subseteq held[q] => j # k
         /\ \A j, k : KeyLock(j) \subseteq held[p] /\ KeyLock(k) \subseteq held[q] => j # k
         /\ \A c, d : BalanceLock(c) \subseteq held[p] /\ BalanceLock(d) \subseteq held[q] => c # d
  BY DEF LocksAreExclusive, OriginalLock, KeyLock, BalanceLock

\* A commit changes only what its own locks protect.
LEMMA CommitProtects ==
  ASSUME LedgerInvariant, NEW p \in Proc, NEW q \in Proc, p # q, CommitPosting(p)
  PROVE  Growth /\ Protected(q)
<1>1. TypeOK /\ LocksAreExclusive /\ RowFollowsRequest(p) /\ ChecksStillHold(p) /\ pc[p] = "commit"
  BY DEF LedgerInvariant, CommitsAreCurrent, CommitPosting, Statement
<1>k. PICK k \in Key : k = KeyOf(request[p])
  BY <1>1, LiveIsTyped
<1>w. PICK w \in Row : w = row[p]
  BY <1>1, LiveIsTyped
<1>n. PICK notices : notices = Notices(p)
  OBVIOUS
<1>2. Commit(k, w, notices)
  BY <1>k, <1>w, <1>n DEF CommitPosting
<1>3. /\ ~Posted(k) /\ KeyLock(k) \subseteq held[p] /\ BalanceLock(w.client) \subseteq held[p]
      /\ KindOf(k) = "refund" => OriginalLock(w.orig) \subseteq held[p]
  BY <1>1, <1>k, <1>w, LiveIsTyped DEF ChecksStillHold
<1>4. TablesTypeOK
  BY <1>1 DEF TypeOK
<1>5. clients' = clients /\ rules' = rules /\ now' = now
  BY <1>2 DEF Commit
<1>6. \A j \in Key : j # k => txs'[j] = txs[j]
  BY <1>2, <1>4 DEF Commit, TablesTypeOK
<1>7. Growth
  <2>1. now \in Int /\ \A s \in Store : Len(rules[s]) \in Int
    BY <1>4 DEF TablesTypeOK
  <2> QED BY <1>3, <1>5, <1>6, <2>1 DEF Growth
<1>8. ASSUME NEW j \in Key, OriginalLock(j) \subseteq held[q]
      PROVE  refunded'[j] = refunded[j]
  <2>1. KindOf(k) = "refund" => j # w.orig
    BY <1>1, <1>3, <1>8, LocksDiffer
  <2> QED BY <1>2, <1>4, <2>1 DEF Commit, TablesTypeOK
<1>9. ASSUME NEW j \in Key, KeyLock(j) \subseteq held[q]
      PROVE  txs'[j] = txs[j]
  <2>1. j # k
    BY <1>1, <1>3, <1>9, LocksDiffer
  <2> QED BY <1>6, <2>1
<1>10. ASSUME NEW c \in Client, BalanceLock(c) \subseteq held[q]
       PROVE  balance'[c] = balance[c] /\ \A t \in Nat : RedeemedSince(c, t)' = RedeemedSince(c, t)
  <2>1. c # w.client
    BY <1>1, <1>3, <1>10, LocksDiffer
  <2>2. balance'[c] = balance[c]
    BY <1>2, <1>4, <2>1 DEF Commit, TablesTypeOK
  <2>3. ASSUME NEW t \in Nat
        PROVE  RedeemedSince(c, t)' = RedeemedSince(c, t)
    <3>1. txs'[k] # None => txs'[k].client # c
      BY <1>2, <1>4, <2>1 DEF Commit, TablesTypeOK, Row
    <3> DEFINE recent == {j \in Key : /\ txs[j] # None /\ KindOf(j) = "redeem"
                                      /\ txs[j].client = c /\ txs[j].at > t - Window}
               later == {j \in Key : /\ txs'[j] # None /\ KindOf(j) = "redeem"
                                     /\ txs'[j].client = c /\ txs'[j].at > t - Window}
    <3>2. recent = later
      BY <1>3, <1>6, <3>1 DEF Posted
    <3>3. \A j \in recent : txs'[j] = txs[j]
      BY <1>3, <1>6 DEF Posted
    <3>4. [j \in recent |-> -txs[j].delta] = [j \in later |-> -txs'[j].delta]
      BY <3>2, <3>3
    <3> QED BY <3>4 DEF RedeemedSince, Posted
  <2> QED BY <2>2, <2>3
<1> QED BY <1>7, <1>8, <1>9, <1>10 DEF Protected
-------------------------------------------------------------------------------
\* What a step of request p keeps: its own part of the invariant, and the rest.
Carried(p) ==
  /\ LocalTypeOK' /\ LocksAreExclusive' /\ Current(p)'
  /\ \A q \in Proc \ {p} : Untouched(q)

\* With the same tables the row follows the request as before.
LEMMA SameFollows ==
  ASSUME UNCHANGED tables, NEW l, NEW r, NEW w
  PROVE  Follows(l, r, w)' <=> Follows(l, r, w)
  BY DEF tables, Follows, NotARefund, AccrualFollows, RedeemFollows, RefundFollows, Posted

\* Every answer is well typed.
LEMMA AnswersAreTyped ==
  /\ \A status \in Status : Refused(status) \in Answer
  /\ \A w \in Row : Result(w) \in Answer /\ Replayed(w) \in Answer
<1>1. \A status \in Status : Refused(status) \in Answer
  BY DEF Refused, Answer
<1>2. ASSUME NEW w \in Row
      PROVE  Result(w) \in Answer /\ Replayed(w) \in Answer
  <2>1. w.delta \in Int /\ w.after \in Int /\ w.cum \in Nat /\ w.full \in BOOLEAN
    BY DEF Row
  <2>2. Result(w) \in Answer
    BY <2>1 DEF Result, Answer, Status
  <2>3. Replayed(w) \in Answer
    BY <2>1 DEF Replayed, Result, Answer, Status
  <2> QED BY <2>2, <2>3
<1> QED BY <1>1, <1>2

\* An answered request holds nothing and says nothing more.
LEMMA FinishCarries ==
  ASSUME LedgerInvariant, NEW p \in Proc, NEW a \in Answer, Finish(p, a)
  PROVE  Carried(p)
<1>1. TypeOK /\ LocalTypeOK /\ LocksAreExclusive
  BY DEF LedgerInvariant, TypeOK, CommitsAreCurrent
<1>2. /\ pc' = [pc EXCEPT ![p] = "done"] /\ answer' = [answer EXCEPT ![p] = a]
      /\ held' = [held EXCEPT ![p] = {}] /\ row' = [row EXCEPT ![p] = None]
      /\ invited' = [invited EXCEPT ![p] = FALSE] /\ request' = request
  BY DEF Finish, Goto
<1>3. LocalTypeOK'
  BY <1>1, <1>2 DEF LocalTypeOK
<1>4. LocksAreExclusive'
  BY <1>1, <1>2 DEF LocalTypeOK, LocksAreExclusive
<1>5. \A q \in Proc \ {p} : Untouched(q)
  BY <1>1, <1>2 DEF LocalTypeOK, Untouched
<1>6. ~Live(p)'
  BY <1>1, <1>2 DEF LocalTypeOK, Live, Service, Statement
<1> QED BY <1>3, <1>4, <1>5, <1>6 DEF Carried, Current

\* A refusal changes no table and releases the request's locks.
LEMMA RefuseCarries ==
  ASSUME LedgerInvariant, NEW p \in Proc, NEW status \in Status, Refuse(p, status)
  PROVE  Carried(p) /\ UNCHANGED tables
  BY FinishCarries, AnswersAreTyped DEF Refuse

\* A request that goes on to label l builds row w and holds the locks h.
LEMMA Continues ==
  ASSUME LedgerInvariant, NEW p \in Proc, NEW l \in Service \cup Statement, NEW w \in Row,
         NEW h \in SUBSET Resource, \A q \in Proc \ {p} : held[q] \cap h = {},
         request[p] # None,
         pc' = [pc EXCEPT ![p] = l], row' = [row EXCEPT ![p] = w],
         held' = [held EXCEPT ![p] = h], UNCHANGED <<request, answer>>,
         invited' \in [Proc -> BOOLEAN],
         \A r \in Requests : r = request[p] => Follows(l, r, w)'
  PROVE  /\ LocalTypeOK' /\ LocksAreExclusive' /\ RowFollowsRequest(p)'
         /\ \A q \in Proc \ {p} : Untouched(q)
         /\ pc'[p] = l /\ row'[p] = w /\ request'[p] = request[p] /\ held'[p] = h
<1>1. LocalTypeOK /\ LocksAreExclusive
  BY DEF LedgerInvariant, TypeOK, CommitsAreCurrent
<1>2. LocalTypeOK'
  BY <1>1 DEF LocalTypeOK
<1>3. LocksAreExclusive'
  BY <1>1 DEF LocalTypeOK, LocksAreExclusive
<1>4. pc'[p] = l /\ row'[p] = w /\ request'[p] = request[p] /\ held'[p] = h
  BY <1>1 DEF LocalTypeOK
<1>5. PICK r \in Requests : r = request[p]
  BY <1>1 DEF LocalTypeOK
<1>6. Follows(l, r, w)' /\ w # None
  BY <1>5, TablesAssumption
<1>7. RowFollowsRequest(p)'
  BY <1>4, <1>5, <1>6 DEF RowFollowsRequest
<1>8. \A q \in Proc \ {p} : Untouched(q)
  BY <1>1 DEF LocalTypeOK, Untouched
<1> QED BY <1>2, <1>3, <1>4, <1>7, <1>8

\* ... with nothing more locked or checked yet
LEMMA ContinuesUnchecked ==
  ASSUME LedgerInvariant, NEW p \in Proc, NEW l \in Service \cup Statement, NEW w \in Row,
         NEW r \in Requests, r = request[p], Follows(l, r, w),
         l \notin {"balance", "insert", "outbox", "commit"} \/ (l = "balance" /\ r.kind # "refund"),
         pc' = [pc EXCEPT ![p] = l], row' = [row EXCEPT ![p] = w],
         UNCHANGED <<tables, request, invited, held, answer>>
  PROVE  Carried(p)
<1>1. LocalTypeOK /\ LocksAreExclusive
  BY DEF LedgerInvariant, TypeOK, CommitsAreCurrent
<1>h. PICK h \in SUBSET Resource : h = held[p]
  BY <1>1 DEF LocalTypeOK
<1>2. held' = [held EXCEPT ![p] = h] /\ \A q \in Proc \ {p} : held[q] \cap h = {}
  BY <1>1, <1>h DEF LocalTypeOK, LocksAreExclusive
<1>3. \A s \in Requests : s = request[p] => Follows(l, s, w)'
  BY SameFollows
<1>4. request[p] # None /\ invited' \in [Proc -> BOOLEAN]
  <2>1. r # None
    BY TablesAssumption, KeyOfRequest DEF Request
  <2> QED BY <1>1, <2>1 DEF LocalTypeOK
<1>5. /\ LocalTypeOK' /\ LocksAreExclusive' /\ RowFollowsRequest(p)'
      /\ \A q \in Proc \ {p} : Untouched(q)
      /\ pc'[p] = l /\ request'[p] = request[p]
  BY <1>2, <1>3, <1>4, Continues
<1>6. ChecksStillHold(p)'
  BY <1>5 DEF ChecksStillHold
<1> QED BY <1>5, <1>6 DEF Carried, Current

\* A live request is one of the requests and builds a row that follows it.
LEMMA LiveFollows ==
  ASSUME LedgerInvariant, NEW p \in Proc, Live(p)
  PROVE  /\ request[p] \in Requests /\ row[p] \in Row /\ Follows(pc[p], request[p], row[p])
         /\ ChecksStillHold(p) /\ TypeOK /\ TablesTypeOK /\ LocalTypeOK /\ LocksAreExclusive
<1>1. TypeOK /\ RowFollowsRequest(p) /\ ChecksStillHold(p) /\ LocksAreExclusive
  BY DEF LedgerInvariant, CommitsAreCurrent, Live
<1> QED BY <1>1, LiveIsTyped DEF TypeOK, RowFollowsRequest

-------------------------------------------------------------------------------
\* The service's steps

\* A request that arrives starts from the draft of its row.
LEMMA ReceiveCarries ==
  ASSUME LedgerInvariant, NEW p \in Proc, Receive(p)
  PROVE  Carried(p) /\ UNCHANGED tables
<1>1. PICK r \in Requests :
        /\ request' = [request EXCEPT ![p] = r]
        /\ row' = [row EXCEPT ![p] = Draft(r)]
        /\ Goto(p, CASE r.kind = "accrual" -> "check"
                     [] r.kind = "redeem"  -> "client"
                     [] r.kind = "refund"  -> "resolve")
  BY DEF Receive
<1>2. UNCHANGED <<tables, invited, held, answer>>
  BY DEF Receive
<1>t. TablesTypeOK /\ LocalTypeOK /\ LocksAreExclusive
  BY DEF LedgerInvariant, TypeOK, CommitsAreCurrent
<1>3. PICK l \in Service \cup Statement :
        /\ pc' = [pc EXCEPT ![p] = l] /\ l \in {"check", "client", "resolve"}
        /\ r.kind = "accrual" => l = "check"
        /\ r.kind = "redeem" => l = "client"
        /\ r.kind = "refund" => l = "resolve"
  BY <1>1, KeyOfRequest DEF Goto, Request, Kind, Service
<1>4. Draft(r) \in Row /\ Draft(r) # None /\ r # None
  BY DraftIsRow, TablesAssumption
<1>5. Follows(l, r, Draft(r))
  <2>1. now \in Nat
    BY <1>t DEF TablesTypeOK
  <2> DEFINE w == Draft(r)
  <2>2. w.amount = r.amount /\ w.at = 0 /\ w.rule = 0 /\ NotARefund(r, w)
    BY DEF Draft, NotARefund
  <2> HIDE DEF w
  <2>3. r.kind = "accrual" => AccrualFollows(l, r, w)
    BY <1>3 DEF AccrualFollows
  <2>4. r.kind = "redeem" => RedeemFollows(l, r, w)
    BY <1>3 DEF RedeemFollows
  <2>5. r.kind = "refund" => RefundFollows(l, r, w)
    BY <1>3, <2>2 DEF RefundFollows
  <2>6. Follows(l, r, w)
    BY <2>1, <2>2, <2>3, <2>4, <2>5 DEF Follows
  <2> QED BY <2>6 DEF w
<1>6. LocalTypeOK' /\ LocksAreExclusive' /\ \A q \in Proc \ {p} : Untouched(q)
  BY <1>1, <1>2, <1>3, <1>4, <1>t DEF LocalTypeOK, LocksAreExclusive, Untouched
<1>7. pc'[p] = l /\ request'[p] = r /\ row'[p] = Draft(r)
  BY <1>1, <1>3, <1>t DEF LocalTypeOK
<1>8. Follows(l, r, Draft(r))'
  BY <1>2, <1>5, SameFollows
<1>9. RowFollowsRequest(p)' /\ ChecksStillHold(p)'
  BY <1>3, <1>4, <1>7, <1>8 DEF RowFollowsRequest, ChecksStillHold
<1> QED BY <1>2, <1>6, <1>9 DEF Carried, Current

\* A failed step is a refusal.
LEMMA FailCarries ==
  ASSUME LedgerInvariant, NEW p \in Proc, Fail(p)
  PROVE  Carried(p) /\ UNCHANGED tables
  BY RefuseCarries DEF Fail, Status

\* Resolving the original gives the refund a posted row to reverse.
LEMMA RefundOfCarries ==
  ASSUME LedgerInvariant, NEW p \in Proc, pc[p] \in {"resolve", "resolve redeem"},
         NEW k \in Key, k \in Originals(request[p]), Posted(k), RefundOf(p, k)
  PROVE  Carried(p) /\ UNCHANGED tables
<1>1. Live(p)
  BY DEF Live, Service
<1>r. PICK r \in Requests : r = request[p]
  BY <1>1, LiveFollows
<1>v. PICK v \in Row : v = row[p]
  BY <1>1, LiveFollows
<1>2. Follows(pc[p], r, v) /\ TablesTypeOK /\ LocalTypeOK
  BY <1>1, <1>r, <1>v, LiveFollows
<1>3. r.kind = "refund" /\ v.rule = 0
  BY <1>2, KeyOfRequest DEF Follows, AccrualFollows, RedeemFollows, RefundFollows, Request, Kind, Statement
<1>4. txs[k].client \in Client
  BY <1>2, PostedRow DEF Row
<1>5. Fingerprint(r, k) \in (Client \cup Key \cup {None}) \X Nat \X Nat
  BY <1>3, StoredIsNat, KeyOfRequest DEF Fingerprint
<1> DEFINE w == [v EXCEPT !.orig = k, !.client = txs[k].client, !.fingerprint = Fingerprint(r, k)]
<1>6. w \in Row /\ w.rule = 0 /\ w.orig = k /\ w.client = txs[k].client
      /\ w.fingerprint = Fingerprint(r, k) /\ w.amount = v.amount /\ w.at = v.at
  BY <1>3, <1>4, <1>5 DEF Row
<1>7. row' = [row EXCEPT ![p] = w]
  BY <1>r, <1>v, <1>2 DEF RefundOf, LocalTypeOK
<1> HIDE DEF w
<1>8. Follows("check", r, w)
  BY <1>2, <1>3, <1>6, <1>r DEF Follows, RefundFollows
<1>9. pc' = [pc EXCEPT ![p] = "check"] /\ UNCHANGED <<tables, request, invited, held, answer>>
  BY DEF RefundOf, Goto
<1> PICK u \in Row : u = w
  BY <1>6
<1>10. row' = [row EXCEPT ![p] = u] /\ Follows("check", r, u) /\ "check" \in Service \cup Statement
  BY <1>7, <1>8 DEF Service
<1> QED BY <1>9, <1>10, <1>r, ContinuesUnchecked

\* A live request's own facts, for a step that starts at label l
LEMMA LiveAt ==
  ASSUME LedgerInvariant, NEW p \in Proc, NEW l \in Service \cup Statement, pc[p] = l
  PROVE  \E r \in Requests, v \in Row :
           /\ r = request[p] /\ v = row[p] /\ Follows(l, r, v) /\ KeyOf(r) \in Key
           /\ r \in Request /\ r.kind \in Kind /\ KindOf(KeyOf(r)) = r.kind
           /\ TablesTypeOK /\ LocalTypeOK /\ row = [row EXCEPT ![p] = v]
<1>1. Live(p)
  BY DEF Live
<1>2. TablesTypeOK /\ LocalTypeOK /\ request[p] \in Requests /\ row[p] \in Row
      /\ Follows(l, request[p], row[p])
  BY <1>1, LiveFollows
<1>3. row = [row EXCEPT ![p] = row[p]]
  BY <1>2 DEF LocalTypeOK
<1>4. /\ KeyOf(request[p]) \in Key /\ request[p] \in Request /\ request[p].kind \in Kind
      /\ KindOf(KeyOf(request[p])) = request[p].kind
  BY <1>2, KeyOfRequest DEF Request
<1>5. PICK r \in Requests, v \in Row : r = request[p] /\ v = row[p]
  BY <1>2
<1>6. /\ r = request[p] /\ v = row[p] /\ Follows(l, r, v) /\ KeyOf(r) \in Key
      /\ r \in Request /\ r.kind \in Kind /\ KindOf(KeyOf(r)) = r.kind
      /\ TablesTypeOK /\ LocalTypeOK /\ row = [row EXCEPT ![p] = v]
  BY <1>2, <1>3, <1>4, <1>5
<1> QED BY <1>6

\* The three steps of resolveOriginalTransaction.
LEMMA ResolveCarries ==
  ASSUME LedgerInvariant, NEW p \in Proc,
         ResolveTyped(p) \/ ResolveAccrual(p) \/ ResolveRedeem(p)
  PROVE  Carried(p) /\ UNCHANGED tables
<1>1. PICK l \in {"resolve", "resolve redeem"} : pc[p] = l /\ l \in Service
  BY DEF ResolveTyped, ResolveAccrual, ResolveRedeem, Service
<1>2. PICK r \in Requests, v \in Row :
        r = request[p] /\ v = row[p] /\ Follows(l, r, v) /\ r \in Request /\ r.kind \in Kind
        /\ TablesTypeOK /\ LocalTypeOK
  BY <1>1, LiveAt
<1>3. r.kind = "refund" /\ RefundFollows(l, r, v)
  BY <1>1, <1>2 DEF Follows, AccrualFollows, RedeemFollows, Kind, Statement
<1>4. ASSUME NEW t \in {"accrual", "redeem"}, r.origType = t \/ r.origType = "any"
      PROVE  <<r.store, t, r.origExt>> \in Key /\ <<r.store, t, r.origExt>> \in Originals(r)
  BY <1>2, <1>4 DEF Originals, Key, Request, Kind
<1>5. ASSUME NEW status \in Status, Refuse(p, status)
      PROVE  Carried(p) /\ UNCHANGED tables
  BY <1>5, RefuseCarries
<1>6. ASSUME NEW k \in Key, k \in Originals(r), Posted(k), RefundOf(p, k)
      PROVE  Carried(p) /\ UNCHANGED tables
  BY <1>1, <1>2, <1>6, RefundOfCarries
<1>7. CASE ResolveTyped(p)
  <2>1. r.origType \in {"accrual", "redeem"}
    BY <1>2, <1>7 DEF ResolveTyped, Request
  <2>2. PICK k \in Key : k = <<r.store, r.origType, r.origExt>> /\ k \in Originals(r)
    BY <1>4, <2>1
  <2>3. (Posted(k) /\ RefundOf(p, k)) \/ Refuse(p, "notfound")
    BY <1>2, <1>7, <2>2 DEF ResolveTyped
  <2> QED BY <1>5, <1>6, <2>2, <2>3 DEF Status
<1>8. CASE ResolveRedeem(p)
  <2>1. l = "resolve redeem"
    BY <1>1, <1>8 DEF ResolveRedeem
  <2>2. v.orig # None => v.orig \in Originals(r) /\ Posted(v.orig) /\ v.orig \in Key
    BY <1>3, <2>1, OriginalIsKey DEF RefundFollows
  <2>3. r.origType = "any"
    BY <1>3, <2>1 DEF RefundFollows
  <2>4. \/ Refuse(p, "ambiguous") \/ Refuse(p, "notfound")
        \/ v.orig # None /\ RefundOf(p, v.orig)
        \/ Posted(<<r.store, "redeem", r.origExt>>) /\ RefundOf(p, <<r.store, "redeem", r.origExt>>)
    BY <1>2, <1>8 DEF ResolveRedeem
  <2> QED BY <1>4, <1>5, <1>6, <2>2, <2>3, <2>4 DEF Status
<1>9. CASE ResolveAccrual(p)
  <2>1. r.origType = "any" /\ l = "resolve"
    BY <1>1, <1>2, <1>9 DEF ResolveAccrual
  <2>2. PICK k \in Key : k = <<r.store, "accrual", r.origExt>> /\ k \in Originals(r)
    BY <1>4, <2>1
  <2>3. PICK o \in Key \cup {None} :
          o = (IF Posted(k) THEN k ELSE None) /\ (o # None => o \in Originals(r) /\ Posted(o))
    BY <2>2
  <2>4. row' = [row EXCEPT ![p].orig = o] /\ pc' = [pc EXCEPT ![p] = "resolve redeem"]
        /\ UNCHANGED <<tables, request, invited, held, answer>>
    BY <1>2, <1>9, <2>2, <2>3 DEF ResolveAccrual, Goto
  <2>5. PICK w \in Row : w = [v EXCEPT !.orig = o]
    BY DEF Row
  <2>6. row' = [row EXCEPT ![p] = w]
    BY <1>2, <2>4, <2>5 DEF LocalTypeOK
  <2>7. w.orig = o /\ w.amount = v.amount /\ w.at = v.at /\ w.rule = v.rule
    BY <2>5 DEF Row
  <2>8. Follows("resolve redeem", r, w) /\ "resolve redeem" \in Service
    BY <1>2, <1>3, <2>1, <2>3, <2>7 DEF Follows, RefundFollows, Service
  <2> QED BY <1>2, <2>4, <2>6, <2>8, ContinuesUnchecked
<1> QED BY <1>7, <1>8, <1>9

\* Redeem keeps the client only if it belongs to the store.
LEMMA LoadClientCarries ==
  ASSUME LedgerInvariant, NEW p \in Proc, LoadClient(p)
  PROVE  Carried(p) /\ UNCHANGED tables
<1>1. pc[p] = "client" /\ "client" \in Service /\ "check" \in Service
  BY DEF LoadClient, Service
<1>2. PICK r \in Requests, v \in Row :
        r = request[p] /\ v = row[p] /\ Follows("client", r, v) /\ r \in Request /\ r.kind \in Kind
        /\ row = [row EXCEPT ![p] = v]
  BY <1>1, LiveAt
<1>3. r.kind = "redeem"
  BY <1>2 DEF Follows, AccrualFollows, RefundFollows, Kind, Statement
<1>4. CASE Refuse(p, "notfound")
  BY <1>4, RefuseCarries DEF Status
<1>5. CASE ~Refuse(p, "notfound")
  <2>1. r.client \in clients /\ StoreOf[r.client] = r.store /\ pc' = [pc EXCEPT ![p] = "check"]
        /\ UNCHANGED <<tables, request, row, invited, held, answer>>
    BY <1>2, <1>5 DEF LoadClient, Goto
  <2>2. Follows("check", r, v)
    BY <1>2, <1>3, <2>1 DEF Follows, RedeemFollows
  <2>3. row' = [row EXCEPT ![p] = v]
    BY <1>2, <2>1
  <2> QED BY <1>1, <1>2, <2>1, <2>2, <2>3, ContinuesUnchecked
<1> QED BY <1>4, <1>5

\* The replay check answers, refuses or goes on unchanged.
LEMMA CheckReplayCarries ==
  ASSUME LedgerInvariant, NEW p \in Proc, CheckReplay(p)
  PROVE  Carried(p) /\ UNCHANGED tables
<1>1. pc[p] = "check" /\ {"check", "register", "rule", "begin"} \subseteq Service
  BY DEF CheckReplay, Service
<1>2. PICK r \in Requests, v \in Row :
        r = request[p] /\ v = row[p] /\ Follows("check", r, v) /\ KeyOf(r) \in Key
        /\ r.kind \in Kind /\ TablesTypeOK /\ row = [row EXCEPT ![p] = v]
  BY <1>1, LiveAt
<1>3. CASE Refuse(p, "conflict")
  BY <1>3, RefuseCarries DEF Status
<1>4. CASE Posted(KeyOf(r)) /\ Finish(p, Replayed(txs[KeyOf(r)])) /\ UNCHANGED tables
  BY <1>2, <1>4, PostedRow, AnswersAreTyped, FinishCarries
<1>5. CASE /\ UNCHANGED <<tables, request, row, invited, held, answer>>
           /\ Goto(p, CASE r.kind = "accrual" -> "register"
                        [] r.kind = "redeem"  -> "rule"
                        [] r.kind = "refund"  -> "begin")
  <2>1. PICK l \in {"register", "rule", "begin"} :
          /\ pc' = [pc EXCEPT ![p] = l]
          /\ r.kind = "accrual" => l = "register"
          /\ r.kind = "redeem" => l = "rule"
          /\ r.kind = "refund" => l = "begin"
    BY <1>2, <1>5 DEF Goto, Kind
  <2>2. r.kind = "accrual" => AccrualFollows(l, r, v)
    BY <2>1 DEF AccrualFollows
  <2>3. r.kind = "redeem" => RedeemFollows(l, r, v)
    BY <1>2, <2>1 DEF RedeemFollows, Follows
  <2>4. r.kind = "refund" => RefundFollows(l, r, v)
    BY <1>2, <2>1 DEF RefundFollows, Follows
  <2>5. Follows(l, r, v) /\ l \in Service \cup Statement
    BY <1>1, <1>2, <2>2, <2>3, <2>4 DEF Follows
  <2>6. row' = [row EXCEPT ![p] = v]
    BY <1>2, <1>5
  <2> QED BY <1>2, <1>5, <2>1, <2>5, <2>6, ContinuesUnchecked
<1> QED BY <1>2, <1>3, <1>4, <1>5 DEF CheckReplay

\* The points of an accrual come from the version read here.
LEMMA PriceAccrualCarries ==
  ASSUME LedgerInvariant, NEW p \in Proc, PriceAccrual(p)
  PROVE  Carried(p) /\ UNCHANGED tables
<1>1. pc[p] = "rule" /\ "rule" \in Service /\ "begin" \in Service
  BY DEF PriceAccrual, Service
<1>2. PICK r \in Requests, v \in Row :
        r = request[p] /\ v = row[p] /\ Follows("rule", r, v) /\ r \in Request
        /\ TablesTypeOK /\ LocalTypeOK
  BY <1>1, LiveAt
<1>3. r.kind = "accrual" /\ r.store \in Store /\ r.amount \in Nat /\ r.client \in clients
  BY <1>2 DEF PriceAccrual, Follows, AccrualFollows, Request
<1>4. rules[r.store] \in Seq(Rule)
  BY <1>2, <1>3 DEF TablesTypeOK
<1>5. PICK n \in Nat : n = Len(rules[r.store])
  BY <1>4
<1>6. PICK d \in Int : d = IF n = 0 THEN 0 ELSE Earned(rules[r.store][n], r.amount)
  <2>1. n # 0 => rules[r.store][n] \in Rule
    BY <1>4, <1>5
  <2>2. n # 0 => Earned(rules[r.store][n], r.amount) \in Nat
    BY <1>3, <2>1, EarnedIsNat
  <2> QED BY <2>2
<1>7. PICK w \in Row : w = [v EXCEPT !.rule = n, !.delta = d]
  BY DEF Row
<1>8. /\ w.rule = n /\ w.delta = d /\ w.amount = v.amount /\ w.at = v.at /\ w.client = v.client
      /\ w.fingerprint = v.fingerprint /\ w.orig = v.orig /\ w.cum = v.cum /\ w.full = v.full
  BY <1>7 DEF Row
<1>9. row' = [row EXCEPT ![p] = w] /\ pc' = [pc EXCEPT ![p] = "begin"]
      /\ UNCHANGED <<tables, request, invited, held, answer>>
  BY <1>2, <1>5, <1>6, <1>7 DEF PriceAccrual, Goto, LocalTypeOK
<1>10. AccrualFollows("begin", r, w)
  BY <1>3, <1>5, <1>6, <1>8 DEF AccrualFollows
<1>11. Follows("begin", r, w)
  BY <1>2, <1>3, <1>8, <1>10 DEF Follows, NotARefund
<1> QED BY <1>1, <1>2, <1>9, <1>11, ContinuesUnchecked

\* The version a redemption reads stays in the history.
LEMMA ReadRuleCarries ==
  ASSUME LedgerInvariant, NEW p \in Proc, ReadRule(p)
  PROVE  Carried(p) /\ UNCHANGED tables
<1>1. pc[p] = "rule" /\ "rule" \in Service /\ "funds" \in Service
  BY DEF ReadRule, Service
<1>2. PICK r \in Requests, v \in Row :
        r = request[p] /\ v = row[p] /\ Follows("rule", r, v) /\ r \in Request
        /\ TablesTypeOK /\ LocalTypeOK
  BY <1>1, LiveAt
<1>3. r.kind = "redeem" /\ r.store \in Store
  BY <1>2 DEF ReadRule, Request
<1>4. rules[r.store] \in Seq(Rule)
  BY <1>2, <1>3 DEF TablesTypeOK
<1>5. PICK n \in Nat : n = Len(rules[r.store])
  BY <1>4
<1>6. CASE Refuse(p, "insufficient")
  BY <1>6, RefuseCarries DEF Status
<1>7. CASE ~Refuse(p, "insufficient")
  <2>1. PICK w \in Row : w = [v EXCEPT !.rule = n]
    BY DEF Row
  <2>2. /\ w.rule = n /\ w.amount = v.amount /\ w.at = v.at /\ w.client = v.client
        /\ w.fingerprint = v.fingerprint /\ w.orig = v.orig /\ w.cum = v.cum /\ w.full = v.full
    BY <2>1 DEF Row
  <2>3. n > 0 /\ row' = [row EXCEPT ![p] = w] /\ pc' = [pc EXCEPT ![p] = "funds"]
        /\ UNCHANGED <<tables, request, invited, held, answer>>
    BY <1>2, <1>5, <1>7, <2>1 DEF ReadRule, Goto, LocalTypeOK
  <2>4. RedeemFollows("funds", r, w)
    BY <1>2, <1>3, <1>5, <2>2, <2>3 DEF RedeemFollows, Follows
  <2>5. Follows("funds", r, w)
    BY <1>2, <1>3, <2>2, <2>4 DEF Follows, NotARefund
  <2> QED BY <1>1, <1>2, <2>3, <2>5, ContinuesUnchecked
<1> QED BY <1>6, <1>7

\* The points of a redemption are capped and positive from here on.
LEMMA ReadFundsCarries ==
  ASSUME LedgerInvariant, NEW p \in Proc, ReadFunds(p)
  PROVE  Carried(p) /\ UNCHANGED tables
<1>1. pc[p] = "funds" /\ "funds" \in Service /\ "begin" \in Service
  BY DEF ReadFunds, Service
<1>2. PICK r \in Requests, v \in Row :
        r = request[p] /\ v = row[p] /\ Follows("funds", r, v) /\ r \in Request /\ r.kind \in Kind
        /\ TablesTypeOK /\ LocalTypeOK
  BY <1>1, LiveAt
<1>3. r.kind = "redeem" /\ r.store \in Store /\ r.amount \in Nat /\ r.points \in Nat
  BY <1>2 DEF Follows, AccrualFollows, RefundFollows, Kind, Statement, Request
<1>4. v.rule \in 1..Len(rules[r.store])
  BY <1>2, <1>3 DEF Follows, RedeemFollows
<1>5. rules[r.store] \in Seq(Rule) /\ rules[r.store][v.rule] \in Rule
  BY <1>2, <1>3, <1>4 DEF TablesTypeOK
<1>6. PICK n \in Nat : n = Capped(rules[r.store][v.rule], r.amount, r.points)
  BY <1>3, <1>5, CappedIsCapped
<1>7. CASE Refuse(p, "insufficient")
  BY <1>7, RefuseCarries DEF Status
<1>8. CASE ~Refuse(p, "insufficient")
  <2>0. PICK d \in Int : d = -n
    OBVIOUS
  <2>1. PICK w \in Row : w = [v EXCEPT !.delta = d]
    BY DEF Row
  <2>2. /\ w.delta = d /\ w.amount = v.amount /\ w.at = v.at /\ w.client = v.client
        /\ w.fingerprint = v.fingerprint /\ w.orig = v.orig /\ w.cum = v.cum /\ w.full = v.full
        /\ w.rule = v.rule
    BY <2>1 DEF Row
  <2>3. n > 0 /\ row' = [row EXCEPT ![p] = w] /\ pc' = [pc EXCEPT ![p] = "begin"]
        /\ UNCHANGED <<tables, request, invited, held, answer>>
    BY <1>2, <1>6, <1>8, <2>0, <2>1 DEF ReadFunds, Goto, LocalTypeOK
  <2>4. RedeemFollows("begin", r, w)
    BY <1>2, <1>3, <1>4, <1>6, <2>0, <2>2, <2>3 DEF RedeemFollows, Follows
  <2>5. Follows("begin", r, w)
    BY <1>2, <1>3, <2>2, <2>4 DEF Follows, NotARefund
  <2> QED BY <1>1, <1>2, <2>3, <2>5, ContinuesUnchecked
<1> QED BY <1>7, <1>8

\* The row is dated by the clock at the start of its transaction.
LEMMA BeginCarries ==
  ASSUME LedgerInvariant, NEW p \in Proc, Begin(p)
  PROVE  Carried(p) /\ UNCHANGED tables
<1>1. pc[p] = "begin" /\ "begin" \in Service /\ {"original", "balance"} \subseteq Statement
  BY DEF Begin, Service, Statement
<1>2. PICK r \in Requests, v \in Row :
        r = request[p] /\ v = row[p] /\ Follows("begin", r, v) /\ r.kind \in Kind
        /\ TablesTypeOK /\ LocalTypeOK
  BY <1>1, LiveAt
<1>3. PICK l \in {"original", "balance"} : l = IF r.kind = "refund" THEN "original" ELSE "balance"
  OBVIOUS
<1>4. PICK t \in Nat : t = now
  BY <1>2 DEF TablesTypeOK
<1>5. PICK w \in Row : w = [v EXCEPT !.at = t]
  BY DEF Row
<1>6. /\ w.at = now /\ w.delta = v.delta /\ w.amount = v.amount /\ w.client = v.client
      /\ w.fingerprint = v.fingerprint /\ w.orig = v.orig /\ w.cum = v.cum /\ w.full = v.full
      /\ w.rule = v.rule
  BY <1>4, <1>5 DEF Row
<1>7. row' = [row EXCEPT ![p] = w] /\ pc' = [pc EXCEPT ![p] = l]
      /\ UNCHANGED <<tables, request, invited, held, answer>>
  BY <1>2, <1>3, <1>4, <1>5 DEF Begin, Goto, LocalTypeOK
<1>8. r.kind = "accrual" => AccrualFollows(l, r, w)
  BY <1>1, <1>2, <1>3, <1>6 DEF AccrualFollows, Follows
<1>9. r.kind = "redeem" => RedeemFollows(l, r, w)
  BY <1>1, <1>2, <1>3, <1>6 DEF RedeemFollows, Follows
<1>10. r.kind = "refund" => RefundFollows(l, r, w)
  BY <1>1, <1>2, <1>3, <1>6 DEF RefundFollows, Follows
<1>11. Follows(l, r, w)
  <2>1. w.at <= now
    BY <1>4, <1>6
  <2> QED BY <1>2, <1>6, <1>8, <1>9, <1>10, <2>1 DEF Follows, NotARefund
<1> QED BY <1>1, <1>2, <1>3, <1>7, <1>11, ContinuesUnchecked

\* Registration only adds the client the accrual is for.
LEMMA RegisterClientCarries ==
  ASSUME LedgerInvariant, NEW p \in Proc, RegisterClient(p)
  PROVE  Carried(p)
<1>1. pc[p] = "register" /\ "register" \in Service /\ "rule" \in Service
  BY DEF RegisterClient, Service
<1>2. PICK r \in Requests, v \in Row :
        r = request[p] /\ v = row[p] /\ Follows("register", r, v) /\ r \in Request
        /\ r.kind \in Kind /\ LocalTypeOK /\ row = [row EXCEPT ![p] = v]
  BY <1>1, LiveAt
<1>3. r.kind = "accrual"
  BY <1>2 DEF Follows, RedeemFollows, RefundFollows, Kind, Statement
<1>4. /\ clients' = clients \cup {r.client} /\ invited' \in [Proc -> BOOLEAN]
      /\ pc' = [pc EXCEPT ![p] = "rule"] /\ UNCHANGED <<request, row, held, answer, now>>
  BY <1>2 DEF RegisterClient, Goto, LocalTypeOK
<1>5. Follows("rule", r, v)'
  BY <1>2, <1>3, <1>4 DEF Follows, NotARefund, AccrualFollows
<1>6. LocksAreExclusive
  BY DEF LedgerInvariant, CommitsAreCurrent
<1>7. PICK h \in SUBSET Resource : h = held[p]
  BY <1>2 DEF LocalTypeOK
<1>8. held' = [held EXCEPT ![p] = h] /\ \A q \in Proc \ {p} : held[q] \cap h = {}
  BY <1>2, <1>4, <1>6, <1>7 DEF LocalTypeOK, LocksAreExclusive
<1>9. request[p] # None /\ row' = [row EXCEPT ![p] = v]
      /\ \A s \in Requests : s = request[p] => Follows("rule", s, v)'
  BY <1>2, <1>4, <1>5, TablesAssumption
<1>10. /\ LocalTypeOK' /\ LocksAreExclusive' /\ RowFollowsRequest(p)'
       /\ \A q \in Proc \ {p} : Untouched(q)
       /\ pc'[p] = "rule"
  BY <1>1, <1>4, <1>8, <1>9, Continues
<1>11. ChecksStillHold(p)'
  BY <1>10 DEF ChecksStillHold
<1> QED BY <1>10, <1>11 DEF Carried, Current

-------------------------------------------------------------------------------
\* The statements of the posting transaction

\* Locks are added only while no other transaction holds them.
LEMMA AcquireHolds ==
  ASSUME LocalTypeOK, LocksAreExclusive, NEW p \in Proc, NEW R \in SUBSET Resource, Acquire(p, R)
  PROVE  \E h \in SUBSET Resource :
           /\ h = held[p] \cup R /\ held' = [held EXCEPT ![p] = h]
           /\ \A q \in Proc \ {p} : held[q] \cap h = {}
<1>1. PICK h \in SUBSET Resource : h = held[p] \cup R
  BY DEF LocalTypeOK
<1>2. held' = [held EXCEPT ![p] = h]
  BY <1>1 DEF Acquire, LocalTypeOK
<1>3. ASSUME NEW q \in Proc \ {p}
      PROVE  held[q] \cap h = {}
  <2>1. held[q] \cap R = {} /\ held[q] \cap held[p] = {}
    BY DEF Acquire, Free, LocksAreExclusive
  <2> QED BY <1>1, <2>1
<1> QED BY <1>1, <1>2, <1>3

\* The transaction goes on to a statement l and locks R.
LEMMA ContinuesHolding ==
  ASSUME LedgerInvariant, NEW p \in Proc, NEW l \in Service \cup Statement, NEW w \in Row,
         NEW R \in SUBSET Resource, Acquire(p, R), UNCHANGED <<tables, request, invited, answer>>,
         NEW r \in Requests, r = request[p], Follows(l, r, w),
         pc' = [pc EXCEPT ![p] = l], row' = [row EXCEPT ![p] = w]
  PROVE  /\ LocalTypeOK' /\ LocksAreExclusive' /\ RowFollowsRequest(p)'
         /\ \A q \in Proc \ {p} : Untouched(q)
         /\ pc'[p] = l /\ row'[p] = w /\ request'[p] = r
         /\ held[p] \subseteq held'[p] /\ R \subseteq held'[p]
<1>1. LocalTypeOK /\ LocksAreExclusive
  BY DEF LedgerInvariant, TypeOK, CommitsAreCurrent
<1>2. PICK h \in SUBSET Resource :
        /\ h = held[p] \cup R /\ held' = [held EXCEPT ![p] = h]
        /\ \A q \in Proc \ {p} : held[q] \cap h = {}
  BY <1>1, AcquireHolds
<1>3. \A s \in Requests : s = request[p] => Follows(l, s, w)'
  BY SameFollows
<1>4. request[p] # None /\ invited' \in [Proc -> BOOLEAN]
  BY <1>1, TablesAssumption DEF LocalTypeOK
<1>5. /\ LocalTypeOK' /\ LocksAreExclusive' /\ RowFollowsRequest(p)'
      /\ \A q \in Proc \ {p} : Untouched(q)
      /\ pc'[p] = l /\ row'[p] = w /\ request'[p] = request[p] /\ held'[p] = h
  <2>1. held' = [held EXCEPT ![p] = h] /\ (\A q \in Proc \ {p} : held[q] \cap h = {})
        /\ UNCHANGED <<request, answer>>
    BY <1>2
  <2> QED BY <1>3, <1>4, <2>1, Continues
<1> QED BY <1>2, <1>5

\* With its original locked a refund is priced by its current totals.
LEMMA LockOriginalCarries ==
  ASSUME LedgerInvariant, NEW p \in Proc, LockOriginal(p)
  PROVE  Carried(p) /\ UNCHANGED tables
<1>1. pc[p] = "original" /\ "original" \in Statement /\ "balance" \in Statement
  BY DEF LockOriginal, Statement
<1>2. PICK r \in Requests, v \in Row :
        r = request[p] /\ v = row[p] /\ Follows("original", r, v) /\ r \in Request
        /\ r.kind \in Kind /\ TablesTypeOK /\ LocalTypeOK
  BY <1>1, LiveAt
<1>3. r.kind = "refund" /\ RefundFollows("original", r, v) /\ r.amount \in Nat
  BY <1>2 DEF Follows, AccrualFollows, RedeemFollows, Kind, Statement, Request
<1>4. PICK k \in Key : k = v.orig /\ Posted(k) /\ k \in Originals(r)
  BY <1>3, OriginalIsKey DEF RefundFollows
<1>5. CASE Refuse(p, "overrefund")
  BY <1>5, RefuseCarries DEF Status
<1>6. CASE ~Refuse(p, "overrefund")
  <2>1. PICK cum \in Nat : cum = refunded[k].amount + r.amount
    BY <1>2, <1>3 DEF TablesTypeOK
  <2>2. /\ ~(cum > txs[k].amount) /\ Acquire(p, OriginalLock(k))
        /\ row' = [row EXCEPT ![p].cum = cum, ![p].full = (cum = txs[k].amount),
                              ![p].delta = RefundDelta(k, cum)]
        /\ pc' = [pc EXCEPT ![p] = "balance"]
        /\ UNCHANGED <<tables, request, invited, answer>>
    BY <1>2, <1>4, <1>6, <2>1 DEF LockOriginal, OverRefunds, NewRefundedAmount, Goto
  <2>3. PICK d \in Int : d = RefundDelta(k, cum)
    BY <1>2, <1>4, ReversedIsNat
  <2>4. PICK full \in BOOLEAN : full = (cum = txs[k].amount)
    OBVIOUS
  <2>5. PICK w \in Row : w = [v EXCEPT !.cum = cum, !.full = full, !.delta = d]
    BY DEF Row
  <2>6. /\ w.delta = d /\ w.cum = cum /\ w.full = full /\ w.at = v.at /\ w.orig = v.orig
        /\ w.client = v.client /\ w.fingerprint = v.fingerprint /\ w.amount = v.amount
        /\ w.rule = v.rule
    BY <2>5 DEF Row
  <2>7. row' = [row EXCEPT ![p] = w]
    BY <1>2, <2>2, <2>3, <2>4, <2>5 DEF LocalTypeOK
  <2>8. Follows("balance", r, w)
    BY <1>2, <1>3, <2>6, <1>1 DEF Follows, RefundFollows
  <2>9. OriginalLock(k) \in SUBSET Resource
    BY <1>4, OriginalIsKey DEF OriginalLock, Resource
  <2>10. /\ LocalTypeOK' /\ LocksAreExclusive' /\ RowFollowsRequest(p)'
         /\ \A q \in Proc \ {p} : Untouched(q)
         /\ pc'[p] = "balance" /\ row'[p] = w /\ request'[p] = r
         /\ OriginalLock(k) \subseteq held'[p]
    BY <1>1, <1>2, <2>2, <2>7, <2>8, <2>9, ContinuesHolding
  <2>11. RefundIsPriced(w, r)
    <3>1. txs[k].amount \in Nat
      BY <1>2, <1>4, PostedRow DEF Row
    <3> QED BY <1>4, <2>1, <2>2, <2>3, <2>4, <2>6, <3>1 DEF RefundIsPriced
  <2>12. RefundIsPriced(w, r)'
    BY <2>2, <2>11 DEF RefundIsPriced, RefundDelta, ReversedAt, tables
  <2>13. ChecksStillHold(p)'
    BY <1>4, <2>6, <2>10, <2>12 DEF ChecksStillHold
  <2> QED BY <2>2, <2>10, <2>13 DEF Carried, Current
<1> QED BY <1>5, <1>6

\* The checks read columns of the row that the statements after them keep.
LEMMA SameChecks ==
  ASSUME UNCHANGED tables, NEW p \in Proc, NEW r, NEW v, NEW w,
         request[p] = r, request'[p] = r, row[p] = v, row'[p] = w,
         w.client = v.client, w.rule = v.rule, w.at = v.at, w.delta = v.delta, w.orig = v.orig
  PROVE  /\ BelowMinimum(p)' <=> BelowMinimum(p)
         /\ OverDailyLimit(p)' <=> OverDailyLimit(p)
         /\ Overdraws(p)' <=> Overdraws(p)
<1>1. balance' = balance /\ rules' = rules /\ txs' = txs
  BY DEF tables
<1>2. BelowMinimum(p)' <=> BelowMinimum(p)
  BY <1>1 DEF BelowMinimum
<1>3. OverDailyLimit(p)' <=> OverDailyLimit(p)
  BY <1>1, SameRedeemed DEF OverDailyLimit, WithinDailyLimit
<1>4. Overdraws(p)' <=> Overdraws(p)
  BY <1>1 DEF Overdraws
<1> QED BY <1>2, <1>3, <1>4

\* Equal totals of the original give the same refund.
LEMMA SamePrice ==
  ASSUME UNCHANGED tables, NEW r, NEW w
  PROVE  RefundIsPriced(w, r)' <=> RefundIsPriced(w, r)
  BY DEF RefundIsPriced, RefundDelta, ReversedAt, tables

\* With the balance locked the checks hold and will go on holding.
LEMMA AdjustBalanceCarries ==
  ASSUME LedgerInvariant, NEW p \in Proc, AdjustBalance(p)
  PROVE  Carried(p) /\ UNCHANGED tables
<1>1. pc[p] = "balance" /\ "balance" \in Statement /\ "insert" \in Statement
  BY DEF AdjustBalance, Statement
<1>2. PICK r \in Requests, v \in Row :
        r = request[p] /\ v = row[p] /\ Follows("balance", r, v) /\ r \in Request
        /\ r.kind \in Kind /\ TablesTypeOK /\ LocalTypeOK
  BY <1>1, LiveAt
<1>3. r.kind = "refund" => OriginalLock(v.orig) \subseteq held[p] /\ RefundIsPriced(v, r)
  BY <1>1, <1>2, LiveFollows DEF ChecksStillHold, Live
<1>4. CASE \E status \in {"insufficient", "limit"} : Refuse(p, status)
  BY <1>4, RefuseCarries DEF Status
<1>5. CASE ~ \E status \in {"insufficient", "limit"} : Refuse(p, status)
  <2>1. v.client \in Client /\ balance[v.client] \in Int /\ v.delta \in Int
    BY <1>2 DEF TablesTypeOK, Row
  <2>2. PICK after \in Int : after = balance[v.client] + v.delta
    BY <2>1
  <2>3. /\ ~BelowMinimum(p) /\ ~OverDailyLimit(p) /\ ~Overdraws(p)
        /\ Acquire(p, BalanceLock(v.client))
        /\ row' = [row EXCEPT ![p].after = after]
        /\ pc' = [pc EXCEPT ![p] = "insert"]
        /\ UNCHANGED <<tables, request, invited, answer>>
    BY <1>2, <1>5, <2>2 DEF AdjustBalance, Goto
  <2>4. PICK w \in Row : w = [v EXCEPT !.after = after]
    BY DEF Row
  <2>5. /\ w.after = after /\ w.delta = v.delta /\ w.cum = v.cum /\ w.full = v.full
        /\ w.at = v.at /\ w.orig = v.orig /\ w.client = v.client
        /\ w.fingerprint = v.fingerprint /\ w.amount = v.amount /\ w.rule = v.rule
    BY <2>4 DEF Row
  <2>6. row' = [row EXCEPT ![p] = w]
    BY <1>2, <2>3, <2>4 DEF LocalTypeOK
  <2>7. Follows("insert", r, w)
    BY <1>2, <2>5, <1>1 DEF Follows, NotARefund, AccrualFollows, RedeemFollows, RefundFollows
  <2>8. BalanceLock(v.client) \in SUBSET Resource
    BY <2>1 DEF BalanceLock, Resource
  <2>9. /\ LocalTypeOK' /\ LocksAreExclusive' /\ RowFollowsRequest(p)'
        /\ \A q \in Proc \ {p} : Untouched(q)
        /\ pc'[p] = "insert" /\ row'[p] = w /\ request'[p] = r
        /\ held[p] \subseteq held'[p] /\ BalanceLock(v.client) \subseteq held'[p]
    BY <1>1, <1>2, <2>3, <2>6, <2>7, <2>8, ContinuesHolding
  <2>10. (~BelowMinimum(p) /\ ~OverDailyLimit(p) /\ ~Overdraws(p))'
    BY <1>2, <2>3, <2>5, <2>9, SameChecks
  <2>11. r.kind = "refund" => OriginalLock(w.orig) \subseteq held'[p] /\ RefundIsPriced(w, r)'
    <3>1. r.kind = "refund" => RefundIsPriced(w, r)
      BY <1>3, <2>5 DEF RefundIsPriced
    <3> QED BY <1>3, <2>3, <2>5, <2>9, <3>1, SamePrice
  <2>12. w.after = balance'[w.client] + w.delta
    BY <2>2, <2>3, <2>5 DEF tables
  <2>13. ChecksStillHold(p)'
    BY <2>5, <2>9, <2>10, <2>11, <2>12 DEF ChecksStillHold
  <2> QED BY <2>3, <2>9, <2>13 DEF Carried, Current
<1> QED BY <1>4, <1>5

\* InsertRow and QueueNotices lock more and change nothing else.
LEMMA ChecksGoOn ==
  ASSUME LedgerInvariant, NEW p \in Proc, NEW l \in {"outbox", "commit"},
         pc[p] \in {"insert", "outbox"}, NEW R \in SUBSET Resource, Acquire(p, R),
         KeyLock(KeyOf(request[p])) \subseteq held[p] \cup R, ~Posted(KeyOf(request[p])),
         pc' = [pc EXCEPT ![p] = l], UNCHANGED <<tables, request, row, invited, answer>>
  PROVE  Carried(p)
<1>1. PICK k \in Service \cup Statement : k = pc[p] /\ l \in Service \cup Statement
  BY DEF Statement
<1>2. PICK r \in Requests, v \in Row :
        r = request[p] /\ v = row[p] /\ Follows(k, r, v) /\ row = [row EXCEPT ![p] = v]
        /\ r.kind \in Kind /\ KeyOf(r) \in Key
  BY <1>1, LiveAt
<1>3. /\ r.kind = "refund" => OriginalLock(v.orig) \subseteq held[p] /\ RefundIsPriced(v, r)
      /\ BalanceLock(v.client) \subseteq held[p]
      /\ v.after = balance[v.client] + v.delta
      /\ ~BelowMinimum(p) /\ ~OverDailyLimit(p) /\ ~Overdraws(p)
  BY <1>1, <1>2, LiveFollows DEF ChecksStillHold, Live
<1>4. Follows(l, r, v) /\ row' = [row EXCEPT ![p] = v]
  BY <1>1, <1>2 DEF Follows, AccrualFollows, RedeemFollows, RefundFollows, Statement
<1>5. /\ LocalTypeOK' /\ LocksAreExclusive' /\ RowFollowsRequest(p)'
      /\ \A q \in Proc \ {p} : Untouched(q)
      /\ pc'[p] = l /\ row'[p] = v /\ request'[p] = r
      /\ held[p] \subseteq held'[p] /\ R \subseteq held'[p]
  BY <1>1, <1>2, <1>4, ContinuesHolding
<1>6. (~BelowMinimum(p) /\ ~OverDailyLimit(p) /\ ~Overdraws(p))'
  BY <1>2, <1>3, <1>5, SameChecks
<1>7. r.kind = "refund" => OriginalLock(v.orig) \subseteq held'[p] /\ RefundIsPriced(v, r)'
  BY <1>3, <1>5, SamePrice
<1>8. /\ v.after = balance'[v.client] + v.delta /\ BalanceLock(v.client) \subseteq held'[p]
      /\ KeyLock(KeyOf(r)) \subseteq held'[p] /\ ~Posted(KeyOf(r))'
  BY <1>2, <1>3, <1>5 DEF tables, Posted
<1>9. ChecksStillHold(p)'
  BY <1>5, <1>6, <1>7, <1>8 DEF ChecksStillHold
<1> QED BY <1>5, <1>9 DEF Carried, Current

\* With the key locked nobody else can post the operation.
LEMMA InsertRowCarries ==
  ASSUME LedgerInvariant, NEW p \in Proc, InsertRow(p)
  PROVE  Carried(p) /\ UNCHANGED tables
<1>1. pc[p] = "insert" /\ "insert" \in Statement /\ "check" \in Service
  BY DEF InsertRow, Statement, Service
<1>2. PICK r \in Requests, v \in Row :
        r = request[p] /\ v = row[p] /\ Follows("insert", r, v) /\ row = [row EXCEPT ![p] = v]
        /\ r.kind \in Kind /\ KeyOf(r) \in Key /\ LocalTypeOK
  BY <1>1, LiveAt
<1>3. UNCHANGED <<tables, request, row, invited, answer>>
  BY DEF InsertRow
<1>4. CASE KeyTaken(p)
  <2>1. held' = [held EXCEPT ![p] = {}] /\ pc' = [pc EXCEPT ![p] = "check"]
    BY <1>4 DEF InsertRow, Goto
  <2>2. row' = [row EXCEPT ![p] = v]
    BY <1>2, <1>3
  <2>3. r.kind = "accrual" => AccrualFollows("check", r, v)
    BY DEF AccrualFollows
  <2>4. r.kind = "redeem" => RedeemFollows("check", r, v)
    BY <1>2 DEF Follows, RedeemFollows
  <2>5. r.kind = "refund" => RefundFollows("check", r, v)
    BY <1>2 DEF Follows, RefundFollows
  <2>6. Follows("check", r, v)
    BY <1>2, <2>3, <2>4, <2>5 DEF Follows
  <2>7. \A s \in Requests : s = request[p] => Follows("check", s, v)'
    BY <1>2, <1>3, <2>6, SameFollows
  <2>8. request[p] # None /\ invited' \in [Proc -> BOOLEAN] /\ UNCHANGED <<request, answer>>
    BY <1>2, <1>3, TablesAssumption DEF LocalTypeOK
  <2>9. {} \in SUBSET Resource /\ \A q \in Proc \ {p} : held[q] \cap {} = {}
    OBVIOUS
  <2>10. /\ LocalTypeOK' /\ LocksAreExclusive' /\ RowFollowsRequest(p)'
         /\ \A q \in Proc \ {p} : Untouched(q)
         /\ pc'[p] = "check"
    BY <1>1, <2>1, <2>2, <2>7, <2>8, <2>9, Continues
  <2>11. ChecksStillHold(p)'
    BY <2>10 DEF ChecksStillHold
  <2> QED BY <1>3, <2>10, <2>11 DEF Carried, Current
<1>5. CASE ~KeyTaken(p)
  <2>0. <<"key", KeyOf(r)>> \in Resource
    BY <1>2 DEF Resource
  <2>1. PICK R \in SUBSET Resource : R = KeyLock(KeyOf(r))
    BY <2>0 DEF KeyLock
  <2>2. Acquire(p, R) /\ pc' = [pc EXCEPT ![p] = "outbox"] /\ ~Posted(KeyOf(request[p]))
    BY <1>2, <1>5, <2>1 DEF InsertRow, Goto, KeyTaken
  <2>3. KeyLock(KeyOf(request[p])) \subseteq held[p] \cup R
    BY <1>2, <2>1
  <2> QED BY <1>1, <1>3, <2>2, <2>3, ChecksGoOn
<1> QED BY <1>4, <1>5

\* Waiting for the outbox keys disturbs nothing checked before.
LEMMA QueueNoticesCarries ==
  ASSUME LedgerInvariant, NEW p \in Proc, QueueNotices(p)
  PROVE  Carried(p) /\ UNCHANGED tables
<1>1. pc[p] = "outbox" /\ "outbox" \in Statement
  BY DEF QueueNotices, Statement
<1>2. PICK r \in Requests, v \in Row :
        r = request[p] /\ v = row[p] /\ KeyOf(r) \in Key /\ LocalTypeOK
  BY <1>1, LiveAt
<1>3. KeyLock(KeyOf(r)) \subseteq held[p] /\ ~Posted(KeyOf(r))
  BY <1>1, <1>2, LiveFollows DEF ChecksStillHold, Live
<1>4. Notices(p) \subseteq Entry
  <2>1. PICK k, E : k \in Key /\ k = KeyOf(r) /\ E = Notices(p)
    BY <1>2
  <2>2. Noticed(k, v, E)
    BY <1>2, <2>1 DEF Noticed, Notices, LocalTypeOK
  <2> QED BY <2>1, <2>2, NoticesAreEntries
<1>5. PICK R \in SUBSET Resource : R = DedupeLock(Notices(p) \ outbox)
  <2>1. \A e \in Entry : <<"outbox", e>> \in Resource
    BY DEF Resource
  <2> QED BY <1>4, <2>1 DEF DedupeLock
<1>6. Acquire(p, R) /\ pc' = [pc EXCEPT ![p] = "commit"]
      /\ UNCHANGED <<tables, request, row, invited, answer>>
  BY <1>5 DEF QueueNotices, Goto
<1> QED BY <1>1, <1>2, <1>3, <1>6, ChecksGoOn

\* A request that has committed is answered and holds nothing.
LEMMA CommitCarries ==
  ASSUME LedgerInvariant, NEW p \in Proc, CommitPosting(p)
  PROVE  Carried(p)
<1>1. pc[p] = "commit" /\ Live(p) 
  BY DEF CommitPosting, Live, Statement
<1>2. row[p] \in Row
  BY <1>1, LiveFollows
<1>3. PICK a \in Answer : Finish(p, a)
  BY <1>2, AnswersAreTyped DEF CommitPosting, Status
<1> QED BY <1>3, FinishCarries

\* One request's step carries its own part of the invariant.
LEMMA StepCarries ==
  ASSUME LedgerInvariant, NEW p \in Proc, Receive(p) \/ Step(p) \/ Fail(p)
  PROVE  Carried(p) /\ (UNCHANGED tables \/ RegisterClient(p) \/ CommitPosting(p))
<1>1. CASE Receive(p) \/ Fail(p)
  BY <1>1, ReceiveCarries, FailCarries
<1>2. CASE ResolveTyped(p) \/ ResolveAccrual(p) \/ ResolveRedeem(p)
  BY <1>2, ResolveCarries
<1>3. CASE LoadClient(p) \/ CheckReplay(p)
  BY <1>3, LoadClientCarries, CheckReplayCarries
<1>4. CASE PriceAccrual(p) \/ ReadRule(p) \/ ReadFunds(p)
  BY <1>4, PriceAccrualCarries, ReadRuleCarries, ReadFundsCarries
<1>5. CASE Begin(p) \/ LockOriginal(p) \/ AdjustBalance(p)
  BY <1>5, BeginCarries, LockOriginalCarries, AdjustBalanceCarries
<1>6. CASE InsertRow(p) \/ QueueNotices(p)
  BY <1>6, InsertRowCarries, QueueNoticesCarries
<1>7. CASE RegisterClient(p)
  BY <1>7, RegisterClientCarries
<1>8. CASE CommitPosting(p)
  BY <1>8, CommitCarries
<1> QED BY <1>1, <1>2, <1>3, <1>4, <1>5, <1>6, <1>7, <1>8 DEF Step

-------------------------------------------------------------------------------
\* Refinement: the commit is the atomic operation.

\* Rows with equal fields are equal.
LEMMA RowsEqual ==
  ASSUME NEW u \in Row, NEW v \in Row,
         u.client = v.client, u.amount = v.amount, u.delta = v.delta, u.after = v.after,
         u.fingerprint = v.fingerprint, u.at = v.at, u.orig = v.orig, u.cum = v.cum,
         u.full = v.full, u.rule = v.rule
  PROVE  u = v
  BY DEF Row

\* A commit is the atomic operation: its checks hold when it changes the tables.
LEMMA CommitRefines ==
  ASSUME LedgerInvariant, NEW p \in Proc, CommitPosting(p)
  PROVE  \E r \in Requests : Accrue(r) \/ Redeem(r) \/ Refund(r)
<1>1. pc[p] = "commit" /\ "commit" \in Statement
  BY DEF CommitPosting, Statement
<1>2. PICK r \in Requests, w \in Row :
        r = request[p] /\ w = row[p] /\ Follows("commit", r, w) /\ KeyOf(r) \in Key
        /\ r \in Request /\ r.kind \in Kind /\ KindOf(KeyOf(r)) = r.kind
        /\ TablesTypeOK /\ LocalTypeOK
  BY <1>1, LiveAt
<1>3. /\ r.kind = "refund" => RefundIsPriced(w, r)
      /\ w.after = balance[w.client] + w.delta /\ ~Posted(KeyOf(r))
      /\ ~BelowMinimum(p) /\ ~OverDailyLimit(p) /\ ~Overdraws(p)
  BY <1>1, <1>2, LiveFollows DEF ChecksStillHold, Live
<1>4. PICK i \in BOOLEAN : i = (r.kind = "accrual" /\ invited[p])
  OBVIOUS
<1>5. Commit(KeyOf(r), w, NoticesFor(KeyOf(r), w.delta) \cup InvitesFor(w.client, i))
  BY <1>2, <1>4 DEF CommitPosting, Notices
<1>6. w.at \in 0..now /\ w.amount = r.amount /\ w.client \in Client /\ w.delta \in Int
      /\ balance[w.client] \in Int
  <2>1. w.at \in Nat /\ w.at <= now /\ now \in Nat /\ w.client \in Client /\ w.delta \in Int
    BY <1>2 DEF Follows, TablesTypeOK, Row
  <2> QED BY <1>2, <2>1 DEF Follows, TablesTypeOK
<1>d. PICK d \in Row : d = Draft(r)
  BY DraftIsRow
<1>f. /\ d.client = r.client /\ d.amount = r.amount /\ d.fingerprint = Fingerprint(r, None)
      /\ d.orig = None /\ d.cum = 0 /\ d.full = FALSE /\ d.rule = 0
  BY <1>d DEF Draft
<1>7. CASE r.kind = "accrual"
  <2>1. /\ w.client = r.client /\ w.fingerprint = Fingerprint(r, None) /\ w.orig = None /\ w.cum = 0
        /\ w.full = FALSE /\ r.client \in clients /\ w.rule \in 0..Len(rules[r.store])
        /\ w.delta = IF w.rule = 0 THEN 0 ELSE Earned(rules[r.store][w.rule], r.amount)
    BY <1>2, <1>7 DEF Follows, NotARefund, AccrualFollows, Row
  <2>2. w.after >= 0
    BY <1>2, <1>3, <1>6, <1>7 DEF Overdraws
  <2>3. PICK u \in Row : u = [d EXCEPT !.delta = w.delta, !.after = w.after, !.at = w.at, !.rule = w.rule]
    BY DEF Row
  <2>4. u = w
    <3>1. /\ u.delta = w.delta /\ u.after = w.after /\ u.at = w.at /\ u.rule = w.rule
          /\ u.client = d.client /\ u.amount = d.amount /\ u.fingerprint = d.fingerprint
          /\ u.orig = d.orig /\ u.cum = d.cum /\ u.full = d.full
      BY <2>3 DEF Row
    <3> QED BY <1>6, <1>f, <2>1, <3>1, RowsEqual
  <2>5. w = [Draft(r) EXCEPT !.delta = w.delta, !.after = w.after, !.at = w.at, !.rule = w.rule]
    BY <1>d, <2>3, <2>4
  <2>6. PICK n \in 0..Len(rules[r.store]), t \in 0..now : n = w.rule /\ t = w.at
    BY <1>6, <2>1
  <2>7. /\ ~Posted(KeyOf(r)) /\ r.client \in clients
        /\ LET points == IF n = 0 THEN 0 ELSE Earned(rules[r.store][n], r.amount)
               after  == balance[r.client] + points
               v      == [Draft(r) EXCEPT !.delta = points, !.after = after, !.at = t, !.rule = n]
           IN  /\ after >= 0
               /\ Commit(KeyOf(r), v, NoticesFor(KeyOf(r), points) \cup InvitesFor(r.client, i))
    <3> DEFINE points == IF n = 0 THEN 0 ELSE Earned(rules[r.store][n], r.amount)
    <3>1. w.delta = points /\ w.after = balance[r.client] + points
      BY <1>3, <2>1, <2>6
    <3>2. w = [Draft(r) EXCEPT !.delta = points, !.after = balance[r.client] + points, !.at = t, !.rule = n]
      BY <2>5, <2>6, <3>1
    <3>3. Commit(KeyOf(r), w, NoticesFor(KeyOf(r), points) \cup InvitesFor(r.client, i))
      BY <1>5, <2>1, <3>1
    <3> QED BY <1>3, <2>1, <2>2, <3>1, <3>2, <3>3
  <2>8. Accrue(r)
    BY <1>7, <2>7 DEF Accrue
  <2> QED BY <2>8
<1>8. CASE r.kind = "redeem"
  <2>1. /\ w.client = r.client /\ w.fingerprint = Fingerprint(r, None) /\ w.orig = None /\ w.cum = 0
        /\ w.full = FALSE /\ r.client \in clients /\ StoreOf[r.client] = r.store
        /\ w.rule \in 1..Len(rules[r.store])
        /\ w.delta = -Capped(rules[r.store][w.rule], r.amount, r.points) /\ w.delta < 0
    BY <1>2, <1>8 DEF Follows, NotARefund, RedeemFollows, Row
  <2>2. w.after >= 0
    BY <1>2, <1>3, <1>6, <1>8 DEF Overdraws
  <2>3. PICK u \in Row : u = [d EXCEPT !.delta = w.delta, !.after = w.after, !.at = w.at, !.rule = w.rule]
    BY DEF Row
  <2>4. u = w
    <3>1. /\ u.delta = w.delta /\ u.after = w.after /\ u.at = w.at /\ u.rule = w.rule
          /\ u.client = d.client /\ u.amount = d.amount /\ u.fingerprint = d.fingerprint
          /\ u.orig = d.orig /\ u.cum = d.cum /\ u.full = d.full
      BY <2>3 DEF Row
    <3> QED BY <1>6, <1>f, <2>1, <3>1, RowsEqual
  <2>5. w = [Draft(r) EXCEPT !.delta = w.delta, !.after = w.after, !.at = w.at, !.rule = w.rule]
    BY <1>d, <2>3, <2>4
  <2>6. PICK n \in 1..Len(rules[r.store]), t \in 0..now : n = w.rule /\ t = w.at
    BY <1>6, <2>1
  <2>7. rules[r.store] \in Seq(Rule) /\ rules[r.store][n] \in Rule
        /\ r.amount \in Nat /\ r.points \in Nat
    BY <1>2, <2>6 DEF TablesTypeOK, Request
  <2>8. PICK points \in Nat : points = Capped(rules[r.store][n], r.amount, r.points)
    BY <2>7, CappedIsCapped
  <2>9. w.delta = -points /\ -w.delta = points /\ points > 0
    BY <2>1, <2>6, <2>8
  <2>10. w.after = balance[r.client] - points /\ balance[r.client] - points >= 0
    BY <1>3, <1>6, <2>1, <2>2, <2>9
  <2>11. balance[r.client] >= rules[r.store][n].minBalance
    <3>1. rules[r.store][n].minBalance \in Nat
      BY <2>7 DEF Rule
    <3> QED BY <1>2, <1>3, <1>6, <1>8, <2>1, <2>6, <3>1 DEF BelowMinimum
  <2>12. WithinDailyLimit(r.client, t, points)
    BY <1>2, <1>3, <1>8, <2>1, <2>6, <2>9 DEF OverDailyLimit
  <2>13. w = [Draft(r) EXCEPT !.delta = -points, !.after = balance[r.client] - points, !.at = t, !.rule = n]
    BY <2>5, <2>6, <2>9, <2>10
  <2>14. InvitesFor(w.client, i) = {}
    BY <1>4, <1>8 DEF InvitesFor
  <2>15. Commit(KeyOf(r), w, NoticesFor(KeyOf(r), w.delta))
    BY <1>5, <2>14
  <2>16. Redeem(r)
    BY <1>3, <1>8, <2>1, <2>8, <2>9, <2>10, <2>11, <2>12, <2>13, <2>15 DEF Redeem
  <2> QED BY <2>16
<1>9. CASE r.kind = "refund"
  <2>1. /\ w.orig \in Originals(r) /\ Posted(w.orig) /\ w.client = txs[w.orig].client
        /\ w.fingerprint = Fingerprint(r, w.orig) /\ w.rule = 0
    BY <1>2, <1>9 DEF Follows, RefundFollows
  <2>2. PICK k \in Originals(r), t \in 0..now : k = w.orig /\ t = w.at
    BY <1>6, <2>1
  <2>3. PICK cum \in Nat : cum = refunded[k].amount + r.amount
    BY <1>2, <2>2, OriginalIsKey, KeyOfRequest DEF TablesTypeOK
  <2>4. PICK delta \in Int : delta = RefundDelta(k, cum)
    BY <1>2, <2>1, <2>2, OriginalIsKey, ReversedIsNat
  <2>5. PICK full \in BOOLEAN : full = (cum = txs[k].amount)
    OBVIOUS
  <2>6. PICK after \in Int : after = balance[txs[k].client] + delta
    BY <1>6, <2>1, <2>2
  <2>7. w.cum = cum /\ w.delta = delta /\ w.full = full /\ w.after = after /\ cum <= txs[k].amount
    BY <1>3, <1>9, <2>1, <2>2, <2>3, <2>4, <2>5, <2>6 DEF RefundIsPriced
  <2>8. KindOf(k) = "redeem" => after >= 0
    BY <1>2, <1>3, <1>6, <1>9, <2>1, <2>2, <2>6, <2>7 DEF Overdraws
  <2>9. w.fingerprint = Fingerprint(r, k) /\ w.client = txs[k].client /\ w.orig = k
    BY <2>1, <2>2
  <2>10. PICK u \in Row :
           u = [d EXCEPT !.client = w.client, !.delta = delta, !.after = after,
                         !.fingerprint = w.fingerprint, !.at = t, !.orig = k,
                         !.cum = cum, !.full = full]
    BY <2>2, OriginalIsKey DEF Row
  <2>11. u = w
    <3>1. /\ u.delta = delta /\ u.after = after /\ u.at = t /\ u.rule = d.rule
          /\ u.client = w.client /\ u.amount = d.amount /\ u.fingerprint = w.fingerprint
          /\ u.orig = k /\ u.cum = cum /\ u.full = full
      BY <2>10 DEF Row
    <3> QED BY <1>6, <1>f, <2>1, <2>2, <2>7, <2>9, <3>1, RowsEqual
  <2>12. w = [Draft(r) EXCEPT !.client = txs[k].client, !.delta = delta, !.after = after,
                !.fingerprint = Fingerprint(r, k), !.at = t, !.orig = k,
                !.cum = cum, !.full = (cum = txs[k].amount)]
    BY <1>d, <2>5, <2>9, <2>10, <2>11
  <2>13. InvitesFor(w.client, i) = {}
    BY <1>4, <1>9 DEF InvitesFor
  <2>14. Commit(KeyOf(r), w, NoticesFor(KeyOf(r), w.delta))
    BY <1>5, <2>13
  <2>15. LET sum == refunded[k].amount + r.amount
             points == RefundDelta(k, sum)
             left == balance[txs[k].client] + points
             v == [Draft(r) EXCEPT !.client = txs[k].client, !.delta = points,
                     !.after = left, !.fingerprint = Fingerprint(r, k), !.at = t, !.orig = k,
                     !.cum = sum, !.full = (sum = txs[k].amount)]
         IN  /\ Posted(k) /\ sum <= txs[k].amount
             /\ KindOf(k) = "redeem" => left >= 0
             /\ Commit(KeyOf(r), v, NoticesFor(KeyOf(r), v.delta))
    <3> DEFINE v == [Draft(r) EXCEPT !.client = txs[k].client, !.delta = delta, !.after = after,
                      !.fingerprint = Fingerprint(r, k), !.at = t, !.orig = k,
                      !.cum = cum, !.full = (cum = txs[k].amount)]
    <3>1. Commit(KeyOf(r), v, NoticesFor(KeyOf(r), v.delta))
      BY <2>12, <2>14
    <3>2. Posted(k)
      BY <2>1, <2>2
    <3> QED BY <2>3, <2>4, <2>6, <2>7, <2>8, <3>1, <3>2
  <2>16. Refund(r)
    BY <1>3, <1>9, <2>15 DEF Refund
  <2> QED BY <2>16
<1> QED BY <1>2, <1>7, <1>8, <1>9 DEF Kind

\* Every step of Ledger is a step of AtomicLedger or leaves the tables alone.
LEMMA StepRefines ==
  ASSUME LedgerInvariant, [Next]_vars
  PROVE  [AtomicNext]_tables
<1>1. ASSUME NEW p \in Proc, Receive(p) \/ Step(p) \/ Fail(p)
      PROVE  [AtomicNext]_tables
  <2>1. CASE UNCHANGED tables
    BY <2>1
  <2>2. CASE CommitPosting(p)
    BY <2>2, CommitRefines DEF AtomicNext
  <2>3. CASE RegisterClient(p)
    <3>1. TypeOK /\ pc[p] = "register" /\ "register" \in Service
      BY <2>3 DEF LedgerInvariant, RegisterClient, Service
    <3>2. PICK r \in Requests : r = request[p] /\ r \in Request
      BY <3>1, LiveAt
    <3>3. Register(r.client) /\ r.client \in Client
      BY <2>3, <3>2 DEF RegisterClient, Register, Request
    <3> QED BY <3>3 DEF AtomicNext
  <2> QED BY <1>1, <2>1, <2>2, <2>3, StepCarries
<1>2. CASE ChangeRules \/ PassTime
  BY <1>2 DEF ChangeRules, PassTime, AtomicNext
<1>3. CASE AllAnswered \/ UNCHANGED vars
  BY <1>3 DEF AllAnswered, vars
<1> QED BY <1>1, <1>2, <1>3 DEF Next

\* Registering a client, saving rules and the clock post nothing.
LEMMA UnpostedGrows ==
  ASSUME TypeOK, TablesTypeOK', NEW q \in Proc,
         \/ UNCHANGED tables
         \/ \E p \in Proc : RegisterClient(p)
         \/ ChangeRules \/ PassTime
  PROVE  Growth /\ Protected(q)
<1>1. TablesTypeOK
  BY DEF TypeOK
<1>2. UNCHANGED <<balance, txs, refunded>>
  BY DEF tables, RegisterClient, ChangeRules, SaveRule, PassTime, Tick
<1>3. Protected(q)
  BY <1>2, SameRedeemed DEF Protected
<1>4. clients \subseteq clients' /\ now <= now'
  BY <1>1 DEF tables, RegisterClient, ChangeRules, SaveRule, PassTime, Tick, TablesTypeOK
<1>5. \A s \in Store : /\ Len(rules[s]) <= Len(rules'[s])
                       /\ \A n \in 1..Len(rules[s]) : rules'[s][n] = rules[s][n]
  <2>1. CASE rules' = rules
    <3>1. \A s \in Store : Len(rules[s]) \in Int
      BY <1>1 DEF TablesTypeOK
    <3> QED BY <2>1, <3>1
  <2>2. CASE ChangeRules
    <3>1. PICK t \in Store, rule \in Rules : SaveRule(t, rule)
      BY <2>2 DEF ChangeRules
    <3>2. rule \in Rule /\ rules' = [rules EXCEPT ![t] = Append(@, rule)]
      BY <3>1, TablesAssumption DEF SaveRule
    <3> SUFFICES ASSUME NEW s \in Store
                 PROVE  /\ Len(rules[s]) <= Len(rules'[s])
                        /\ \A n \in 1..Len(rules[s]) : rules'[s][n] = rules[s][n]
      OBVIOUS
    <3>3. rules[s] \in Seq(Rule)
      BY <1>1 DEF TablesTypeOK
    <3>4. rules'[s] = rules[s] \/ rules'[s] = Append(rules[s], rule)
      BY <1>1, <3>2 DEF TablesTypeOK
    <3> QED BY <3>2, <3>3, <3>4
  <2> QED BY <2>1, <2>2 DEF tables, RegisterClient, PassTime, Tick
<1> QED BY <1>2, <1>3, <1>4, <1>5 DEF Growth

\* The invariant is inductive.
LEMMA InvariantIsKept ==
  ASSUME LedgerInvariant, [Next]_vars
  PROVE  LedgerInvariant'
<1>1. TypeOK /\ TablesTypeOK /\ LocalTypeOK /\ LocksAreExclusive
      /\ \A q \in Proc : Current(q)
  BY DEF LedgerInvariant, TypeOK, CommitsAreCurrent, Current, Live
<1>2. TablesTypeOK'
  BY <1>1, StepRefines, StepKeepsTypes
<1>3. ASSUME NEW p \in Proc, Receive(p) \/ Step(p) \/ Fail(p)
      PROVE  LedgerInvariant'
  <2>1. Carried(p) /\ (UNCHANGED tables \/ RegisterClient(p) \/ CommitPosting(p))
    BY <1>3, StepCarries
  <2>2. ASSUME NEW q \in Proc
        PROVE  Current(q)'
    <3>1. CASE q = p
      BY <2>1, <3>1 DEF Carried
    <3>2. CASE q # p
      <4>1. Growth /\ Protected(q)
        BY <1>1, <1>2, <2>1, <3>2, UnpostedGrows, CommitProtects
      <4>2. Untouched(q)
        BY <2>1, <3>2 DEF Carried
      <4> QED BY <1>1, <1>2, <4>1, <4>2, ProtectedKeepsCurrent
    <3> QED BY <3>1, <3>2
  <2> QED BY <1>2, <2>1, <2>2 DEF LedgerInvariant, TypeOK, CommitsAreCurrent, Carried, Current, Live
<1>4. ASSUME UNCHANGED local, UNCHANGED tables \/ ChangeRules \/ PassTime
      PROVE  LedgerInvariant'
  <2>1. LocalTypeOK' /\ LocksAreExclusive' /\ \A q \in Proc : Untouched(q)
    BY <1>1, <1>4 DEF local, LocalTypeOK, LocksAreExclusive, Untouched
  <2>2. ASSUME NEW q \in Proc
        PROVE  Current(q)'
    BY <1>1, <1>2, <1>4, <2>1, UnpostedGrows, ProtectedKeepsCurrent
  <2> QED BY <1>2, <2>1, <2>2 DEF LedgerInvariant, TypeOK, CommitsAreCurrent, Current, Live
<1>5. CASE ChangeRules \/ PassTime \/ AllAnswered \/ UNCHANGED vars
  BY <1>4, <1>5 DEF ChangeRules, PassTime, AllAnswered, vars
<1> QED BY <1>3, <1>5 DEF Next

-------------------------------------------------------------------------------
\* The state stays well typed, locks stay exclusive, and at every statement of a
\* posting transaction what it has read and checked still holds of the tables.
THEOREM LedgerIsCurrent == Spec => [](TypeOK /\ CommitsAreCurrent)
<1>1. Init => LedgerInvariant
  <2> SUFFICES ASSUME Init PROVE LedgerInvariant
    OBVIOUS
  <2>1. TablesTypeOK
    BY DEF Init, TablesInit, TablesTypeOK
  <2>2. LocalTypeOK
    BY DEF Init, LocalTypeOK
  <2>3. CommitsAreCurrent
    BY DEF Init, CommitsAreCurrent, LocksAreExclusive, Service, Statement
  <2> QED BY <2>1, <2>2, <2>3 DEF LedgerInvariant, TypeOK
<1>2. LedgerInvariant /\ [Next]_vars => LedgerInvariant'
  BY InvariantIsKept
<1> QED BY <1>1, <1>2, PTL DEF Spec, LedgerInvariant

\* Concurrent requests, retries, failures and lost answers are invisible to the
\* tables: every behaviour of the statements is one of the atomic operations.
THEOREM LedgerRefines == Spec => ImplementsAtomicLedger
<1>1. Init => TablesInit
  BY DEF Init
<1>2. LedgerInvariant /\ [Next]_vars => [AtomicNext]_tables
  BY StepRefines
<1> QED BY <1>1, <1>2, LedgerIsCurrent, PTL DEF Spec, ImplementsAtomicLedger, AtomicSpec, LedgerInvariant

\* So every invariant of the atomic ledger is one of the statements: accounts
\* balance, an operation counts once, a notification is queued with its operation
\* and only the refund of a sale leaves a debt.
THEOREM LedgerIsSound ==
  Spec => [](AccountsBalance /\ PostedOnce /\ NotifiedIffPosted /\ DebtComesFromRefund)
BY LedgerRefines, AtomicAccounts, AtomicNotices, AtomicDebt, PTL DEF ImplementsAtomicLedger

\* With amounts in whole kopecks: redemptions stay within their rules, refunds
\* reverse exactly their share, and what is recorded is final.
THEOREM LedgerIsProportional ==
  ASSUME WholeKopecks
  PROVE  Spec => [](RedeemsWithinRules /\ RefundsProportional) /\ HistoryIsFinal
BY LedgerRefines, AtomicRedeems, AtomicRefunds, AtomicHistory, PTL DEF ImplementsAtomicLedger

-------------------------------------------------------------------------------
\* What was answered is what is recorded.

\* A replay is recognised by its fingerprint alone, which names the client.
FingerprintNamesClient ==
  \A k \in Key : Posted(k) /\ KindOf(k) # "refund" => txs[k].fingerprint[1] = txs[k].client

AnswersInvariant ==
  /\ AnswersAreRecorded /\ FingerprintNamesClient
  /\ \A p \in Proc : answer[p] # None => pc[p] = "done" /\ request[p] \in Requests

RowsStay == \A k \in Key : Posted(k) => txs'[k] = txs[k]

\* An answer that was recorded stays so.
LEMMA AnswerStays ==
  ASSUME AnswersInvariant, RowsStay, NEW q \in Proc,
         answer'[q] = answer[q], request'[q] = request[q]
  PROVE  AnswerIsRecorded(q)'
<1> SUFFICES ASSUME answer[q] # None, answer[q].status = "ok"
             PROVE  AnswerIsRecorded(q)'
  BY DEF AnswerIsRecorded
<1>1. PICK r \in Requests : r = request[q]
  BY DEF AnswersInvariant
<1>2. PICK k \in Key : k = KeyOf(r)
  BY KeyOfRequest
<1>3. AnswerIsRecorded(q) /\ Posted(k)
  BY <1>1, <1>2 DEF AnswersInvariant, AnswersAreRecorded, AnswerIsRecorded
<1>4. txs'[k] = txs[k] /\ Posted(k)'
  BY <1>3 DEF RowsStay, Posted
<1> QED BY <1>1, <1>2, <1>3, <1>4 DEF AnswerIsRecorded

\* A step of a request answers nothing, or refuses, or replays a row, or commits one.
LEMMA StepAnswers ==
  ASSUME NEW p \in Proc, Receive(p) \/ Step(p) \/ Fail(p)
  PROVE  /\ pc[p] # "done"
         /\ \/ UNCHANGED <<answer, txs>>
            \/ Live(p) /\ \E status \in Status \ {"ok"} : Refuse(p, status)
            \/ /\ pc[p] = "check" /\ Posted(KeyOf(request[p])) /\ SameFingerprint(p)
               /\ Finish(p, Replayed(txs[KeyOf(request[p])])) /\ UNCHANGED tables
            \/ CommitPosting(p)
<1>1. CASE Receive(p) \/ RegisterClient(p)
  BY <1>1 DEF Receive, RegisterClient, tables
<1>2. CASE Fail(p)
  BY <1>2 DEF Fail, Service, Statement, Status, Live
<1>3. CASE ResolveTyped(p) \/ ResolveAccrual(p) \/ ResolveRedeem(p)
  BY <1>3 DEF ResolveTyped, ResolveAccrual, ResolveRedeem, RefundOf, tables, Status, Live, Service, Statement
<1>4. CASE LoadClient(p) \/ CheckReplay(p)
  BY <1>4 DEF LoadClient, CheckReplay, tables, Status, Live, Service, Statement
<1>5. CASE PriceAccrual(p) \/ ReadRule(p) \/ ReadFunds(p)
  BY <1>5 DEF PriceAccrual, ReadRule, ReadFunds, tables, Status, Live, Service, Statement
<1>6. CASE Begin(p) \/ LockOriginal(p)
  BY <1>6 DEF Begin, LockOriginal, tables, Status, Live, Service, Statement
<1>7. CASE AdjustBalance(p)
  BY <1>7 DEF AdjustBalance, tables, Status, Live, Service, Statement
<1>8. CASE InsertRow(p) \/ QueueNotices(p)
  BY <1>8 DEF InsertRow, QueueNotices, tables
<1>9. CASE CommitPosting(p)
  BY <1>9 DEF CommitPosting
<1> QED BY <1>1, <1>2, <1>3, <1>4, <1>5, <1>6, <1>7, <1>8, <1>9 DEF Step

\* The fingerprint of a request's row tells its amount, and its client if it names one.
LEMMA FollowedFingerprint ==
  ASSUME NEW l, NEW r \in Requests, NEW w \in Row, Follows(l, r, w), l \in {"check", "commit"}
  PROVE  /\ w.fingerprint[2] = Stored(r.amount)
         /\ r.kind # "refund" => w.fingerprint[1] = r.client /\ w.client = r.client
<1>1. r.kind \in {"accrual", "redeem", "refund"}
  BY KeyOfRequest DEF Request, Kind
<1>2. r.kind # "refund" => w.client = r.client /\ w.fingerprint = Fingerprint(r, None)
  BY <1>1 DEF Follows, NotARefund
<1>3. r.kind = "refund" => w.fingerprint = Fingerprint(r, w.orig)
  BY DEF Follows, RefundFollows
<1> QED BY <1>1, <1>2, <1>3 DEF Fingerprint

\* The replayed row is the request's own operation.
LEMMA ReplayIsRecorded ==
  ASSUME LedgerInvariant, AnswersInvariant, NEW p \in Proc, pc[p] = "check",
         Posted(KeyOf(request[p])), SameFingerprint(p),
         Finish(p, Replayed(txs[KeyOf(request[p])])), UNCHANGED tables
  PROVE  AnswerIsRecorded(p)' /\ request[p] \in Requests
<1>1. PICK r \in Requests, v \in Row :
        r = request[p] /\ v = row[p] /\ Follows("check", r, v) /\ KeyOf(r) \in Key
        /\ KindOf(KeyOf(r)) = r.kind /\ TablesTypeOK /\ LocalTypeOK
  BY LiveAt DEF Service
<1>2. PICK k \in Key : k = KeyOf(r)
  BY <1>1
<1>3. PICK u \in Row : u = txs[k]
  BY <1>1, <1>2, PostedRow
<1>4. /\ answer'[p] = Replayed(u) /\ request'[p] = r /\ txs'[k] = u /\ Posted(k)'
      /\ u.fingerprint = v.fingerprint
  BY <1>1, <1>2, <1>3 DEF Finish, SameFingerprint, Posted, tables, LocalTypeOK
<1>5. r.kind # "refund" => u.fingerprint[1] = u.client
  BY <1>1, <1>2, <1>3 DEF AnswersInvariant, FingerprintNamesClient
<1>6. u.fingerprint[2] = Stored(r.amount) /\ (r.kind # "refund" => u.client = r.client)
  BY <1>1, <1>4, <1>5, FollowedFingerprint
<1>7. Replayed(u).points = u.delta /\ Replayed(u).balance = u.after
  BY DEF Replayed, Result
<1> QED BY <1>1, <1>2, <1>4, <1>6, <1>7 DEF AnswerIsRecorded

\* The committed row is what was answered, unless the answer is lost.
LEMMA CommitIsRecorded ==
  ASSUME LedgerInvariant, AnswersInvariant, NEW p \in Proc, CommitPosting(p)
  PROVE  /\ AnswerIsRecorded(p)' /\ request[p] \in Requests
         /\ RowsStay /\ FingerprintNamesClient'
<1>1. PICK r \in Requests, w \in Row :
        r = request[p] /\ w = row[p] /\ Follows("commit", r, w) /\ KeyOf(r) \in Key
        /\ KindOf(KeyOf(r)) = r.kind /\ TablesTypeOK /\ LocalTypeOK
  BY LiveAt DEF CommitPosting, Statement
<1>2. PICK k \in Key : k = KeyOf(r)
  BY <1>1
<1>n. PICK notices : notices = Notices(p)
  OBVIOUS
<1>3. Commit(k, w, notices) /\ \E a \in {Result(w), Refused("error")} : Finish(p, a)
  BY <1>1, <1>2, <1>n DEF CommitPosting
<1>4. ~Posted(k)
  <2>1. ChecksStillHold(p) /\ pc[p] = "commit"
    BY LiveFollows DEF CommitPosting, Live, Statement
  <2> QED BY <1>1, <1>2, <2>1 DEF ChecksStillHold
<1> DEFINE s == [w EXCEPT !.amount = Stored(w.amount), !.cum = Stored(w.cum)]
<1>5. s.client = w.client /\ s.delta = w.delta /\ s.after = w.after /\ s.fingerprint = w.fingerprint
  BY DEF Row
<1>6. txs' = [txs EXCEPT ![k] = s] /\ txs \in [Key -> Row \cup {None}]
  BY <1>1, <1>3 DEF Commit, TablesTypeOK
<1>7. s \in Row /\ s # None
  <2>1. Stored(w.amount) \in Nat /\ Stored(w.cum) \in Nat
    BY StoredIsNat DEF Row
  <2> QED BY <2>1, TablesAssumption DEF Row
<1> HIDE DEF s
<1>8. txs'[k] = s /\ \A j \in Key : j # k => txs'[j] = txs[j]
  BY <1>6
<1>9. RowsStay
  BY <1>4, <1>8 DEF RowsStay
<1>10. /\ w.fingerprint[2] = Stored(r.amount)
       /\ r.kind # "refund" => w.fingerprint[1] = r.client /\ w.client = r.client
  BY <1>1, FollowedFingerprint
<1>11. FingerprintNamesClient'
  <2> SUFFICES ASSUME NEW j \in Key, txs'[j] # None, KindOf(j) # "refund"
               PROVE  txs'[j].fingerprint[1] = txs'[j].client
    BY DEF FingerprintNamesClient, Posted
  <2>1. CASE j = k
    BY <1>1, <1>2, <1>5, <1>8, <1>10, <2>1
  <2>2. CASE j # k
    BY <1>8, <2>2 DEF AnswersInvariant, FingerprintNamesClient, Posted
  <2> QED BY <2>1, <2>2
<1>12. AnswerIsRecorded(p)'
  <2>1. PICK a \in {Result(w), Refused("error")} : answer'[p] = a /\ request'[p] = r
    BY <1>1, <1>3 DEF Finish, LocalTypeOK
  <2>2. Result(w).points = w.delta /\ Result(w).balance = w.after /\ Refused("error").status = "error"
    BY DEF Result, Refused
  <2> QED BY <1>1, <1>2, <1>5, <1>7, <1>8, <1>10, <2>1, <2>2 DEF AnswerIsRecorded, Posted
<1> QED BY <1>1, <1>9, <1>11, <1>12

LEMMA AnswersKept ==
  ASSUME LedgerInvariant, AnswersInvariant, [Next]_vars
  PROVE  AnswersInvariant'
<1>1. LocalTypeOK
  BY DEF LedgerInvariant, TypeOK
<1>2. ASSUME UNCHANGED <<txs, answer, request, pc>>
      PROVE  AnswersInvariant'
  BY <1>2 DEF AnswersInvariant, AnswersAreRecorded, AnswerIsRecorded, FingerprintNamesClient, Posted
<1>3. ASSUME NEW p \in Proc, Receive(p) \/ Step(p) \/ Fail(p)
      PROVE  AnswersInvariant'
  <2>1. Carried(p) /\ pc[p] # "done" /\ answer[p] = None
    BY <1>3, StepCarries, StepAnswers DEF AnswersInvariant
  <2>2. \A q \in Proc \ {p} : pc'[q] = pc[q] /\ request'[q] = request[q]
    BY <2>1 DEF Carried, Untouched
  <2>3. ASSUME UNCHANGED <<answer, txs>>
        PROVE  AnswersInvariant'
    <3>1. RowsStay /\ FingerprintNamesClient'
      BY <2>3 DEF RowsStay, AnswersInvariant, FingerprintNamesClient, Posted
    <3>2. \A q \in Proc \ {p} : AnswerIsRecorded(q)'
      BY <2>2, <2>3, <3>1, AnswerStays
    <3>3. AnswerIsRecorded(p)'
      BY <2>1, <2>3 DEF AnswerIsRecorded
    <3> QED BY <2>1, <2>2, <2>3, <3>1, <3>2, <3>3 DEF AnswersInvariant, AnswersAreRecorded
  <2>4. ASSUME NEW a, Finish(p, a), AnswerIsRecorded(p)', a # None => request[p] \in Requests,
               RowsStay, FingerprintNamesClient'
        PROVE  AnswersInvariant'
    <3>1. /\ answer'[p] = a /\ pc'[p] = "done" /\ request' = request
          /\ \A q \in Proc \ {p} : answer'[q] = answer[q]
      BY <1>1, <2>4 DEF Finish, Goto, LocalTypeOK
    <3>2. \A q \in Proc \ {p} : AnswerIsRecorded(q)'
      BY <2>4, <3>1, AnswerStays
    <3> QED BY <2>2, <2>4, <3>1, <3>2 DEF AnswersInvariant, AnswersAreRecorded
  <2>5. CASE Live(p) /\ \E status \in Status \ {"ok"} : Refuse(p, status)
    <3>1. PICK status \in Status \ {"ok"} : Refuse(p, status)
      BY <2>5
    <3>2. Finish(p, Refused(status)) /\ UNCHANGED txs
      BY <3>1 DEF Refuse, tables
    <3>3. RowsStay /\ FingerprintNamesClient'
      BY <3>2 DEF RowsStay, AnswersInvariant, FingerprintNamesClient, Posted
    <3>4. AnswerIsRecorded(p)'
      <4>1. answer'[p] = Refused(status)
        BY <1>1, <3>2 DEF Finish, LocalTypeOK
      <4>2. Refused(status).status # "ok"
        BY DEF Refused
      <4> QED BY <4>1, <4>2 DEF AnswerIsRecorded
    <3>5. request[p] \in Requests
      BY <2>5, LiveFollows
    <3> QED BY <2>4, <3>2, <3>3, <3>4, <3>5
  <2>6. CASE /\ pc[p] = "check" /\ Posted(KeyOf(request[p])) /\ SameFingerprint(p)
             /\ Finish(p, Replayed(txs[KeyOf(request[p])])) /\ UNCHANGED tables
    <3>1. RowsStay /\ FingerprintNamesClient'
      BY <2>6 DEF RowsStay, AnswersInvariant, FingerprintNamesClient, Posted, tables
    <3> QED BY <2>4, <2>6, <3>1, ReplayIsRecorded
  <2>7. CASE CommitPosting(p)
    <3>1. PICK a : Finish(p, a)
      BY <2>7 DEF CommitPosting
    <3> QED BY <2>4, <2>7, <3>1, CommitIsRecorded
  <2> QED BY <1>3, <2>3, <2>5, <2>6, <2>7, StepAnswers
<1>4. CASE ChangeRules \/ PassTime \/ AllAnswered \/ UNCHANGED vars
  BY <1>2, <1>4 DEF ChangeRules, SaveRule, PassTime, Tick, AllAnswered, vars, tables, local
<1> QED BY <1>3, <1>4 DEF Next

\* LoyaltyService's state keeps its types at every statement of a posting.
THEOREM StatementsAreTyped == Spec => []TypeOK
  BY LedgerIsCurrent, PTL

\* However often an operation is delivered, retried or races with itself, its row
\* stands in the account of its client exactly once.
THEOREM OperationsCountOnce == Spec => []PostedOnce
  BY LedgerIsSound, PTL

\* A success that Accrue, Redeem or Refund answered, at once or as a replay, is the
\* recorded operation of that request, with its points and its balance.
THEOREM AnswersAreTrue == Spec => []AnswersAreRecorded
<1>1. Init => AnswersInvariant
  BY DEF Init, TablesInit, AnswersInvariant, AnswersAreRecorded, AnswerIsRecorded,
         FingerprintNamesClient, Posted
<1>2. LedgerInvariant /\ AnswersInvariant /\ [Next]_vars => AnswersInvariant'
  BY AnswersKept
<1>3. AnswersInvariant => AnswersAreRecorded
  BY DEF AnswersInvariant
<1> QED BY <1>1, <1>2, <1>3, LedgerIsCurrent, PTL DEF Spec, LedgerInvariant

\* The totals PostRefund keeps on an original are the sums over its refund rows and stay
\* within it, whatever refunds of it, repeats and sales run at once; also when amounts
\* are finer than the columns that keep them.
THEOREM RefundsAreCounted == Spec => []RefundsAddUp
  BY LedgerRefines, AtomicSums, PTL DEF ImplementsAtomicLedger

\* A client's redemptions in any window stay within the daily limit, although each is
\* counted from the start of its own transaction and may wait for its lock after it.
THEOREM DailyLimitIsKept == Spec => []DailyLimitHolds
  BY LedgerRefines, AtomicDailyLimit, PTL DEF ImplementsAtomicLedger
===============================================================================
