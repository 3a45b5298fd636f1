# PromoGo in TLA+

PromoGo is a loyalty back end: a store's till (1C) reports sales, redemptions
and refunds over HTTP; the service keeps the customers' points in PostgreSQL and
notifies the customers; customers and staff sign in to their own applications.
This directory holds models of the program, checked with TLC, and proofs about
them, checked with TLAPS. The source was read at one commit; paths below are
relative to the repository.

## 1. Inventory

The program is a single Go server (`cmd/promogo`, `internal/app`) over PostgreSQL
and Redis. Several replicas may run against the same databases, so all mutual
exclusion is done by the databases: row locks, unique indexes, guarded UPDATEs and
Lua scripts.

| Component (source) | State | Operations | What is hard | What makes it correct |
|---|---|---|---|---|
| Points arithmetic (`mechanic/points`, `service/loyalty.go`, `ledger_repository.go`) | none | earn, cap, refund share | flooring, amounts finer than the column | shares are monotone, never exceed the whole, the last refund takes the rest |
| Ledger (`service/loyalty.go`, `repository/postgres/ledger_repository.go`, `transaction_repository.go`) | `transactions`, `balances`, `clients`, outbox rows | Accrue, Redeem, Refund, with replay of repeated requests | interleaved statements, retries, failures at any statement, lost answers, unlocked reads | each operation takes effect atomically and once; balances are the sums of their rows; refunds add up; limits hold |
| Loyalty configuration (`loyalty_config_repository.go`, `admin_loyaltyconfig.go`) | `loyalty_configs` and its history | Upsert with an optimistic version, read by the ledger | change while an operation is priced; first save has no row to lock | no lost update; every row names the version it was priced with |
| Notification outbox (`service/outbox_worker.go`, `notification_outbox_repository.go`) | status, attempts, next attempt of an entry; in-flight deliveries of each replica | claim, send, mark, back off, dead-letter | leases, deadlines, crashes between send and mark, replicas | one live claim per entry, at least one attempt for each, attempts bounded |
| Application life cycle (`app/app.go`, `httpserver/background.go`) | server, worker, background goroutines | Run, Shutdown, Close | ordering of shutdown, drain timeouts | pools close only after their users end or run out of time |
| OTP login (`service/otp_store.go`, `customerauth.go`) | Redis: code, attempts, cooldown, counters | RequestOTP, VerifyOTP | racing guesses, non-owner release of the cooldown, commands sent again, failure after the code is consumed | a code opens one session; at most MaxAttempts guesses; only a Redis command that runs again breaks either, or lets two requests work on a phone |
| Customer sessions (`customer_session_repository.go`, `customerauth.go`) | `customer_sessions` chained by rotation | Refresh, Logout, LogoutAll | two refreshes with one token, revocation against rotation | one live session per chain; reuse ends the family |
| QR codes (`service/qr_store.go`, `qr.go`) | Redis: token, claim lease, cooldowns | issue, claim, finalize, release | two tills, expired leases, failures between, commands sent again | a code is consumed once, and once more at most for each repeated command that put it back |
| Staff administration (`admin_staff.go`, `staffauth.go`, `bootstrap.go`) | `staff_users`, `staff_memberships` | create, change role and status, bootstrap | mutual disabling, partial updates, racing creation | writes stay in the writer's scope; only administrators remove administrators |
| Organisations and stores (`admin_organizations.go`) | `organizations`, `stores` | create, PATCH | ids of other tenants in path and body, read-modify-write | writes stay in scope |
| API keys (`admin_apikeys.go`, `store_api_key_repository.go`) | `store_api_keys` | create, revoke, use | use racing revocation | created and revoked in scope only |
| Register simulator (`cmd/possim`) | queue file | append, replay | two processes over one file, retries | no operation lost or reordered |
| Rate limiter (`internal/ratelimit`) | Redis counters | allow | window edges, Redis failure | bounded admissions in a window |
| Everything else | – | queries, wiring, formatting | – | see section 12 |

How they interact: an HTTP handler calls `LoyaltyService`, which reads through
repositories and then calls one posting transaction of `LedgerRepository`. That
transaction inserts the notification in the same commit, and from then on the
outbox worker owns it. A client that registers with an accrual may be linked to
a customer account that an OTP login creates; a QR code stands for such a client
at a till. Administrators change the configuration that later operations read.

The hazards, each at its line, are in `PROJECT.json`.

## 2. Plan

The modules, in the order of their importance. All are written, each with an MC module,
and the safety invariants the runs check are proved (section 9).

1. `PointsMath`, `LedgerTables`, `AtomicLedger`, `Ledger`, `LedgerClaims`, `AtomicLedgerProofs`,
   `LedgerProofs`: the points, which is what the system is for.
2. `Outbox`, `OutboxWorker`, `OutboxProofs`: the notifications, from the commit that queues
   them to their delivery or dead letter.
3. `CustomerLogin`, `CustomerSessions`, `QRTokens` with a proof module each: what is to be
   used once, and races.
4. `StaffAccess`, `Administration`, `AdministrationProofs`: what staff change in parallel.
5. `Register`, `RegisterProofs`: the till before the ledger.
6. Left: the drains of HTTP requests and background goroutines in `App.Run` and a rate limiter
   profile with several rules; an abstract specification of a token family and of a
   QR code, which the session and QR modules would be shown to implement, as the ledger and the
   outbox are.

Each module has one run that checks it whole; a run of its own is kept for a
documented statement that the code does not keep and for the ledger's larger
questions. Further instances, listed with their module, are kept beside the runs.

## 3. The ledger

`LedgerTables` declares the tables and requests, one committed posting (`Commit`)
and the invariants of the tables. `AtomicLedger` gives each operation one step.
`Ledger` extends it with the requests: `pc[p]` is the place of HTTP request `p` in
the Go code, `row[p]` the `domain.Transaction` it builds, `held[p]` the row and
index locks of its transaction, `answer[p]` what it was told.

| Code | Model |
|---|---|
| `clients` rows, unique by store and phone | `clients`; `StoreOf`, `PhoneOf` |
| `loyalty_config_history` | `rules[s]`, a sequence: version v at index v |
| `balances.points` | `balance` (a missing row reads as zero) |
| `transactions` row, unique by (store, type, external id) | `txs[k]` for `k \in Key`; `refunded[k]` holds `refunded_amount`, `refunded_points` |
| order of commits for one client | `journal` (history, not a column) |
| `notification_outbox` dedupe keys | `outbox` |
| `LoyaltyService.Accrue` | `CheckReplay`, `RegisterClient`, `PriceAccrual`, then the posting |
| `LoyaltyService.Redeem` | `LoadClient`, `CheckReplay`, `ReadRule`, `ReadFunds`, then the posting |
| `LoyaltyService.Refund` | `ResolveTyped` / `ResolveAccrual`, `ResolveRedeem`, `CheckReplay`, then the posting |
| `Post`, `PostRedeemChecked`, `PostRefund` | `Begin`, `LockOriginal` (refund only), `AdjustBalance`, `InsertRow`, `QueueNotices`, `CommitPosting` |
| unique violation, `domain.ErrConflict`, second look for the replay | `InsertRow` back to `check` |
| any error return or crash with the deferred rollback | `Fail` |
| answer lost after the commit | `CommitPosting` with the answer "error" |

Writes become visible at the commit (READ COMMITTED). A statement that finds a
lock taken is not enabled until the lock is free. PostgreSQL gives the second
inserter of a unique key the same wait, and so does `ON CONFLICT DO NOTHING` for
the dedupe key. A statement that only reads or writes rows its transaction has already
locked is one step with the lock: no other transaction can come between.
`Receive` starts any request in any process, so two processes with the same
request are a retry or a duplicate delivery. Amounts are whole units, `Cent` of them to
a kopeck, so amounts finer than the column can be expressed.

The redemption's `at` is the clock when its transaction began: PostgreSQL's `now()`
is the transaction's start, and the row may be written much later.

### Runs

All use module `MCLedger`. Processes are symmetric (except in the liveness run),
no state constraint is used; every bound is a constant: the number of requests
in flight (`Proc`), of versions a store's rules reach (`MaxRules`), of clock ticks
(`MaxTime`).

| Run | Instance | Shows |
|---|---|---|
| `refunds` | 4 requests in flight out of a sale of 3 points, a typed refund of 100 of its 310 kopecks, an untyped one of the rest, and its receipt reused for 250 | `PostedOnce`, `RefundsAddUp`, `RefundsProportional`, `HistoryIsFinal`: with two refunds, a repeat and the sale all racing, a rounding remainder exists in between and is taken by the closing refund |
| `payments` | 3 in flight out of two sales sharing a receipt, two redemptions that cannot both be paid, refunds of a redemption and of spent points; two versions of the rules | types, accounts, rules of redemption, debts, notifications, answers, the inductive invariant, and `ImplementsAtomicLedger`: refinement of `AtomicLedger` |
| `limit` | 3 in flight out of a sale and two redemptions of 2, limit 3 in a window of 2, times 0..3 | `DailyLimitHolds` for each window, whatever the waits |
| `liveness` | 3 in flight, two stores, clients sharing a phone | `EveryRequestAnswered` |
| `debt` | the smallest instance with a refund of spent points and a later sale | finds `AccrualsPayDebtFirst` violated, see section 11 |

`Ledger_refund_replay.cfg`, `Ledger_rounding.cfg` and `Ledger_retry.cfg` are kept
beside the runs: each is the smallest instance in which TLC finds another statement
of the documentation violated (section 11).

Why the bounds are enough: an invariant of the ledger relates at most two
operations of one client and the original they refund. Three processes allow the
operation, its duplicate and a rival; a fourth allows the two refunds, the
repeat and the sale before them. Two receipts give a key that is reused and one
that is not. The proofs below remove the bounds for most of the properties.

The mutants of `PROJECT.json` break each property: without the lock on the
balance the accounts stop balancing, without the one on the original refunds
are lost, and so on. They are defined next to the definitions they replace and
marked as mutants.

### Fairness

`FairSpec` asks weak fairness of `Step(p)` for each request: PostgreSQL runs the next
statement and hands a free lock to a waiter. Nothing makes a request arrive, an
administrator save rules, time pass or a step fail. Weak fairness suffices
because locks are requested in the order original, balance, key, outbox
entry, and a holder of the last lock needs no other: the model has no waiting
cycle, and requests are finite, so that a waiter is not overtaken forever.

## 4. The outbox

`Outbox` is the promise for one entry: it waits, failures are counted one at a time, and
it settles for good when some send of it returned nil or when `MaxAttempts`
failures are counted. `OutboxWorker` has the table, and a worker per replica:

| Code | Model |
|---|---|
| `notification_outbox.status`, `attempts`, `next_attempt_at` | `status`, `attempts`, `due` (time left until then) |
| `Run`'s select, a tick buffered in `ticker.C` | `loop[w] = "select"`, `ticked[w]`; `StartPoll`, `Return` |
| `deliverCtx`'s timeout | `deadline[w]` counts down |
| `ClaimBatch`, `claimLease` | `Claim`, `ClaimFails`, `ClaimLease` |
| a goroutine of `pollOnce` with its copy of the entry, the semaphore | `task[w][e]`, `Holding(w)`; `StartSend` |
| `send` | `SendReturns`: nil or an error |
| `MarkDelivered`, `MarkFailed`, `MarkDeadLetter` by id | `Mark` with `MarkOutcome`; a failed mark is only logged |
| everything after the deadline | `CutOff`: the mark fails, the entry stays claimed |
| `cancelWorker()`, `outboxDrainTimeout`, `Close` | `CancelWorker`, `drain[w]`, `Close` |
| death and restart of the process | `Crash`, `Boot` |

Time is a countdown in units no shorter than `PollInterval`. What a context or a timer
ends, ends before time goes on (`Overrun`). A unit that passes while a worker could
go on is a stall of the process or the database and is counted as a fault, with
crashes, shutdowns and database errors.

| Run | Instance | Shows |
|---|---|---|
| `outbox` | 2 entries, 2 replicas, batches of 2, one send at a time, 2 attempts, timeouts 1 < 2 < 3 (send, poll, lease and drain), two faults | types and bounded attempts, `ClaimsAreExclusive`, `TaskHoldsClaim`, `ImplementsOutbox`, `EveryEntrySettled` |

`Outbox_drain.cfg`, kept beside it, finds `DrainOutlastsPolls` violated (section 11).

The order of the timeouts is that of the code: a push 5 s or a text message 3 tries of
5 s, a poll 30 s, the drain 35 s, the lease 60 s. The sends of a batch, one after the
other, use up the poll's deadline, as five rounds of ten texts may in the code, so
entries are cut off without any fault. Two replicas suffice for the claim and its
rival; two entries for a batch whose second send comes too late. Two faults
are two of a crash, a shutdown, an error of the database and a unit of stall at any step;
two units of stall take a claim past its deadline. How long an entry is overdue
(`MaxOverdue`) only orders the claims of a batch that is too small for all, which the instance
leaves to the proofs: they cover any number of entries, replicas and faults and any
batch size. The instance has no terminal state, so deadlock is checked.

`FairSpec` asks that time passes and that each worker goes on, its process being
started again when it is down. It does not ask that a send succeeds: an entry also
settles by using up its attempts. That needs one more fact of the code, `SendTimeout <
DeliverTimeout`, by which at least the first send of each poll is marked; a gateway
timeout configured above 10 s would break it.

Assumed: replicas and database agree on the time (the claim uses the database's
`now()`, the backoff the replica's), calls honour their contexts, and a statement takes
effect by its deadline or never. "Sent" means that `Send` returned nil; the push channel
logs errors of single devices and returns nil. The push and SMS services are
a free choice of outcome.

## 5. Customer login and sessions

`CustomerLogin` has the requests of `RequestOTP` and `VerifyOTP` as processes over Redis
and PostgreSQL. Every Redis command or script and every statement is one step.

| Code | Model |
|---|---|
| `otp:cooldown:<phone>`, set with NX and a TTL | `cooldown`, with the request that set it (history: the value in Redis is "1") |
| `otp:code:<phone>` | `challenge`: code, wrong attempts, time left; `StoreCode`, `CheckCode` |
| `otp:rl:phone:…`, `otp:rl:ip:…` | `counter`; `Increment`, `CountPhone`, `CountIP` |
| `RequestOTP` | `AcquireCooldown` / `CooldownActive`, `CountPhone`, `CountIP`, `StoreCode`, `SendText`, `ReleaseCooldown` |
| `VerifyOTP` | `CheckCode`, `FindAccount`, `CreateAccount`, `LinkClients`, `RecordConsent`, `CreateSession` |
| `requestTimeoutMW`, a crash | `GiveUpRequest`, `GiveUpVerify` |
| expiry in Redis | `PassTime` |
| go-redis sending a command again (`app.go:103-107` leaves `MaxRetries` at its default) | `sent`, `RunsAgain` |

Every command a request sends stays in `sent`, also when it failed, and a copy of it may take
effect at any later time, whatever has happened in between. That allows more than the client does,
which retries only while its caller waits, though a copy that the network held back may come later
still; the properties hold all the same, and the violations found (section 11) need no more than
the client does. `lateDeletes` counts the
copies of a DEL that deleted a cooldown, `lateStores` those of the MULTI that put a code back
(both history). Neither the DEL nor the MULTI asks whose key it meets, so the comment of
`acquireCooldown`, `OneRequestAtATime`, is false of the program (section 11). What the
cooldown does give is `OnlyRepeatsLetIn`: the requests at work on a phone without the key
they set are no more than the copies that deleted one. It would be false if
a request's own release could come so late as to meet another one's cooldown, or if any failure
or refusal released what it does not hold. The two promises about codes carry the copies of
the MULTI in the same way, and the limits on texts hold whatever runs again.

A code is named by the request that generated it; whoever verifies may present any of
them, so a right guess is always possible. Time is a countdown, and no request outlives
`RequestTimeout`, which is shorter than the cooldown (8 s against 1 min by default).
Nothing in the code compares the two settings, and `OnlyRepeatsLetIn` depends on it.

`CustomerSessions` starts where a login ends. A session is named by its refresh token.

| Code | Model |
|---|---|
| `customer_sessions` | `session`: state, account, successor, expiry, and the login it descends from (history) |
| `SELECT … FOR UPDATE` to the end of the transaction | `holder`; `RowLock`, `Unlock` |
| `Refresh` | `ClaimForRotation`, `CommitRotation` or `Rollback`, `CheckAccount` |
| `RevokeAllForAccount` (by `LogoutAll`, on reuse, for a blocked account) | `BeginRevokeAll` takes the snapshot, `EndRevokeAll` waits for the locks and looks again |
| `Logout` | `Logout`, one UPDATE |

| Run | Instance | Shows |
|---|---|---|
| `login` | 1 phone, 2 code requests, 2 verifications, 2 attempts, limits of 2 for the phone and 1 for its address, 2 windows, times 1 < 2 < 3, 2 faults | types, `OnlyRepeatsLetIn`, `GuessesBounded`, `OneLoginPerCode`, `TextsBounded` |
| `sessions` | 1 account, 4 tokens, 3 calls, 2 faults | types and locks, `OneLivePerFamily`, `BlockedGetNoTokens`, `RevocationIsFinal` |
| `logout_all` | the same with one fault | finds `RevokeAllLeavesNone` violated (section 11) |

Two requests are enough for one whose cooldown a copy or a refusal takes away and the
one that does it, and for a code and the one that replaces it. Three are
needed for a release, the cooldown its copy deletes, and the request that is then let
in: `Login_requests.cfg`, kept beside the run, has three of them for two phones behind one address and
no verifications, and satisfies `OnlyRepeatsLetIn` and `TextsBounded`; `Login_resend.cfg` has one phone and
finds `OneRequestAtATime` violated (section 11). Two faults are the failure that makes a request
release and the copy of its DEL. A fault is a failed, lost or repeated command, a crash, or an account that
is blocked, at any step. Two verifications are enough for two guesses of one code, or for two logins that create one
account. A phone that has been refused is asked again by another request,
in the same window or the next. Four tokens are a login rotated twice beside
another login; three calls are two refreshes of one token and a revocation. Calls
of `CustomerSessions` run once, so its end is no deadlock.

## 6. QR codes

`QRTokens` has the calls of `IssueQR` and `ResolveQR`.

| Code | Model |
|---|---|
| `qr:token:<hash>` | `active` (time left), `owner` |
| `qr:claim:<hash>` | `claim`, with the call that set it (history) |
| `qr:issue-cooldown:…`, `qr:consume-cooldown:…` | `issuing`, `consuming` |
| `qrStore.issue` | `AcquireIssueCooldown`, `StoreToken` |
| `qrClaimScript`, `qrReleaseScript`, `finalize` | `MoveToClaim` in `ClaimToken`, `MoveBack` in `Release`, `DropClaim` in `Finalize` |
| `ResolveQR`'s statements | `LoadAccount`, `ListClients`, `FindByPhone`, `CreateClient`, `LinkClient`, `LoadBalance`; `StatementFails` |
| a sale that registers the phone | `RegisterClient` |
| go-redis sending a command again | `sent`, `RunsAgain` |

The scripts never ask whose claim they move or delete, nor the SET of a token whether it was used.
A call ends (8 s) before its claim does (30 s), so with each command taking effect once that
would be sound. As commands may run again (section 5), a copy of a release or of a
finalize can take away a till's claim, and a copy of a release or of the SET can make a
code usable that a till is at work on or has had answered. `putBack` and `dropped` count those copies
(history). `OnlyRepeatsTakeClaims` and `OnlyRepeatsReuseCodes` say that nothing else does: the
tills at work without their claim, and a code's answers beyond the first, are each covered
by a copy of their own. `ResolvedOnce`, the one-time consume of the comments, is violated (section 11).

Run `qr`: two customers' calls with 2 tokens, 3 calls of two tills (principals), 2 faults,
times 1 < 2 < 3 for request and cooldowns, claim, token. Three calls are one that
works on a claim, one that takes the token after its release or a copy of one, and one that came
too late. `QR_resend.cfg`, kept beside it, has one token and only releases run again
(`Repeats`); it finds `ResolvedOnce` violated. Adding `FailedIssueReleases` to `QR.cfg`, or `FailedResolveReleases` with `MaxFaults = 0`, makes TLC find
them violated (section 11).

## 7. Administration

`StaffAccess` has staff users, memberships and `RequireStaff`; `Administration` extends it
with organisations, stores, configurations and keys. Requests are processes; only
`Upsert` opens a transaction, so each statement of the others takes effect at once.

| Code | Model |
|---|---|
| `organizations`, `stores` rows; `stores` columns | `places`; `profile` |
| `staff_users`, `staff_memberships` | `staff`, `member` |
| `RequireStaff`, `RequireGlobalStaffPermission`, `HasPermission` | `Authenticate`, `LoadPrincipal`, `Allowed`, `HasPermission`; `held` is the principal |
| `handleCreateStaffMembership` | `FindUser`, `CreateUser`, `InsertMember` |
| `handleUpdateStaffMembership` | `LoadMember`, `SetRole`, `SetStatus` |
| `handleStaffOIDCLogin`, `BootstrapPlatformAdmin` | `BeginWithUser`, `FindUser`, `CreateUser`, then `LoadPrincipal` or `ListMembers`, `Promote`, `Grant` |
| `resolveScopedStore` | `LoadStore` |
| `LoyaltyConfigRepository.Upsert`, roll-back | `ReadHistory`, `LockConfig`, `UpsertConfig`, `CommitConfig` |
| `handleCreateOrganization`, `handleCreateStore`, `handleUpdateStore` | `InsertOrg`, `InsertStore`, `UpdateStore` |
| `store_api_keys` | `key`; `InsertKey`, `RevokeKey` |

Run `administration`: three organisations and stores, one of each still to be created, four
users of every rank, any two of 22 kinds of requests by anyone, among them
paths that name a store or membership of another organisation, one fault. A request
asks for an element of `Ops`, a subset of `Operation`, the requests that the routes and the
validation of the bodies let through.
It shows types with the unique constraints, `VersionsAreHistory`,
`NothingUnseenIsOverwritten`, `WritesStayInScope` and `LastOneStays`. The configurations there are at the
start have their row in the history or, as those that were there before migration 00026,
version 1 without one. Two requests are enough:
each property speaks of a writer and what changed after it read.
What a first request leaves behind (a new user, a first version, a key) is what the
second meets, whether in the middle or at the end of the first. Requests run
once, so the end is no deadlock. `Administration_last_admin.cfg`, kept beside it, finds
`EveryOrgAdministered` violated (section 11).

## 8. The till

`Register` has `possim`'s commands over its queue file, against an API reduced to what the
ledger promises: what is posted by an id is posted once. The key and the rate
limit in front of it are modelled as they decide whether a queued operation stays.

| Code | Model |
|---|---|
| the queue file, one operation a line | `file` |
| `runSale`, `runRefund`, `runReplay` | `Begin`, `Look` (`drainFirst`), then `Load` or the live request |
| `replay` | `Load`, `Delivered`, `Undelivered`, `SaveRest`, `SaveNothing`, `SaveFails` |
| `client.do`, `isTransient` | `Transient`, `Refused` |
| `RequireStoreAPIKey`, `Middleware.Wrap`, the handler | `WithoutKey`, `Limited`, `Handled` |
| no connection, a 5xx, a lost answer | `Unreachable`, the last disjunct of `Handled` |
| a command that is killed | `Killed` |

An operation counts as made when its command ends without being killed, or when the API
has recorded it: a cashier whose command died repeats it with the same id.

Run `register`: two sales and a refund of the first, one command at a time as on a till, two
attempts a request (the code has three; two already give a repeat and a last attempt),
a limit of 2 a window, four faults of any kind. It shows `NothingIsLost`,
`NothingOvertakes` and `RefundsFindTheirSale`. The API of the model refuses a sale for its key only and
a refund for its key or a missing original; that a sale is refused for what it
says (an unknown mechanic, say), or a refund for its amount, is not modelled, so `RefundsFindTheirSale`
is about the refund that comes before its sale and no other refusal. With two commands at once `NothingIsLost` is violated
(section 11). Four faults suffice for a request that fails on each attempt, then
a replay that breaks off, then a kill.

### No liveness in sections 5 to 8

These parts have no scheduler of their own. Calls come from clients, who may stop
coming; `possim` replays when a cashier starts a command. A call that
is started ends by its deadline, whatever it does, so a fairness assumption would only
prove itself. The liveness of the system is that of the ledger's lock waits and
of the outbox worker.

## 9. Proofs

* `AtomicLedgerProofs` begins with the arithmetic: division on naturals is monotone and
  bounded, so a refund share is a natural number, at most the whole, monotone in the refunded
  amount; capping is idempotent; whole kopecks survive the column's rounding. Then the three
  operations are shown to be postings of one shape (`Postable`, `Requested`, `Noticed`), and each
  invariant to survive any such posting. Type correctness; accounts balance and operations
  count once (proved together: a row stands in an account only if it is posted); notices;
  debts; redemption rules; proportional refunds; final history.
* Its last part is about sums. The model adds with the community modules' `SumFunction`, a
  fold over a finite set whose result, by its definition, depends on an order of the
  elements. The laws the ledger needs (a sum does not depend on the order, a new row adds its
  amount, fewer rows add up to less) are proved from a smallest finite set on
  which one of them would fail: the subsets of a finite set are well founded, so no principle of
  induction over an operator is needed. With them `RefundTotals` is inductive: the counters of
  an original are the sums of its refund rows, the sums fit the column, and an
  original that is not there has no refunds. `RowsArePast` and `WindowsHold` are what the daily
  limit needs: nothing is dated later than the clock, so the window that ends now holds
  whatever a window ending later adds to it.
* `LedgerProofs`: the inductive invariant `TypeOK /\ CommitsAreCurrent`. The
  unlocked reads of the service make the invariants of the tables non-inductive over
  statements: one has to know that what a request read earlier either cannot
  become false (clients are never removed, rule versions never change, recorded rows are
  final: `Growth`) or is protected by a lock it holds (`Protected`). For each action one
  lemma shows that its own process carries the invariant (`...Carries`), another that
  all other processes keep it. At the commit the invariant is exactly the guard of the atomic
  operation, hence `LedgerRefines`, and by it the atomic invariants hold of the
  statements (`LedgerIsSound`, `OperationsCountOnce`, `RefundsAreCounted`, `DailyLimitIsKept`,
  `LedgerIsProportional`). `AnswersAreTrue` is about the requests and not the tables: a replay is
  recognised by its fingerprint, so `AnswersInvariant` adds that the fingerprint of a
  recorded row names its client.
* `OutboxProofs`: that claims are exclusive is not inductive by itself. A claim is taken
  when it runs out, so one has to know that a poll has ended by then: the invariant
  `TasksAreClaims` compares two timers, `due[e] - deadline[w] >= Lease -
  DeliverTimeout` while `w` has a task for `e`. They start that far apart at the claim
  and count down together, since no time passes for a poll whose deadline is
  over. With it a due entry has no task (`BatchIsFree`), marks by id hit the row that
  was claimed, the copied attempts are current, and each step is one of the promise
  or a stutter (`OutboxKeepsPromise`).
* `CustomerLoginProofs`: that a request keeps its cooldown unless a copy of a DEL took it follows from
  the same comparison of two timers, the cooldown and the request that set it
  (`PhonesAreHeld`): what was set last outlives the request, so whoever finds the key gone finds no
  request at work with one of its own, and a deletion can add only one request to
  those without. Guesses are the stored attempts and what copies of the store forgot
  (`ChallengesCount`); a code that opened a session is no longer stored
  unless such a copy put it back (`CodesAreSpent`, `CodesAreCounted`), and a text that was sent was counted in its window (`PhoneTextsCounted`,
  `IPTextsCounted`), also when a counter has expired between the count and the text.
* `CustomerSessionsProofs`: between its read and its commit a rotation's token is live, locked and
  without a successor (`RotationsAreProtected`), and what is not issued is in no
  family (`SessionsAreIssued`). That is why one family keeps one live session while
  revocations with an old snapshot run past it.
* `QRTokensProofs`: the timers once more, of a claim and its call (`ClaimsOutliveCalls`), then a
  count (`UsesAreCounted`). The tills at work on a code are the one with its claim and one for each
  copy that put the code back or dropped a claim; the answers, the tills at work and the usable key
  share the one use a code has and one for each copy that put it back. A claim moves the use
  from the key to the till and finalizing from the till to the answer. Each
  action is shown to change these sets by the one element it names; their sizes are finite
  because tills are.
* `AdministrationProofs`: only `Upsert` runs under a lock, every other request acts on what it read
  some statements ago. So the type of a request (`DecidedCall`) says for each phase what was
  decided by then, `RowsFound` which of the rows it read are still there, and
  `SavesAreSerial`, `FirstsAreRecorded` and `EntriesAreExpected` that a save's version is the next one as long as it holds the
  row, or the row's absence is what its insert will find out: the first save of a store that
  had none meets the row of the other one in the history, since a configuration without such a row
  is older than both.
* `RegisterProofs`: what a replay has left in memory is the end of the file, and what it has
  passed is done (`ReplayIsSuffix`); a line that is not done has everything before it that is not done
  earlier in the file (`FileInOrder`); an operation goes out live past an empty file only
  (`LiveIsAlone`), and if its command dies after the API has recorded it, everything made
  before is done (`PostedIsMade`). It follows that the handler's 404 for a refund is out of reach while
  the key is valid (`SaleIsFound`).

In each module the inductive invariant (`IInv` but for the ledger) was checked with TLC on
the module's run before it was proved.

Assumptions, all on constants:

| Assumption | Says, and why the code justifies it |
|---|---|
| `TablesAssumption`, `BoundsAssumption`, `CentAssumption` | types and bounds |
| `WholeKopecks` | requests name whole kopecks. Only for proportional refunds, redemption rules and final history, and necessary: `Ledger_rounding.cfg` shows what happens otherwise. The sums and the daily limit do without |
| `TimingAssumption` | the order of the outbox timeouts |
| `LoginAssumption` | a request ends before its cooldown (8 s, 1 min), finitely many requests and verifications; phones and addresses have different counters (their key prefixes differ) |
| `QRAssumption` | a call ends before its claim (8 s, 30 s), finitely many tills |
| `SessionsAssumption` | bounds; "none" is not a token, call or account |
| `StaffAssumption` | memberships there are at the start belong to organisations and stores there are at the start (foreign keys) |
| `AdministrationAssumption` | requests are among `Operation`: ids by the path, fields by the validation of the body |
| `RegisterAssumption` | types and bounds |
| `OneTill` | of the theorems of `RegisterProofs`: a cashier runs one command at a time. Necessary: two at once lose an operation (section 11) |

Only model-checked: liveness (`EveryRequestAnswered`, `EveryEntrySettled`), which is out of
TLAPS's reach. Every other property of a passing run is proved, for every value of the constants.

## 10. Abstractions

Texts, JSON, HTTP codes other than the distinction of outcomes, the currency
column, metrics and logs are left out. Store and client names are model values.
An invite's conditions (settings, account, daily limit) are a free choice.
Division is exact; `decimal.Div` keeps 16 digits, which no amount below 10^12 rubles can tell
apart. `int64` overflow of points is not modelled: amounts are bounded by NUMERIC(20, 2).
READ COMMITTED is modelled as described above; PostgreSQL's own deadlock
detector and serialization errors are covered by `Fail`. A claim of the outbox is one
step: two overlapping claims are one after the other, where SKIP LOCKED may also
let the second pass over rows whose claim is then rolled back. `CountPending` only feeds a metric.

`RequestTimeout` stands for the 8 s of `requestTimeoutMW` and what a call may add to them: go-redis
looks at a context between attempts but, with `ContextTimeoutEnabled` unset, waits out its 3 s socket
timeout within one. The sum is below the claim's 30 s and the cooldown's minute. The effect of
a command that its caller learns of is in time; a copy may be any time later, since the model does
not say what keeps a command under way. Copies that would do what one more call does are left to that
call: a verification script that runs again is a guess (an idle verification makes it), the
`SET NX` of the two QR cooldowns is one more issue or scan, and the limiter's script, in
`Register`, one more request in the window. Redis keeps its data. An UPDATE of many rows
(`RevokeAllForAccount`) is its snapshot and its end. Contents of configurations, names and
codes are model values. An append to the till's queue is one step.

## 11. Where code and documents disagree

Shown by the runs `debt` and `logout_all`:

* After a refund leaves a debt, an accrual smaller than the debt is refused (and
  answered with 500) although README and DEC-012 say that it pays the debt first.
* `LogoutAll` (and the revocation on reuse) misses the session that a rotation is just
  inserting: its UPDATE waits for the old row and does not see the new one.

Shown by instances kept beside the runs:

* `acquireCooldown`'s comment says that of concurrent requests for a phone exactly one proceeds. A
  release's DEL that go-redis sends again after its reply was lost deletes the cooldown of the
  next request, and one more proceeds (`Login_resend.cfg`).
* A QR code is to be consumed once. A release script that go-redis sends again moves the claim that
  another till has taken meanwhile back to the token, a third till claims that, and both are
  answered (`QR_resend.cfg`). Neither happens with `MaxRetries: -1`, which the repository's tests give their
  clients.
* A replayed refund answers with a zero refunded total and `fully_refunded` false,
  since the lookup does not select the snapshot columns added for it (`Ledger_refund_replay.cfg`).
* A refund of an amount finer than a kopeck may close an original without reversing all of
  its points (`Ledger_rounding.cfg`).
* A duplicate delivered while the first is running may be refused instead of replayed
  (`Ledger_retry.cfg`).
* A cancelled outbox worker may start one more poll, because a tick waits in the channel and
  `select` chooses at random; the drain timeout then ends in the middle of it and `Close`
  shuts the pools. Its entries are sent again after their lease, or twice (`Outbox_drain.cfg`).
* Two administrators who disable or demote each other at once leave an organisation
  with none (`Administration_last_admin.cfg`).
* A QR code that cannot be stored leaves its issue cooldown, since the deferred release looks at
  a shadowed `err` (`FailedIssueReleases` with `QR.cfg`).
* A resolution that failed by its deadline cannot release its claim, since the release
  uses the expired context (`FailedResolveReleases` with `QR.cfg` and `MaxFaults = 0`).

Seen while modelling, each at its line under "findings" in `PROJECT.json`: two `possim` commands
at once lose an operation; a revoked key makes a replay drop the queue; two
PATCHes of a store undo each other; bootstrap promotes a disabled
membership without enabling it; the loser of two first saves of a configuration is
answered 500.

## 12. Not modelled

* The drains of HTTP requests and background goroutines in `App.Run`: only the worker's
  part of the shutdown is in `OutboxWorker`.
* `possim redeem` (it bypasses the queue, so a redemption whose answer was lost is repeated
  under a new id unless the cashier gives the old one) and `flood` (the same sales).
* Rate limiter profiles with several rules; scopes, expiry, last-used stamp and the legacy
  form of API keys.
* Device tokens, consents given later, reports, the audit log: single statements.
* Token signing and OIDC (cryptography and a remote provider), delivery channels (external
  services), configuration, logging, metrics, migrations, the web client.
