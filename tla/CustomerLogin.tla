---------------------------- MODULE CustomerLogin ------------------------------
(***************************************************************************)
(* Login by a one-time code: RequestOTP and VerifyOTP of the customer      *)
(* service over the keys of otpStore in Redis (resend cooldown, rate       *)
(* limits, challenge) and the customer's rows in Postgres.  Requests are   *)
(* processes; each Redis command, script or SQL statement is a step, and   *)
(* between two of them anything else may happen.                           *)
(*                                                                         *)
(* A code is named by the request that generated it: codes are compared,   *)
(* never read.  TTLs and deadlines count down, and no request takes a step *)
(* after its deadline.  A verification's deadline is among the faults that *)
(* may end it anywhere.                                                    *)
(*                                                                         *)
(* The Redis client keeps go-redis' default of sending a command again     *)
(* when its reply is lost.  So a command, once sent, stays in "sent", and  *)
(* besides the effect its request learns of, it may take effect once more  *)
(* at any later time.  A verification script that runs again is a guess    *)
(* whose answer nobody reads; an idle verification makes those.            *)
(***************************************************************************)
EXTENDS Naturals, FiniteSets

CONSTANTS
  Phone, IP,
  Request,        \* POST /auth/otp/request
  Verify,         \* POST /auth/otp/verify
  Nobody,
  RequestTimeout, \* the longest between a request's first step and its last
  ResendCooldown, CodeTTL, RateLimitWindow,
  MaxAttempts, MaxRequestsPerPhone, MaxRequestsPerIP,
  MaxWindows,     \* bound: rate-limit windows of a phone or an address
  MaxFaults       \* bound: failed, lost or repeated commands, crashes, blocked accounts

ASSUME LoginAssumption ==
  /\ IsFiniteSet(Request) /\ IsFiniteSet(Verify) /\ Nobody \notin Request
  /\ Phone \cap IP = {}
  /\ RequestTimeout \in Nat /\ ResendCooldown \in Nat
  /\ CodeTTL \in Nat \ {0} /\ RateLimitWindow \in Nat \ {0}
  /\ 0 < RequestTimeout /\ RequestTimeout < ResendCooldown
  /\ MaxAttempts \in Nat \ {0}
  /\ MaxRequestsPerPhone \in Nat /\ MaxRequestsPerIP \in Nat
  /\ MaxWindows \in Nat /\ MaxFaults \in Nat

VARIABLES
  cooldown,   \* otp:cooldown:<phone>: time left, and whose request set it
  challenge,  \* otp:code:<phone>: code, wrong attempts, time left
  counter,    \* otp:rl:phone:<phone> and otp:rl:ip:<ip>: requests, time left
  account,    \* customer_accounts.status, "none" before the row exists
  client,     \* a clients row with the phone: "none", "unlinked" or "linked"; one that
              \* a sale registers later waits for the next login or QR code
  consented,  \* phones with a customer_consents row
  request,    \* per request: phase, phone, address, the phone's count, time left
  verify,     \* per verification: phase, phone, the code it proved, consent asked
  sessions,   \* customer_sessions rows, and the verification each comes from
  tries,      \* comparisons made with a code
  texts,      \* messages handed to the SMS sender for a phone or an address
  windows,    \* windows its counter has had
  sent,       \* Redis commands of the requests, of which copies may be under way
  lateDeletes, \* per phone: DELs of a cooldown by such a copy
  lateStores, \* per code: times such a copy put it back
  faults

redis    == <<cooldown, challenge, counter>>
postgres == <<account, client, consented, sessions>>
seen     == <<tries, texts, windows>>
late     == <<lateDeletes, lateStores>>
vars     == <<redis, postgres, request, verify, seen, sent, late, faults>>

Key == Phone \cup IP
RedisCommand ==
  [what: {"set cooldown", "count", "store code", "delete cooldown"}, key: Key, by: Request]
CooldownKey == [left: 0..ResendCooldown, by: Request \cup {Nobody}]
ChallengeKey == [code: Request \cup {Nobody}, attempts: 0..MaxAttempts - 1, left: 0..CodeTTL]
CounterKey == [n: Nat, left: 0..RateLimitWindow]
RequestPhase == {"idle", "phone", "ip", "store", "send", "release", "sent", "refused"}
RequestCall ==
  [phase: RequestPhase, phone: Phone \cup {Nobody}, ip: IP \cup {Nobody},
   counted: Nat, left: 0..RequestTimeout]
VerifyPhase == {"idle", "account", "account again", "create", "link", "consent", "session", "done"}
VerifyCall ==
  [phase: VerifyPhase, phone: Phone \cup {Nobody}, code: Request \cup {Nobody}, consent: BOOLEAN]
NoCheck == [phase |-> "idle", phone |-> Nobody, code |-> Nobody, consent |-> FALSE]
NoCode == [code |-> Nobody, attempts |-> 0, left |-> 0]
Fault == faults < MaxFaults /\ faults' = faults + 1

Init ==
  /\ cooldown = [p \in Phone |-> [left |-> 0, by |-> Nobody]]
  /\ challenge = [p \in Phone |-> NoCode]
  /\ counter = [k \in Key |-> [n |-> 0, left |-> 0]]
  /\ account = [p \in Phone |-> "none"]
  /\ client \in [Phone -> {"none", "unlinked"}]
  /\ consented = {}
  /\ request = [r \in Request |-> [phase |-> "idle", phone |-> Nobody, ip |-> Nobody,
                                 counted |-> 0, left |-> 0]]
  /\ verify = [v \in Verify |-> NoCheck]
  /\ sessions = {}
  /\ tries = [r \in Request |-> 0]
  /\ texts = [k \in Key |-> 0]
  /\ windows = [k \in Key |-> 0]
  /\ sent = {}
  /\ lateDeletes = [p \in Phone |-> 0]
  /\ lateStores = [r \in Request |-> 0]
  /\ faults = 0

-------------------------------------------------------------------------------
\* RequestOTP

RequestWorks(r) == request[r].phase \in {"phone", "ip", "store", "send", "release"}

Goes(r, phase) ==
  request' = [request EXCEPT ![r].phase = phase, ![r].counted = 0,
                             ![r].left = IF phase \in {"sent", "refused"} THEN 0 ELSE @]

\* A command that fails was sent all the same.
Sends(r, what, k) == sent' = sent \cup {[what |-> what, key |-> k, by |-> r]}

SetCooldown(r, p) == cooldown' = [cooldown EXCEPT ![p] = [left |-> ResendCooldown, by |-> r]]

\* DEL, whosever value the key holds
DeleteCooldown(p) == cooldown' = [cooldown EXCEPT ![p] = [left |-> 0, by |-> Nobody]]

\* acquireCooldown: SET NX with the cooldown's TTL.  Its reply may be lost: sent
\* again it finds the key it set, the request is refused and nobody releases it.
AcquireCooldown(r, p, i) ==
  /\ request[r].phase = "idle" /\ cooldown[p].left = 0
  /\ SetCooldown(r, p) /\ Sends(r, "set cooldown", p)
  /\ \/ /\ request' = [request EXCEPT ![r] =
            [phase |-> "phone", phone |-> p, ip |-> i, counted |-> 0, left |-> RequestTimeout]]
        /\ UNCHANGED faults
     \/ Fault /\ Goes(r, "refused")
  /\ UNCHANGED <<challenge, counter, postgres, verify, seen, late>>

\* Mutant: a refused request releases the cooldown as the other failures do.
CooldownActiveReleases(r, p) ==
  /\ request[r].phase = "idle" /\ cooldown[p].left > 0
  /\ Goes(r, "refused") /\ Sends(r, "set cooldown", p) /\ DeleteCooldown(p)
  /\ UNCHANGED <<challenge, counter, postgres, verify, seen, late, faults>>

CooldownActive(r, p) ==
  /\ request[r].phase = "idle" /\ cooldown[p].left > 0
  /\ Goes(r, "refused") /\ Sends(r, "set cooldown", p)
  /\ UNCHANGED <<redis, postgres, verify, seen, late, faults>>

\* incrWithExpiryScript: the first increment of a window starts its TTL.
Increment(k) ==
  LET first == counter[k].left = 0
  IN  /\ first => windows[k] < MaxWindows
      /\ counter' = [counter EXCEPT ![k] =
           IF first THEN [n |-> 1, left |-> RateLimitWindow] ELSE [@ EXCEPT !.n = counter[k].n + 1]]
      /\ windows' = [windows EXCEPT ![k] = IF first THEN @ + 1 ELSE @]

\* checkRateLimit counts the phone and the address, and only then compares.
CountPhone(r) ==
  LET p == request[r].phone
  IN  /\ request[r].phase = "phone" /\ request[r].left > 0
      /\ \/ /\ Increment(p)
            /\ request' = [request EXCEPT ![r].phase = "ip", ![r].counted = counter'[p].n]
            /\ UNCHANGED faults
         \/ Fault /\ Goes(r, "release") /\ UNCHANGED <<counter, windows>>
      /\ Sends(r, "count", p)
      /\ UNCHANGED <<cooldown, challenge, postgres, verify, tries, texts, late>>

\* Mutant: the address's own limit is not looked at.
WithinPhoneLimit(phoneCount, ipCount) == phoneCount <= MaxRequestsPerPhone

WithinLimits(phoneCount, ipCount) ==
  phoneCount <= MaxRequestsPerPhone /\ ipCount <= MaxRequestsPerIP

CountIP(r) ==
  LET i == request[r].ip
  IN  /\ request[r].phase = "ip" /\ request[r].left > 0
      /\ \/ /\ Increment(i)
            /\ Goes(r, IF WithinLimits(request[r].counted, counter'[i].n) THEN "store" ELSE "release")
            /\ UNCHANGED faults
         \/ Fault /\ Goes(r, "release") /\ UNCHANGED <<counter, windows>>
      /\ Sends(r, "count", i)
      /\ UNCHANGED <<cooldown, challenge, postgres, verify, tries, texts, late>>

\* store: HSET and EXPIRE in one MULTI; the old challenge is replaced.  A failure
\* here, its effect done or not, keeps the cooldown.
PutCode(r, p) ==
  challenge' = [challenge EXCEPT ![p] = [code |-> r, attempts |-> 0, left |-> CodeTTL]]

StoreCode(r) ==
  LET p == request[r].phone
  IN  /\ request[r].phase = "store" /\ request[r].left > 0
      /\ \/ PutCode(r, p) /\ Goes(r, "send") /\ UNCHANGED faults
         \/ Fault /\ Goes(r, "refused") /\ (PutCode(r, p) \/ UNCHANGED challenge)
      /\ Sends(r, "store code", p)
      /\ UNCHANGED <<cooldown, counter, postgres, verify, seen, late>>

\* The provider may have delivered a message whose sending is reported as failed.
SendText(r) ==
  /\ request[r].phase = "send" /\ request[r].left > 0
  /\ texts' = [k \in Key |->
       IF k \in {request[r].phone, request[r].ip} THEN texts[k] + 1 ELSE texts[k]]
  /\ \/ Goes(r, "sent") /\ UNCHANGED faults
     \/ Fault /\ Goes(r, "release")
  /\ UNCHANGED <<redis, postgres, verify, tries, windows, sent, late>>

\* releaseCooldown; that it failed is only logged
ReleaseCooldown(r) ==
  LET p == request[r].phone
  IN  /\ request[r].phase = "release" /\ request[r].left > 0
      /\ \/ DeleteCooldown(p) /\ UNCHANGED faults
         \/ Fault /\ UNCHANGED cooldown
      /\ Goes(r, "refused") /\ Sends(r, "delete cooldown", p)
      /\ UNCHANGED <<challenge, counter, postgres, verify, seen, late>>

\* The request's context has ended, which fails the release as well; or the
\* process is gone.
GiveUpRequest(r) ==
  /\ RequestWorks(r)
  /\ IF request[r].left = 0 THEN UNCHANGED faults ELSE Fault
  /\ Goes(r, "refused")
  /\ UNCHANGED <<redis, postgres, verify, seen, sent, late>>

\* A copy of a command takes effect, whatever has happened since it was sent.
RunsAgain(c) ==
  /\ c \in sent /\ Fault
  /\ \/ /\ c.what = "set cooldown" /\ cooldown[c.key].left = 0
        /\ SetCooldown(c.by, c.key)
        /\ UNCHANGED <<challenge, counter, windows, late>>
     \/ /\ c.what = "count" /\ Increment(c.key)
        /\ UNCHANGED <<cooldown, challenge, late>>
     \/ /\ c.what = "store code" /\ PutCode(c.by, c.key)
        /\ lateStores' = [lateStores EXCEPT ![c.by] = @ + 1]
        /\ UNCHANGED <<cooldown, counter, windows, lateDeletes>>
     \/ /\ c.what = "delete cooldown" /\ cooldown[c.key].left > 0
        /\ DeleteCooldown(c.key)
        /\ lateDeletes' = [lateDeletes EXCEPT ![c.key] = @ + 1]
        /\ UNCHANGED <<challenge, counter, windows, lateStores>>
  /\ UNCHANGED <<postgres, request, verify, tries, texts, sent>>

-------------------------------------------------------------------------------
\* VerifyOTP

VerifyGoes(v, phase) == verify' = [verify EXCEPT ![v].phase = phase]

\* Answered with an error; the caller may try again.
Refuse(v) == verify' = [verify EXCEPT ![v] = NoCheck]

\* Mutant: a right code is not deleted.
KeepsCode(p) == UNCHANGED challenge
DropCode(p) == challenge' = [challenge EXCEPT ![p] = NoCode]

\* Mutant: wrong answers are not counted.
KeepsAttempts(p) == UNCHANGED challenge
CountAttempt(p) == challenge' = [challenge EXCEPT ![p].attempts = @ + 1]

\* Mutant: one wrong answer too many.
ExhaustedLate(wrong) == wrong > MaxAttempts
Exhausted(wrong) == wrong >= MaxAttempts

\* verifyOTPScript, with any code the caller may come up with
CheckCode(v, p, code, consent) ==
  LET stored == challenge[p]
  IN  /\ verify[v].phase = "idle"
      /\ \/ /\ stored = NoCode
            /\ Refuse(v) /\ UNCHANGED <<challenge, tries, faults>>
         \/ /\ stored # NoCode /\ Exhausted(stored.attempts)
            /\ DropCode(p) /\ Refuse(v) /\ UNCHANGED <<tries, faults>>
         \/ /\ stored # NoCode /\ ~Exhausted(stored.attempts)
            /\ tries' = [tries EXCEPT ![stored.code] = @ + 1]
            /\ \/ /\ code = stored.code /\ DropCode(p)
                  /\ \/ /\ verify' = [verify EXCEPT ![v] =
                            [phase |-> "account", phone |-> p, code |-> code, consent |-> consent]]
                        /\ UNCHANGED faults
                     \/ Fault /\ Refuse(v)
               \/ /\ code # stored.code
                  /\ IF Exhausted(stored.attempts + 1) THEN DropCode(p) ELSE CountAttempt(p)
                  /\ Refuse(v) /\ UNCHANGED faults
      /\ UNCHANGED <<cooldown, counter, postgres, request, texts, windows, sent, late>>

\* GetByPhone of resolveOrCreateAccount, and the status check that follows it
FindAccount(v) ==
  LET p == verify[v].phone
  IN  /\ verify[v].phase \in {"account", "account again"}
      /\ \/ account[p] = "none" /\ VerifyGoes(v, "create")
         \/ account[p] = "active" /\ VerifyGoes(v, "link")
         \/ account[p] = "blocked" /\ Refuse(v)
      /\ UNCHANGED <<redis, postgres, request, seen, sent, late, faults>>

\* Create meets the unique index on the phone when another login was faster.
CreateAccount(v) ==
  LET p == verify[v].phone
  IN  /\ verify[v].phase = "create"
      /\ IF account[p] = "none"
         THEN account' = [account EXCEPT ![p] = "active"] /\ VerifyGoes(v, "link")
         ELSE VerifyGoes(v, "account again") /\ UNCHANGED account
      /\ UNCHANGED <<redis, client, consented, sessions, request, seen, sent, late, faults>>

\* linkExistingClients; that it failed is only logged
LinkClients(v) ==
  LET p == verify[v].phone
  IN  /\ verify[v].phase = "link"
      /\ \/ client' = [client EXCEPT ![p] = IF @ = "unlinked" THEN "linked" ELSE @] /\ UNCHANGED faults
         \/ Fault /\ UNCHANGED client
      /\ VerifyGoes(v, IF verify[v].consent THEN "consent" ELSE "session")
      /\ UNCHANGED <<redis, account, consented, sessions, request, seen, sent, late>>

RecordConsent(v) ==
  /\ verify[v].phase = "consent"
  /\ \/ /\ consented' = consented \cup {verify[v].phone}
        /\ VerifyGoes(v, "session") /\ UNCHANGED faults
     \/ Fault /\ Refuse(v) /\ UNCHANGED consented
  /\ UNCHANGED <<redis, account, client, sessions, request, seen, sent, late>>

\* issueTokens.  That the answer may be lost although the row is there changes
\* nothing here: the caller's next try is a verification of its own.
CreateSession(v) ==
  /\ verify[v].phase = "session"
  /\ sessions' = sessions \cup {[by |-> v, phone |-> verify[v].phone, code |-> verify[v].code,
                               consent |-> verify[v].consent]}
  /\ VerifyGoes(v, "done")
  /\ UNCHANGED <<redis, account, client, consented, request, seen, sent, late, faults>>

VerifyWorks(v) ==
  verify[v].phase \in {"account", "account again", "create", "link", "consent", "session"}

\* The context ends, a statement fails or the process is gone: the code is spent.
GiveUpVerify(v) ==
  /\ VerifyWorks(v) /\ Fault
  /\ Refuse(v)
  /\ UNCHANGED <<redis, postgres, request, seen, sent, late>>

-------------------------------------------------------------------------------
\* Around them: an operator blocks the account, and keys expire.

BlockAccount(p) ==
  /\ account[p] = "active" /\ Fault
  /\ account' = [account EXCEPT ![p] = "blocked"]
  /\ UNCHANGED <<redis, client, consented, sessions, request, verify, seen, sent, late>>

CountDown(n) == IF n > 0 THEN n - 1 ELSE 0

PassTime ==
  /\ \A r \in Request : RequestWorks(r) => request[r].left > 0
  /\ cooldown' = [p \in Phone |->
       IF cooldown[p].left > 1 THEN [cooldown[p] EXCEPT !.left = @ - 1]
       ELSE [left |-> 0, by |-> Nobody]]
  /\ challenge' = [p \in Phone |->
       IF challenge[p].left > 1 THEN [challenge[p] EXCEPT !.left = @ - 1] ELSE NoCode]
  /\ counter' = [k \in Key |->
       IF counter[k].left > 1 THEN [counter[k] EXCEPT !.left = @ - 1] ELSE [n |-> 0, left |-> 0]]
  /\ request' = [r \in Request |-> [request[r] EXCEPT !.left = CountDown(@)]]
  /\ UNCHANGED <<postgres, verify, seen, sent, late, faults>>

Next ==
  \/ \E r \in Request :
       \/ \E p \in Phone : CooldownActive(r, p) \/ \E i \in IP : AcquireCooldown(r, p, i)
       \/ CountPhone(r) \/ CountIP(r) \/ StoreCode(r)
       \/ SendText(r) \/ ReleaseCooldown(r) \/ GiveUpRequest(r)
  \/ \E c \in sent : RunsAgain(c)
  \/ \E v \in Verify :
       \/ \E p \in Phone, code \in Request, consent \in BOOLEAN : CheckCode(v, p, code, consent)
       \/ FindAccount(v) \/ CreateAccount(v) \/ LinkClients(v) \/ RecordConsent(v)
       \/ CreateSession(v) \/ GiveUpVerify(v)
  \/ \E p \in Phone : BlockAccount(p)
  \/ PassTime

Spec == Init /\ [][Next]_vars

-------------------------------------------------------------------------------
\* The type invariant.  A stored challenge has an attempt left.
TypeOK ==
  /\ cooldown \in [Phone -> CooldownKey]
  /\ challenge \in [Phone -> ChallengeKey]
  /\ counter \in [Key -> CounterKey]
  /\ account \in [Phone -> {"none", "active", "blocked"}]
  /\ client \in [Phone -> {"none", "unlinked", "linked"}]
  /\ consented \subseteq Phone
  /\ request \in [Request -> RequestCall]
  /\ verify \in [Verify -> VerifyCall]
  /\ sessions \subseteq [by: Verify, phone: Phone, code: Request, consent: BOOLEAN]
  /\ tries \in [Request -> Nat] /\ texts \in [Key -> Nat]
  /\ windows \in [Key -> 0..MaxWindows]
  /\ sent \subseteq RedisCommand
  /\ lateDeletes \in [Phone -> Nat] /\ lateStores \in [Request -> Nat]
  /\ faults \in 0..MaxFaults

WorkingOn(p) == {r \in Request : RequestWorks(r) /\ request[r].phone = p}

\* acquireCooldown's comment: of concurrent requests for a phone one proceeds.
OneRequestAtATime ==
  \A p \in Phone : \A r, other \in WorkingOn(p) : r = other

\* What the cooldown gives, since it outlives the request that set it: while a
\* request works its key is there, unless a release that was sent again deleted
\* it; and of such deletions each lets one more request in, although the one whose
\* key is gone goes on and may then delete the key of the next.
OnlyRepeatsLetIn ==
  \A p \in Phone :
    Cardinality({r \in WorkingOn(p) : cooldown[p].by # r}) <= lateDeletes[p]

\* verifyOTPScript's promise against brute force: however guesses interleave with
\* each other and with resends, a code is compared with MaxAttempts of them, and
\* as many more for each time a repeated store put it back with none counted.
GuessesBounded ==
  \A r \in Request : tries[r] <= MaxAttempts * (1 + lateStores[r])

\* A code opens one session, and one more at most for each time a repeated store
\* put it back, of the phone it was generated for, of an account, and with the
\* consent the login was to record: no failure, race or retry after the code was
\* spent lets another login or an unrecorded one through.
OneLoginPerCode ==
  /\ \A r \in Request : Cardinality({s \in sessions : s.code = r}) <= 1 + lateStores[r]
  /\ \A s \in sessions :
       /\ request[s.code].phone = s.phone
       /\ account[s.phone] # "none"
       /\ s.consent => s.phone \in consented

\* checkRateLimit's promise against SMS pumping: a phone, and an address over all
\* its phones, is texted at most its maximum for each window, although a failed
\* send releases the cooldown at once and counters expire between the steps.
TextsBounded ==
  /\ \A p \in Phone : texts[p] <= MaxRequestsPerPhone * windows[p]
  /\ \A i \in IP : texts[i] <= MaxRequestsPerIP * windows[i]
===============================================================================
