------------------------------- MODULE QRTokens --------------------------------
(***************************************************************************)
(* QR codes: IssueQR and ResolveQR of the QR service over qrStore's keys   *)
(* in Redis and the clients rows of the stores.  Issuing and resolving     *)
(* calls are processes; every Redis command or script and every SQL        *)
(* statement is a step.  A failed step is an error of its server or the    *)
(* end of the call's context, after which every further step fails too.    *)
(* TTLs and deadlines count down; no call takes a step after its deadline. *)
(* The Redis client sends a command again when its reply is lost: once     *)
(* sent it stays in "sent", and besides the effect its call learns of, it  *)
(* may take effect once more at any later time.                            *)
(***************************************************************************)
EXTENDS Naturals, FiniteSets

CONSTANTS
  Account,    \* customer accounts, each with a phone of its own
  Store,
  Customer,   \* calls of POST /me/qr
  Till,       \* calls of POST /clients/resolve-qr
  Principal,  \* API keys, or stores for the legacy key
  Nobody,
  MaxTokens,  \* bound: tokens generated
  TTL, IssueCooldown, ConsumeCooldown,
  ClaimTTL,       \* qrClaimTTL
  RequestTimeout,
  Repeats,        \* bound: the commands that may run again
  MaxFaults       \* bound: failed or repeated statements and commands, crashes, blocked accounts

Token == 1..MaxTokens

ASSUME QRAssumption ==
  /\ Nobody \notin Till \cup Account /\ IsFiniteSet(Till)
  /\ MaxTokens \in Nat /\ MaxFaults \in Nat
  /\ TTL \in Nat \ {0} /\ IssueCooldown \in Nat /\ ConsumeCooldown \in Nat
  /\ RequestTimeout \in Nat \ {0} /\ ClaimTTL \in Nat
  /\ RequestTimeout < ClaimTTL

VARIABLES
  active,     \* qr:token:<hash>: time left, 0 when there is no such key
  claim,      \* qr:claim:<hash>: time left, and the call that set it
  owner,      \* the account a token names; Nobody while no customer was given it
  issuing,    \* qr:issue-cooldown:<account>: time left
  consuming,  \* qr:consume-cooldown:<principal>: time left
  account,    \* customer_accounts.status
  client,     \* per store and account: the clients row with the account's phone
  customer,   \* per issuing call: phase and account
  till,       \* per resolving call: phase, store, token, time left
  resolved,   \* tokens a call answered with a client
  issued,     \* tokens generated so far
  sent,       \* Redis commands of the calls, of which copies may be under way
  putBack,    \* per token: times such a copy made it usable again
  dropped,    \* per token: times such a copy deleted its claim
  faults

keys  == <<active, claim, owner, issuing, consuming>>
table == <<account, client>>
late  == <<putBack, dropped>>
vars  == <<keys, table, customer, till, resolved, issued, sent, late, faults>>

Statements == {"account", "list", "phone", "create", "link", "balance"}
TillPhase == {"idle", "claim", "release", "finalize", "finalize success",
              "answered", "refused", "failed", "lost"} \cup Statements
TillCall ==
  [phase: TillPhase, store: Store \cup {Nobody}, token: 0..MaxTokens, left: 0..RequestTimeout]
CustomerCall ==
  [phase: {"idle", "store", "issued", "failed", "refused"}, account: Account \cup {Nobody}]
RedisCommand ==
  [what: {"set token", "claim", "release", "finalize"}, token: Token, by: Till \cup {Nobody}]
ClaimKey == [left: 0..ClaimTTL, by: Till \cup {Nobody}]
NoCall == [phase |-> "idle", store |-> Nobody, token |-> 0, left |-> 0]
NoClaim == [left |-> 0, by |-> Nobody]
Fault == faults < MaxFaults /\ faults' = faults + 1

Init ==
  /\ active = [t \in Token |-> 0]
  /\ claim = [t \in Token |-> NoClaim]
  /\ owner = [t \in Token |-> Nobody]
  /\ issuing = [a \in Account |-> 0]
  /\ consuming = [p \in Principal |-> 0]
  /\ account = [a \in Account |-> "active"]
  /\ client \in [Store -> [Account -> {"none", "unlinked"}]]
  /\ customer = [c \in Customer |-> [phase |-> "idle", account |-> Nobody]]
  /\ till = [k \in Till |-> NoCall]
  /\ resolved = {}
  /\ issued = 0
  /\ sent = {}
  /\ putBack = [t \in Token |-> 0]
  /\ dropped = [t \in Token |-> 0]
  /\ faults = 0

-------------------------------------------------------------------------------
\* IssueQR

\* issue claims the cooldown with SET NX, or answers 429.  A lost reply: sent again
\* the command finds the cooldown it set, and nobody releases that.
AcquireIssueCooldown(c, a) ==
  /\ customer[c].phase = "idle"
  /\ IF IssueCooldown > 0 /\ issuing[a] > 0
     THEN /\ customer' = [customer EXCEPT ![c] = [phase |-> "refused", account |-> a]]
          /\ UNCHANGED <<issuing, faults>>
     ELSE \/ /\ customer' = [customer EXCEPT ![c] = [phase |-> "store", account |-> a]]
             /\ issuing' = [issuing EXCEPT ![a] = IssueCooldown]
             /\ UNCHANGED faults
          \/ /\ IssueCooldown > 0 /\ Fault
             /\ customer' = [customer EXCEPT ![c] = [phase |-> "refused", account |-> a]]
             /\ issuing' \in {issuing, [issuing EXCEPT ![a] = IssueCooldown]}
  /\ UNCHANGED <<active, claim, owner, consuming, table, till, resolved, issued, sent, late>>

Sends(k, what, t) == sent' = sent \cup {[what |-> what, token |-> t, by |-> k]}
SetToken(t) == active' = [active EXCEPT ![t] = TTL]

\* The deferred release looks at an err of its own, not the one returned: a token
\* that cannot be stored leaves the cooldown, whatever was to release it.
StoreToken(c) ==
  /\ customer[c].phase = "store" /\ issued < MaxTokens
  /\ issued' = issued + 1
  /\ \/ /\ SetToken(issued')
        /\ owner' = [owner EXCEPT ![issued'] = customer[c].account]
        /\ customer' = [customer EXCEPT ![c].phase = "issued"]
        /\ UNCHANGED faults
     \/ /\ Fault
        /\ customer' = [customer EXCEPT ![c].phase = "failed"]
        /\ UNCHANGED <<active, owner>>
  /\ Sends(Nobody, "set token", issued')
  /\ UNCHANGED <<claim, issuing, consuming, table, till, resolved, late>>

-------------------------------------------------------------------------------
\* ResolveQR

Goes(k, phase) == till' = [till EXCEPT ![k].phase = phase]
Ends(k, phase) == till' = [till EXCEPT ![k].phase = phase, ![k].left = 0]
InTime(k, phase) == till[k].phase = phase /\ till[k].left > 0

\* checkConsumeCooldown; a refused call is as if it had not come, and a copy of its
\* SET NX that arrives late holds the principal up as one more call would
Arrive(k, p, s, t) ==
  /\ till[k] = NoCall /\ consuming[p] = 0 /\ t <= issued /\ owner[t] # Nobody
  /\ consuming' = [consuming EXCEPT ![p] = ConsumeCooldown]
  /\ till' = [till EXCEPT ![k] =
       [phase |-> "claim", store |-> s, token |-> t, left |-> RequestTimeout]]
  /\ UNCHANGED <<active, claim, owner, issuing, table, customer, resolved, issued,
                 sent, late, faults>>

\* Mutant: the token stays active beside its claim.
CopyToClaim(k, t) ==
  /\ claim' = [claim EXCEPT ![t] = [left |-> ClaimTTL, by |-> k]]
  /\ UNCHANGED active

\* qrClaimScript
MoveToClaim(k, t) ==
  /\ claim' = [claim EXCEPT ![t] = [left |-> ClaimTTL, by |-> k]]
  /\ active' = [active EXCEPT ![t] = 0]

\* Mutant: a token that is gone is released like any other failure.
GoneReleases(k) == Goes(k, "release")

\* 410: nothing was claimed, nothing is released
Gone(k) == Ends(k, "refused")

\* The reply of a claim may be lost; the claim then waits for its TTL, since the
\* script, sent again, finds the token gone.
ClaimToken(k) ==
  LET t == till[k].token
  IN  /\ InTime(k, "claim")
      /\ \/ /\ active[t] = 0
            /\ Gone(k) /\ UNCHANGED <<active, claim, faults>>
         \/ /\ active[t] > 0 /\ MoveToClaim(k, t)
            /\ Goes(k, "account") /\ UNCHANGED faults
         \/ /\ active[t] > 0 /\ MoveToClaim(k, t)
            /\ Fault /\ Ends(k, "lost")
      /\ Sends(k, "claim", t)
      /\ UNCHANGED <<owner, issuing, consuming, table, customer, resolved, issued, late>>

\* An account that is not active will not be so on a retry: finalize.
LoadAccount(k) ==
  /\ InTime(k, "account")
  /\ Goes(k, IF account[owner[till[k].token]] = "active" THEN "list" ELSE "finalize")
  /\ UNCHANGED <<keys, table, customer, resolved, issued, sent, late, faults>>

Row(k) == client[till[k].store][owner[till[k].token]]
WriteRow(k, value) ==
  client' = [client EXCEPT ![till[k].store][owner[till[k].token]] = value]

\* resolveOrCreateClientForAccount: by account, by phone, or a new row; a row that
\* a sale registered in between makes Create fail and is read instead.
ListClients(k) ==
  /\ InTime(k, "list")
  /\ Goes(k, IF Row(k) = "linked" THEN "balance" ELSE "phone")
  /\ UNCHANGED <<keys, table, customer, resolved, issued, sent, late, faults>>

FindByPhone(k) ==
  /\ InTime(k, "phone")
  /\ Goes(k, IF Row(k) = "none" THEN "create" ELSE "link")
  /\ UNCHANGED <<keys, table, customer, resolved, issued, sent, late, faults>>

\* Mutant: the winner of the race is taken as it is.
TakeWinner == "balance"
AfterConflict == "phone"

CreateClient(k) ==
  /\ InTime(k, "create")
  /\ IF Row(k) = "none"
     THEN WriteRow(k, "unlinked") /\ Goes(k, "link")
     ELSE Goes(k, AfterConflict) /\ UNCHANGED client
  /\ UNCHANGED <<keys, account, customer, resolved, issued, sent, late, faults>>

LinkClient(k) ==
  /\ InTime(k, "link")
  /\ WriteRow(k, "linked")
  /\ Goes(k, "balance")
  /\ UNCHANGED <<keys, account, customer, resolved, issued, sent, late, faults>>

LoadBalance(k) ==
  /\ InTime(k, "balance")
  /\ Goes(k, "finalize success")
  /\ UNCHANGED <<keys, table, customer, resolved, issued, sent, late, faults>>

\* A statement fails, with or without its effect on the row: release.
StatementFails(k) ==
  /\ till[k].phase \in Statements
  /\ IF till[k].left = 0 THEN UNCHANGED faults ELSE Fault
  /\ Goes(k, "release")
  /\ \/ UNCHANGED client
     \/ till[k].phase = "create" /\ Row(k) = "none" /\ till[k].left > 0 /\ WriteRow(k, "unlinked")
     \/ till[k].phase = "link" /\ till[k].left > 0 /\ WriteRow(k, "linked")
  /\ UNCHANGED <<keys, account, customer, resolved, issued, sent, late>>

\* DEL, whoever set the claim
DropClaim(t) == claim' = [claim EXCEPT ![t] = NoClaim]

\* finalize; that it fails is only logged, and the call is answered all the same.
Finalize(k) ==
  LET t == till[k].token
      success == till[k].phase = "finalize success"
  IN  /\ till[k].phase \in {"finalize", "finalize success"}
      /\ \/ till[k].left > 0 /\ DropClaim(t) /\ Sends(k, "finalize", t) /\ UNCHANGED faults
         \/ till[k].left > 0 /\ Fault /\ Sends(k, "finalize", t) /\ UNCHANGED claim
         \/ till[k].left = 0 /\ UNCHANGED <<claim, sent, faults>>
      /\ Ends(k, IF success THEN "answered" ELSE "refused")
      /\ resolved' = IF success THEN resolved \cup {[token |-> t, by |-> k]} ELSE resolved
      /\ UNCHANGED <<active, owner, issuing, consuming, table, customer, issued, late>>

\* qrReleaseScript: back to the token key for what is left of the claim, whoever
\* set that
MoveBack(t) ==
  /\ active' = [active EXCEPT ![t] = claim[t].left]
  /\ claim' = [claim EXCEPT ![t] = NoClaim]

Release(k) ==
  LET t == till[k].token
  IN  /\ till[k].phase = "release"
      /\ \/ /\ till[k].left > 0 /\ Sends(k, "release", t)
            /\ IF claim[t].left > 0 THEN MoveBack(t) ELSE UNCHANGED <<active, claim>>
            /\ Ends(k, "failed") /\ UNCHANGED faults
         \/ /\ till[k].left > 0 /\ Sends(k, "release", t)
            /\ Fault /\ Ends(k, "lost") /\ UNCHANGED <<active, claim>>
         \/ /\ till[k].left = 0
            /\ Ends(k, "failed") /\ UNCHANGED <<active, claim, sent, faults>>
      /\ UNCHANGED <<owner, issuing, consuming, table, customer, resolved, issued, late>>

Works(k) == till[k].phase \notin {"idle", "answered", "refused", "failed", "lost"}

\* The process is gone, or its context ends before the claim.
Crash(k) ==
  /\ Works(k)
  /\ IF till[k].phase = "claim" /\ till[k].left = 0 THEN UNCHANGED faults ELSE Fault
  /\ Ends(k, "lost")
  /\ UNCHANGED <<keys, table, customer, resolved, issued, sent, late>>

\* A copy of a command takes effect, whatever has happened since it was sent.
RunsAgain(c) ==
  LET t == c.token
  IN  /\ c \in sent /\ c.what \in Repeats /\ Fault
      /\ \/ /\ \/ c.what = "set token" /\ SetToken(t) /\ UNCHANGED claim
               \/ c.what = "release" /\ claim[t].left > 0 /\ MoveBack(t)
            /\ putBack' = [putBack EXCEPT ![t] = IF active[t] = 0 THEN @ + 1 ELSE @]
            /\ UNCHANGED dropped
         \/ /\ c.what = "claim" /\ active[t] > 0 /\ MoveToClaim(c.by, t)
            /\ UNCHANGED late
         \/ /\ c.what = "finalize" /\ claim[t].left > 0 /\ DropClaim(t)
            /\ dropped' = [dropped EXCEPT ![t] = @ + 1]
            /\ UNCHANGED <<active, putBack>>
      /\ UNCHANGED <<owner, issuing, consuming, table, customer, till, resolved, issued, sent>>

-------------------------------------------------------------------------------
\* A sale registers the phone at a store; an operator blocks the account.
RegisterClient(s, a) ==
  /\ client[s][a] = "none"
  /\ client' = [client EXCEPT ![s][a] = "unlinked"]
  /\ UNCHANGED <<keys, account, customer, till, resolved, issued, sent, late, faults>>

Block(a) ==
  /\ account[a] = "active" /\ Fault
  /\ account' = [account EXCEPT ![a] = "blocked"]
  /\ UNCHANGED <<keys, client, customer, till, resolved, issued, sent, late>>

CountDown(n) == IF n > 0 THEN n - 1 ELSE 0

PassTime ==
  /\ \A k \in Till : Works(k) => till[k].left > 0
  /\ active' = [t \in Token |-> CountDown(active[t])]
  /\ claim' = [t \in Token |->
       IF claim[t].left > 1 THEN [claim[t] EXCEPT !.left = @ - 1] ELSE NoClaim]
  /\ issuing' = [a \in Account |-> CountDown(issuing[a])]
  /\ consuming' = [p \in Principal |-> CountDown(consuming[p])]
  /\ till' = [k \in Till |-> [till[k] EXCEPT !.left = CountDown(@)]]
  /\ UNCHANGED <<owner, table, customer, resolved, issued, sent, late, faults>>

Next ==
  \/ \E c \in Customer : StoreToken(c) \/ \E a \in Account : AcquireIssueCooldown(c, a)
  \/ \E k \in Till :
       \/ \E p \in Principal, s \in Store, t \in Token : Arrive(k, p, s, t)
       \/ ClaimToken(k) \/ LoadAccount(k) \/ ListClients(k) \/ FindByPhone(k)
       \/ CreateClient(k) \/ LinkClient(k) \/ LoadBalance(k) \/ StatementFails(k)
       \/ Finalize(k) \/ Release(k) \/ Crash(k)
  \/ \E c \in sent : RunsAgain(c)
  \/ \E a \in Account : Block(a) \/ \E s \in Store : RegisterClient(s, a)
  \/ PassTime

Spec == Init /\ [][Next]_vars

-------------------------------------------------------------------------------
\* The type invariant.  A token's two keys exist at once only after a copy put it back.
TypeOK ==
  /\ active \in [Token -> Nat]
  /\ claim \in [Token -> ClaimKey]
  /\ \A t \in Token : active[t] = 0 \/ claim[t].left = 0 \/ putBack[t] > 0
  /\ owner \in [Token -> Account \cup {Nobody}]
  /\ issuing \in [Account -> 0..IssueCooldown]
  /\ consuming \in [Principal -> 0..ConsumeCooldown]
  /\ account \in [Account -> {"active", "blocked"}]
  /\ client \in [Store -> [Account -> {"none", "unlinked", "linked"}]]
  /\ customer \in [Customer -> CustomerCall]
  /\ till \in [Till -> TillCall]
  /\ resolved \subseteq [token: Token, by: Till]
  /\ sent \subseteq RedisCommand
  /\ putBack \in [Token -> Nat] /\ dropped \in [Token -> Nat]
  /\ issued \in 0..MaxTokens /\ faults \in 0..MaxFaults

\* Tills at work on a token they claimed
Holding == Statements \cup {"release", "finalize", "finalize success"}
Holders(t) == {k \in Till : till[k].phase \in Holding /\ till[k].token = t}
Answers(t) == {r \in resolved : r.token = t}

\* What claim gives: whoever works on a token has its claim until it finalizes or
\* releases, since no call lives as long as a claim does.  The scripts never ask
\* whose claim they move or delete, so a copy of a release, of a finalize or of
\* the SET of the token may take it away, one such claim for each copy.
OnlyRepeatsTakeClaims ==
  \A t \in Token : Cardinality({k \in Holders(t) : claim[t].by # k}) <= putBack[t] + dropped[t]

\* claim's comment, a one-time consume: a code is answered once.
ResolvedOnce ==
  \A r, other \in resolved : r.token = other.token => r = other

\* What there is instead: the calls a code was answered to, those at work on it and
\* the one a usable code stands for are together no more than one, and one more
\* for each time a copy of a command put the code back.  No statement that fails, no
\* claim that expires, no crash and no race of two tills adds to them.
OnlyRepeatsReuseCodes ==
  \A t \in Token :
    Cardinality(Answers(t)) + Cardinality(Holders(t)) + (IF active[t] > 0 THEN 1 ELSE 0)
      <= 1 + putBack[t]

\* ResolveQR's answer names a client of the store that is linked to the account,
\* even when a sale registered the phone while the code was being resolved.
AnswersAreLinked ==
  \A r \in resolved : client[till[r.by].store][owner[r.token]] = "linked"

\* issue's comment on the deferred release: a call that produced no token leaves
\* no cooldown, unless another call has set one since.
FailedIssueReleases ==
  \A c \in Customer :
    customer[c].phase = "failed" /\ issuing[customer[c].account] > 0
      => \E d \in Customer : d # c /\ customer[d].phase \in {"store", "issued"}
                                   /\ customer[d].account = customer[c].account

\* ResolveQR's comment: every return path after the claim resolves it, by finalize
\* or by release; with Redis and the process working, a failed call keeps none.
FailedResolveReleases ==
  \A k \in Till : till[k].phase = "failed" => claim[till[k].token].by # k
===============================================================================
