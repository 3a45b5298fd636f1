--------------------------- MODULE CustomerSessions ----------------------------
(***************************************************************************)
(* The refresh sessions of customers: Refresh, Logout and LogoutAll of the *)
(* customer service over the rows of customer_sessions.  A session is      *)
(* named by its refresh token.  A rotation holds the row lock of the old   *)
(* session from its SELECT ... FOR UPDATE to the end of its transaction;   *)
(* what it inserts and updates is seen by nobody before the commit.  An    *)
(* UPDATE takes its snapshot when it begins, waits for rows that others    *)
(* hold, and looks at them again (READ COMMITTED): rows committed in the   *)
(* meantime are not in it.                                                 *)
(***************************************************************************)
EXTENDS Naturals, FiniteSets

CONSTANTS
  Account,
  MaxTokens,  \* bound: refresh tokens generated
  Call,       \* calls of the API
  None,
  MaxFaults   \* bound: failed or lost statements, expiries, blocked accounts

Token == 1..MaxTokens

ASSUME SessionsAssumption ==
  /\ MaxTokens \in Nat /\ MaxFaults \in Nat
  /\ None \notin Token \cup Call \cup Account

VARIABLES
  status,   \* customer_accounts.status
  session,  \* customer_sessions, with the login each session descends from
  issued,   \* tokens generated so far
  holder,   \* the call whose transaction holds the row's lock
  call,     \* per call: operation, phase, token, new token, account, snapshot
  faults

vars == <<status, session, issued, holder, call, faults>>

Ended == {"answered", "refused", "failed"}
SessionRow ==
  [state: {"absent", "live", "revoked"}, account: Account \cup {None},
   family: Token \cup {None}, replacedBy: Token \cup {None}, expired: BOOLEAN]
CallRow ==
  [op: {"none", "refresh", "logout", "logout all"},
   phase: {"idle", "rotate", "account", "revoke all", "revoking"} \cup Ended,
   token: Token \cup {None}, new: Token \cup {None}, account: Account \cup {None},
   snapshot: SUBSET Token, blocked: BOOLEAN]
NoSession == [state |-> "absent", account |-> None, family |-> None,
              replacedBy |-> None, expired |-> FALSE]
NoCall == [op |-> "none", phase |-> "idle", token |-> None, new |-> None,
           account |-> None, snapshot |-> {}, blocked |-> FALSE]

Generate(t) == t \in Token /\ t = issued + 1 /\ issued' = t
Live(a) == {t \in Token : session[t].state = "live" /\ session[t].account = a}
Fault == faults < MaxFaults /\ faults' = faults + 1

Init ==
  /\ status = [a \in Account |-> "active"]
  /\ session = [t \in Token |-> NoSession]
  /\ issued = 0
  /\ holder = [t \in Token |-> None]
  /\ call = [c \in Call |-> NoCall]
  /\ faults = 0

\* The session a verified code opens (CustomerLogin)
Login(a, t) ==
  /\ status[a] = "active" /\ Generate(t)
  /\ session' = [session EXCEPT ![t] =
       [NoSession EXCEPT !.state = "live", !.account = a, !.family = t]]
  /\ UNCHANGED <<status, holder, call, faults>>

Goes(c, phase) == call' = [call EXCEPT ![c].phase = phase]

-------------------------------------------------------------------------------
\* Refresh

\* Mutant: the old session is read without FOR UPDATE.
NoRowLock(c, t) == UNCHANGED holder
RowLock(c, t) == holder[t] = None /\ holder' = [holder EXCEPT ![t] = c]

\* The new token n is generated first (the bound counts it when it is used).
\* ClaimForRotation up to its checks: a revoked session was used before, an
\* expired one does not exist; either way the transaction rolls back.
ClaimForRotation(c, t, n) ==
  LET s == session[t]
      asked == [NoCall EXCEPT !.op = "refresh", !.token = t, !.account = s.account]
  IN  /\ call[c] = NoCall /\ s.state # "absent"
      /\ \/ /\ s.state = "revoked" /\ holder[t] = None
            /\ call' = [call EXCEPT ![c] = [asked EXCEPT !.phase = "revoke all"]]
            /\ UNCHANGED <<issued, holder>>
         \/ /\ s.state = "live" /\ s.expired /\ holder[t] = None
            /\ call' = [call EXCEPT ![c] = [asked EXCEPT !.phase = "refused"]]
            /\ UNCHANGED <<issued, holder>>
         \/ /\ s.state = "live" /\ ~s.expired /\ RowLock(c, t) /\ Generate(n)
            /\ call' = [call EXCEPT ![c] = [asked EXCEPT !.phase = "rotate", !.new = n]]
      /\ UNCHANGED <<status, session, faults>>

\* Mutant: a transaction that ends leaves its lock behind.
KeepLock(c) == UNCHANGED holder
Unlock(c) == holder' = [t \in Token |-> IF holder[t] = c THEN None ELSE holder[t]]

\* The new session, the old one revoked and linked to it, and the commit, whose
\* answer may be lost
CommitRotation(c) ==
  LET t == call[c].token
      n == call[c].new
  IN  /\ call[c].phase = "rotate"
      /\ session' = [session EXCEPT
           ![t].state = "revoked", ![t].replacedBy = n,
           ![n] = [NoSession EXCEPT !.state = "live", !.account = session[t].account,
                                    !.family = session[t].family]]
      /\ Unlock(c)
      /\ \/ /\ call' = [call EXCEPT ![c].phase = "account",
                                    ![c].blocked = status[session[t].account] # "active"]
            /\ UNCHANGED faults
         \/ Fault /\ Goes(c, "failed")
      /\ UNCHANGED <<status, issued>>

\* The deferred Rollback, after a statement failed or the context ended
Rollback(c) ==
  /\ call[c].phase = "rotate" /\ Fault
  /\ Unlock(c)
  /\ Goes(c, "failed")
  /\ UNCHANGED <<status, session, issued>>

\* Mutant: the status found before the rotation is trusted.
AlwaysActive(a) == TRUE
AccountActive(a) == status[a] = "active"

\* After the rotation: the tokens are handed out only to an active account.
CheckAccount(c) ==
  /\ call[c].phase = "account"
  /\ \/ /\ Goes(c, IF AccountActive(call[c].account) THEN "answered" ELSE "revoke all")
        /\ UNCHANGED faults
     \/ Fault /\ Goes(c, "failed")
  /\ UNCHANGED <<status, session, issued, holder>>

-------------------------------------------------------------------------------
\* RevokeAllForAccount: one UPDATE, which a rotation may keep waiting

BeginRevokeAll(c) ==
  /\ call[c].phase = "revoke all"
  /\ call' = [call EXCEPT ![c].phase = "revoking", ![c].snapshot = Live(call[c].account)]
  /\ UNCHANGED <<status, session, issued, holder, faults>>

Revoked(T) == [t \in Token |->
  IF t \in T /\ session[t].state = "live" THEN [session[t] EXCEPT !.state = "revoked"]
  ELSE session[t]]

EndRevokeAll(c) ==
  /\ call[c].phase = "revoking"
  /\ \A t \in call[c].snapshot : holder[t] = None
  /\ session' = Revoked(call[c].snapshot)
  /\ Goes(c, IF call[c].op = "logout all" THEN "answered" ELSE "refused")
  /\ UNCHANGED <<status, issued, holder, faults>>

\* It fails as a whole: LogoutAll reports it, Refresh only logs it.
RevokeAllFails(c) ==
  /\ call[c].phase = "revoking" /\ Fault
  /\ Goes(c, "failed")
  /\ UNCHANGED <<status, session, issued, holder>>

-------------------------------------------------------------------------------
\* LogoutAll, behind RequireCustomerSession, which reads the account's status
BeginLogoutAll(c, a) ==
  /\ call[c] = NoCall /\ status[a] = "active"
  /\ call' = [call EXCEPT ![c] =
       [NoCall EXCEPT !.op = "logout all", !.phase = "revoke all", !.account = a]]
  /\ UNCHANGED <<status, session, issued, holder, faults>>

\* Mutant: Revoke writes the whole row back as Logout read it earlier.
RevokeStaleRow(t) ==
  session' = [session EXCEPT ![t].state = "revoked", ![t].replacedBy = None]
RevokeSession(t) == session' = Revoked({t})

\* Logout: the lookup finds a row that never goes away; Revoke waits for its lock.
Logout(c, t) ==
  /\ call[c] = NoCall /\ session[t].state # "absent" /\ holder[t] = None
  /\ RevokeSession(t)
  /\ call' = [call EXCEPT ![c] = [NoCall EXCEPT !.op = "logout", !.phase = "answered"]]
  /\ UNCHANGED <<status, issued, holder, faults>>

-------------------------------------------------------------------------------
Expire(t) ==
  /\ session[t].state # "absent" /\ ~session[t].expired /\ Fault
  /\ session' = [session EXCEPT ![t].expired = TRUE]
  /\ UNCHANGED <<status, issued, holder, call>>

\* An operator blocks the account in the database.
Block(a) ==
  /\ status[a] = "active" /\ Fault
  /\ status' = [status EXCEPT ![a] = "blocked"]
  /\ UNCHANGED <<session, issued, holder, call>>

Next ==
  \/ \E a \in Account : Block(a) \/ \E t \in Token : Login(a, t)
  \/ \E c \in Call :
       \/ CommitRotation(c) \/ Rollback(c) \/ CheckAccount(c)
       \/ BeginRevokeAll(c) \/ EndRevokeAll(c) \/ RevokeAllFails(c)
       \/ \E t \in Token : Logout(c, t) \/ \E n \in Token : ClaimForRotation(c, t, n)
       \/ \E a \in Account : BeginLogoutAll(c, a)
  \/ \E t \in Token : Expire(t)

Spec == Init /\ [][Next]_vars

-------------------------------------------------------------------------------
\* The type invariant.  A row lock belongs to a rotation that is still under way:
\* neither a commit nor any failure leaves one behind for revocations to wait on.
TypeOK ==
  /\ status \in [Account -> {"active", "blocked"}]
  /\ session \in [Token -> SessionRow]
  /\ issued \in 0..MaxTokens
  /\ holder \in [Token -> Call \cup {None}]
  /\ call \in [Call -> CallRow]
  /\ faults \in 0..MaxFaults
  /\ \A t \in Token : holder[t] # None =>
       call[holder[t]].phase = "rotate" /\ call[holder[t]].token = t

\* ClaimForRotation's promise: of the sessions that descend from a login at most
\* one is live.  A token and its stolen copy cannot both be refreshed, however
\* two refreshes, logouts, lost answers and failures interleave.
OneLivePerFamily ==
  \A t, u \in Token :
    session[t].state = "live" /\ session[u].state = "live" /\ session[t].family = session[u].family
    => t = u

\* A session that was revoked stays so, and its successor stays recorded: no
\* Revoke, rotation or RevokeAllForAccount overwrites another one's result.
RevocationIsFinal ==
  [][\A t \in Token :
       /\ session[t].state = "revoked" => session'[t].state = "revoked"
       /\ session[t].replacedBy # None => session'[t].replacedBy = session[t].replacedBy]_vars

\* Refresh's comment on blocked accounts: whoever was blocked by the time the
\* rotation committed is not handed the new tokens.
BlockedGetNoTokens ==
  \A c \in Call : call[c].op = "refresh" /\ call[c].phase = "answered" => ~call[c].blocked

\* LogoutAll's comment, and Refresh's on reuse: after it the account has no live
\* session of those families.  A session that replaced one RevokeAllForAccount
\* was to revoke would be such a session.
RevokeAllLeavesNone ==
  \A c \in Call :
    call[c].op = "logout all" /\ call[c].phase = "answered" =>
      \A t \in call[c].snapshot : session[t].replacedBy # None =>
        session[session[t].replacedBy].state = "revoked"
===============================================================================
