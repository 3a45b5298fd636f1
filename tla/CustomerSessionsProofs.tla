-------------------------- MODULE CustomerSessionsProofs -------------------------
(***************************************************************************)
(* The refresh sessions of any number of customers, tokens and calls.      *)
(* What makes a rotation safe is what its row lock protects: between the   *)
(* SELECT ... FOR UPDATE and the commit the old session stays live, and    *)
(* the token that will replace it belongs to nobody else.                  *)
(***************************************************************************)
EXTENDS CustomerSessions, TLAPS

\* Tokens are used in the order they are generated, and a session that is not there
\* yet has nothing recorded.  A session descends from a login that has happened, and
\* only a revoked one has a successor.
SessionsAreIssued ==
  \A t \in Token :
    /\ session[t].state = "absent" => session[t] = NoSession
    /\ session[t].state # "absent" =>
         t <= issued /\ session[t].family \in 1..issued /\ session[t].account \in Account
    /\ session[t].state = "live" => session[t].replacedBy = None

\* A rotation holds the lock of a live session, and its new token is its own.
RotationsAreProtected ==
  \A c \in Call : call[c].phase = "rotate" =>
    /\ call[c].op = "refresh" /\ ~call[c].blocked
    /\ call[c].token \in Token /\ holder[call[c].token] = c
    /\ session[call[c].token].state = "live"
    /\ session[call[c].token].account = call[c].account
    /\ call[c].new \in 1..issued /\ session[call[c].new].state = "absent"
    /\ \A d \in Call : call[d].phase = "rotate" /\ call[d].new = call[c].new => d = c

\* An account found blocked at the commit of a rotation is still blocked when its
\* status is looked at.
BlockedStayBlocked ==
  \A c \in Call : call[c].op = "refresh" /\ call[c].blocked =>
    /\ call[c].phase \in {"account", "revoke all", "revoking", "refused", "failed"}
    /\ call[c].account \in Account /\ status[call[c].account] = "blocked"

IInv ==
  /\ TypeOK /\ SessionsAreIssued /\ RotationsAreProtected
  /\ OneLivePerFamily /\ BlockedStayBlocked

-------------------------------------------------------------------------------
LEMMA RowsTyped ==
  /\ NoSession \in SessionRow /\ NoSession.state = "absent"
  /\ NoCall \in CallRow /\ NoCall.phase = "idle" /\ NoCall.op = "none" /\ ~NoCall.blocked
  BY DEF NoSession, NoCall, SessionRow, CallRow

Phase == {"idle", "rotate", "account", "revoke all", "revoking"} \cup Ended

\* A call that goes on to another phase keeps the rest of its record.
LEMMA CallGoes ==
  ASSUME NEW x \in CallRow, NEW phase \in Phase
  PROVE  /\ [x EXCEPT !.phase = phase] \in CallRow
         /\ [x EXCEPT !.phase = phase].phase = phase
         /\ [x EXCEPT !.phase = phase].op = x.op
         /\ [x EXCEPT !.phase = phase].account = x.account
         /\ [x EXCEPT !.phase = phase].blocked = x.blocked
  BY DEF CallRow, Phase

LEMMA InitIInv == Init => IInv
<1> SUFFICES ASSUME Init PROVE IInv
  OBVIOUS
<1>1. TypeOK
  BY RowsTyped, SessionsAssumption DEF Init, TypeOK
<1>2. \A c \in Call : call[c].phase = "idle" /\ call[c].op = "none"
  BY RowsTyped DEF Init
<1>3. \A t \in Token : session[t] = NoSession /\ session[t].state = "absent"
  BY RowsTyped DEF Init
<1> QED BY <1>1, <1>2, <1>3
        DEF IInv, SessionsAreIssued, RotationsAreProtected, OneLivePerFamily, BlockedStayBlocked

\* What a rotation relies on
LEMMA RotationFacts ==
  ASSUME IInv, NEW c \in Call, call[c].phase = "rotate"
  PROVE  /\ c # None /\ call[c] \in CallRow /\ call[c].op = "refresh" /\ ~call[c].blocked
         /\ call[c].token \in Token /\ holder[call[c].token] = c
         /\ session[call[c].token].state = "live"
         /\ session[call[c].token].account = call[c].account
         /\ call[c].new \in Token /\ call[c].new \in 1..issued
         /\ session[call[c].new].state = "absent"
         /\ \A d \in Call : call[d].phase = "rotate" /\ call[d].new = call[c].new => d = c
<1>1. c # None /\ call[c] \in CallRow
  BY SessionsAssumption DEF IInv, TypeOK
<1>2. \A n \in 1..issued : n \in Token
  BY SessionsAssumption DEF IInv, TypeOK, Token
<1> QED BY <1>1, <1>2 DEF IInv, RotationsAreProtected

LEMMA LocksAreRotations ==
  ASSUME TypeOK, NEW t \in Token, holder[t] # None
  PROVE  holder[t] \in Call /\ call[holder[t]].phase = "rotate" /\ call[holder[t]].token = t
  BY DEF TypeOK

\* Calls that do not rotate may go on.
OthersGo ==
  /\ call' \in [Call -> CallRow]
  /\ \A c \in Call : call'[c] = call[c] \/
       /\ call[c].phase # "rotate" /\ call'[c].phase # "rotate"
       /\ call'[c].op = "refresh" /\ call'[c].blocked =>
            /\ call'[c].phase \in {"account", "revoke all", "revoking", "refused", "failed"}
            /\ call'[c].account \in Account /\ status[call'[c].account] = "blocked"

\* Sessions may be revoked or expire, unless a rotation holds them.
FreeRowsChange ==
  /\ session' \in [Token -> SessionRow]
  /\ \A t \in Token : session'[t] = session[t] \/
       /\ session[t].state # "absent" /\ session'[t].state # "absent"
       /\ session'[t].state = "live" => session[t].state = "live"
       /\ session'[t].account = session[t].account /\ session'[t].family = session[t].family
       /\ session'[t].replacedBy = session[t].replacedBy
       /\ session[t].state = "live" /\ holder[t] # None => session'[t].state = "live"

\* Steps that generate no token and take or give back no lock
LEMMA NoRotationMoves ==
  ASSUME IInv, UNCHANGED <<status, issued, holder>>, faults' \in 0..MaxFaults,
         OthersGo, FreeRowsChange
  PROVE  IInv'
<1>1. \A c \in Call : call[c].phase = "rotate" \/ call'[c].phase = "rotate" => call'[c] = call[c]
  BY DEF OthersGo
<1>2. TypeOK'
  <2>1. \A t \in Token : holder[t] # None => call'[holder[t]] = call[holder[t]]
    BY <1>1, LocksAreRotations DEF IInv
  <2>2. \A t \in Token : holder'[t] # None =>
          call'[holder'[t]].phase = "rotate" /\ call'[holder'[t]].token = t
    BY <2>1, LocksAreRotations DEF IInv
  <2> QED BY <2>2 DEF IInv, TypeOK, OthersGo, FreeRowsChange
<1>3. SessionsAreIssued'
  BY DEF IInv, SessionsAreIssued, FreeRowsChange
<1>4. RotationsAreProtected'
  <2>1. \A c \in Call : call'[c].phase = "rotate" => call'[c] = call[c] /\ call[c].phase = "rotate"
    BY <1>1
  <2> SUFFICES ASSUME NEW c \in Call, call'[c].phase = "rotate"
               PROVE  /\ call'[c].op = "refresh" /\ ~call'[c].blocked
                      /\ call'[c].token \in Token /\ holder'[call'[c].token] = c
                      /\ session'[call'[c].token].state = "live"
                      /\ session'[call'[c].token].account = call'[c].account
                      /\ call'[c].new \in 1..issued' /\ session'[call'[c].new].state = "absent"
                      /\ \A d \in Call :
                           call'[d].phase = "rotate" /\ call'[d].new = call'[c].new => d = c
    BY DEF RotationsAreProtected
  <2>2. call[c].phase = "rotate" /\ call'[c] = call[c]
    BY <2>1
  <2>3. \A d \in Call : call'[d].phase = "rotate" /\ call'[d].new = call'[c].new => d = c
    BY <2>1, <2>2, RotationFacts
  <2>4. session'[call[c].new].state = "absent" /\ session'[call[c].token].state = "live"
        /\ session'[call[c].token].account = session[call[c].token].account
    BY <2>2, RotationFacts DEF FreeRowsChange
  <2> QED BY <2>2, <2>3, <2>4, RotationFacts
<1>5. OneLivePerFamily'
  <2>1. \A t \in Token : session'[t].state = "live" =>
          session[t].state = "live" /\ session'[t].family = session[t].family
    BY DEF FreeRowsChange
  <2> QED BY <2>1 DEF IInv, OneLivePerFamily
<1>6. BlockedStayBlocked'
  BY DEF IInv, BlockedStayBlocked, OthersGo
<1> QED BY <1>2, <1>3, <1>4, <1>5, <1>6 DEF IInv

\* The same for a step of one call that leaves the sessions alone
LEMMA QuietStep ==
  ASSUME IInv, NEW c \in Call, call[c].phase # "rotate",
         UNCHANGED <<status, session, issued, holder>>, faults' \in 0..MaxFaults,
         NEW new \in CallRow, call' = [call EXCEPT ![c] = new], new.phase # "rotate",
         new.op = "refresh" /\ new.blocked =>
           /\ new.phase \in {"account", "revoke all", "revoking", "refused", "failed"}
           /\ new.account \in Account /\ status[new.account] = "blocked"
  PROVE  IInv'
<1>1. call'[c] = new /\ \A d \in Call \ {c} : call'[d] = call[d]
  BY DEF IInv, TypeOK
<1>2. call' \in [Call -> CallRow] /\ session' \in [Token -> SessionRow]
  BY DEF IInv, TypeOK
<1> QED BY <1>1, <1>2, NoRotationMoves DEF OthersGo, FreeRowsChange

\* The faults that steps count stay within their bound.
LEMMA FaultTyped ==
  ASSUME TypeOK, Fault \/ UNCHANGED faults
  PROVE  faults' \in 0..MaxFaults
<1>1. faults \in 0..MaxFaults /\ MaxFaults \in Nat
  BY SessionsAssumption DEF TypeOK
<1> QED BY <1>1 DEF Fault

LEMMA CheckAccountIInv ==
  ASSUME IInv, NEW c \in Call, CheckAccount(c)
  PROVE  IInv'
<1>1. PICK phase \in {"answered", "revoke all", "failed"} :
        /\ call' = [call EXCEPT ![c] = [@ EXCEPT !.phase = phase]]
        /\ phase = "answered" => status[call[c].account] = "active"
  BY DEF CheckAccount, Goes, AccountActive
<1>2. faults' \in 0..MaxFaults
  BY FaultTyped DEF CheckAccount, IInv
<1>3. call[c].blocked /\ call[c].op = "refresh" =>
        call[c].account \in Account /\ status[call[c].account] = "blocked"
  BY DEF IInv, BlockedStayBlocked
<1> DEFINE new == [call[c] EXCEPT !.phase = phase]
<1>4. new \in CallRow /\ new.phase = phase /\ new.op = call[c].op /\ new.blocked = call[c].blocked
      /\ new.account = call[c].account
  <2>1. call[c] \in CallRow /\ phase \in Phase
    BY DEF IInv, TypeOK, Phase, Ended
  <2> QED BY <2>1, CallGoes
<1>5. call' = [call EXCEPT ![c] = new]
  BY <1>1
<1> HIDE DEF new
<1>6. call[c].phase # "rotate" /\ UNCHANGED <<status, session, issued, holder>>
  BY DEF CheckAccount
<1> QED BY <1>1, <1>2, <1>3, <1>4, <1>5, <1>6, QuietStep

\* The calls of RevokeAllForAccount that write no row
LEMMA RevokeAllCallsIInv ==
  ASSUME IInv, NEW c \in Call, BeginRevokeAll(c) \/ RevokeAllFails(c)
  PROVE  IInv'
<1>1. /\ UNCHANGED <<status, session, issued, holder>>
      /\ call[c].phase \in {"revoke all", "revoking"} /\ call[c] \in CallRow
  BY DEF BeginRevokeAll, RevokeAllFails, IInv, TypeOK
<1>2. faults' \in 0..MaxFaults
  BY FaultTyped DEF BeginRevokeAll, RevokeAllFails, IInv
<1>3. PICK new \in CallRow :
        /\ call' = [call EXCEPT ![c] = new] /\ new.phase \in {"revoking", "failed"}
        /\ new.op = call[c].op /\ new.account = call[c].account /\ new.blocked = call[c].blocked
  <2>1. CASE BeginRevokeAll(c)
    <3> DEFINE new == [call[c] EXCEPT !.phase = "revoking", !.snapshot = Live(call[c].account)]
    <3>1. new \in CallRow /\ new.phase = "revoking" /\ new.account = call[c].account
          /\ new.op = call[c].op /\ new.blocked = call[c].blocked
      BY <1>1 DEF CallRow, Live
    <3>2. call' = [call EXCEPT ![c] = new]
      BY <2>1 DEF BeginRevokeAll
    <3> QED BY <3>1, <3>2
  <2>2. CASE RevokeAllFails(c)
    <3> DEFINE new == [call[c] EXCEPT !.phase = "failed"]
    <3>1. new \in CallRow /\ new.phase = "failed" /\ new.account = call[c].account
          /\ new.op = call[c].op /\ new.blocked = call[c].blocked
      BY <1>1, CallGoes DEF Phase, Ended
    <3>2. call' = [call EXCEPT ![c] = new]
      BY <2>2 DEF RevokeAllFails, Goes
    <3> QED BY <3>1, <3>2
  <2> QED BY <2>1, <2>2
<1>4. new.op = "refresh" /\ new.blocked => new.account \in Account /\ status[new.account] = "blocked"
  BY <1>3 DEF IInv, BlockedStayBlocked
<1> QED BY <1>1, <1>2, <1>3, <1>4, QuietStep

LEMMA BeginLogoutAllIInv ==
  ASSUME IInv, NEW c \in Call, NEW a \in Account, BeginLogoutAll(c, a)
  PROVE  IInv'
<1> DEFINE new == [NoCall EXCEPT !.op = "logout all", !.phase = "revoke all", !.account = a]
<1>1. new \in CallRow /\ new.phase = "revoke all" /\ ~new.blocked
  BY DEF NoCall, CallRow
<1>2. call' = [call EXCEPT ![c] = new]
  BY DEF BeginLogoutAll
<1> HIDE DEF new
<1>3. call[c].phase # "rotate" /\ UNCHANGED <<status, session, issued, holder, faults>>
  BY RowsTyped DEF BeginLogoutAll
<1>4. faults' \in 0..MaxFaults
  BY <1>3, FaultTyped DEF IInv
<1> QED BY <1>1, <1>2, <1>3, <1>4, QuietStep

-------------------------------------------------------------------------------
\* Steps on the rows that touch no call

LEMMA BlockIInv ==
  ASSUME IInv, NEW a \in Account, Block(a)
  PROVE  IInv'
<1>1. UNCHANGED <<session, issued, holder, call>> /\ status' = [status EXCEPT ![a] = "blocked"]
  BY DEF Block
<1>2. faults' \in 0..MaxFaults
  BY FaultTyped DEF Block, IInv
<1>3. TypeOK'
  BY <1>1, <1>2 DEF IInv, TypeOK
<1>4. BlockedStayBlocked'
  BY <1>1 DEF IInv, TypeOK, BlockedStayBlocked
<1> QED BY <1>1, <1>3, <1>4 DEF IInv, SessionsAreIssued, RotationsAreProtected, OneLivePerFamily

\* The new session of a login starts a family nobody else is in.
LEMMA LoginIInv ==
  ASSUME IInv, NEW a \in Account, NEW t \in Token, Login(a, t)
  PROVE  IInv'
<1> DEFINE row == [NoSession EXCEPT !.state = "live", !.account = a, !.family = t]
<1>1. row \in SessionRow /\ row.state = "live" /\ row.account = a /\ row.family = t
      /\ row.replacedBy = None
  BY DEF SessionRow, NoSession
<1>2. session' = [session EXCEPT ![t] = row] /\ UNCHANGED <<status, holder, call, faults>>
      /\ t = issued + 1 /\ issued' = t
  BY DEF Login, Generate
<1> HIDE DEF row
<1>3. session'[t] = row /\ \A u \in Token \ {t} : session'[u] = session[u]
  BY <1>2 DEF IInv, TypeOK
<1>4. issued \in Nat /\ t \in 1..MaxTokens
  BY SessionsAssumption DEF IInv, TypeOK, Token
<1>5. session[t].state = "absent"
  <2>1. ~(t <= issued)
    BY <1>2, <1>4
  <2> QED BY <2>1 DEF IInv, TypeOK, SessionRow, SessionsAreIssued
<1>6. TypeOK'
  <2>1. issued' \in 0..MaxTokens
    BY <1>2, <1>4, SessionsAssumption
  <2> QED BY <1>1, <1>2, <2>1 DEF IInv, TypeOK
<1>7. SessionsAreIssued'
  <2>1. \A x \in 1..issued : x \in 1..issued'
    BY <1>2, <1>4
  <2>2. \A u \in Token : u <= issued => u <= issued'
    BY <1>2, <1>4 DEF Token
  <2>3. t <= issued' /\ t \in 1..issued'
    BY <1>2, <1>4
  <2> QED BY <1>1, <1>3, <2>1, <2>2, <2>3 DEF IInv, SessionsAreIssued
<1>8. RotationsAreProtected'
  <2>1. \A c \in Call : call[c].phase = "rotate" =>
          call[c].token # t /\ call[c].new # t /\ call[c].new \in Token /\ call[c].new \in 1..issued'
    <3>1. \A c \in Call : call[c].phase = "rotate" =>
            session[call[c].token].state = "live" /\ call[c].new \in 1..issued
      BY DEF IInv, RotationsAreProtected
    <3>2. \A n \in 1..issued : n # t /\ n \in Token /\ n \in 1..issued'
      BY <1>2, <1>4, SessionsAssumption DEF Token
    <3> QED BY <1>5, <3>1, <3>2
  <2> QED BY <1>2, <1>3, <2>1 DEF IInv, RotationsAreProtected
<1>9. OneLivePerFamily'
  <2>1. \A u \in Token : session[u].state = "live" => session[u].family # t
    <3>1. \A u \in Token : session[u].state = "live" => session[u].family \in 1..issued
      BY DEF IInv, SessionsAreIssued
    <3>2. t \notin 1..issued
      BY <1>2, <1>4
    <3> QED BY <3>1, <3>2
  <2> QED BY <1>1, <1>3, <2>1 DEF IInv, OneLivePerFamily
<1> QED BY <1>2, <1>6, <1>7, <1>8, <1>9 DEF IInv, BlockedStayBlocked

LEMMA ExpireIInv ==
  ASSUME IInv, NEW t \in Token, Expire(t)
  PROVE  IInv'
<1> DEFINE row == [session[t] EXCEPT !.expired = TRUE]
<1>1. row \in SessionRow /\ row.state = session[t].state /\ row.account = session[t].account
      /\ row.family = session[t].family /\ row.replacedBy = session[t].replacedBy
  <2>1. session[t] \in SessionRow
    BY DEF IInv, TypeOK
  <2> QED BY <2>1 DEF SessionRow
<1>2. session' = [session EXCEPT ![t] = row] /\ UNCHANGED <<status, issued, holder, call>>
      /\ session[t].state # "absent"
  BY DEF Expire
<1> HIDE DEF row
<1>3. faults' \in 0..MaxFaults
  BY FaultTyped DEF Expire, IInv
<1>4. session' \in [Token -> SessionRow] /\ session'[t] = row
      /\ \A u \in Token \ {t} : session'[u] = session[u]
  BY <1>1, <1>2 DEF IInv, TypeOK
<1>5. call' \in [Call -> CallRow] /\ call' = call
  BY <1>2 DEF IInv, TypeOK
<1> QED BY <1>1, <1>2, <1>3, <1>4, <1>5, NoRotationMoves DEF OthersGo, FreeRowsChange

\* What Revoke and RevokeAllForAccount do to the sessions that nobody holds
LEMMA RevokedRows ==
  ASSUME IInv, NEW T \in SUBSET Token, session' = Revoked(T)
  PROVE  /\ session' \in [Token -> SessionRow]
         /\ \A t \in Token : session'[t] # session[t] =>
              /\ t \in T /\ session[t].state = "live" /\ session'[t].state = "revoked"
              /\ session'[t].account = session[t].account /\ session'[t].family = session[t].family
              /\ session'[t].replacedBy = session[t].replacedBy
<1>1. \A t \in Token : LET row == [session[t] EXCEPT !.state = "revoked"]
        IN  /\ row \in SessionRow /\ row.state = "revoked" /\ row.account = session[t].account
            /\ row.family = session[t].family /\ row.replacedBy = session[t].replacedBy
  <2> TAKE t \in Token
  <2>1. session[t] \in SessionRow
    BY DEF IInv, TypeOK
  <2> QED BY <2>1 DEF SessionRow
<1>2. \A t \in Token : session[t] \in SessionRow
  BY DEF IInv, TypeOK
<1>3. \A t \in Token :
        session'[t] = IF t \in T /\ session[t].state = "live"
                      THEN [session[t] EXCEPT !.state = "revoked"] ELSE session[t]
  BY DEF Revoked
<1>4. session' \in [Token -> SessionRow]
  BY <1>1, <1>2 DEF Revoked
<1> QED BY <1>1, <1>3, <1>4

LEMMA EndRevokeAllIInv ==
  ASSUME IInv, NEW c \in Call, EndRevokeAll(c)
  PROVE  IInv'
<1> DEFINE phase == IF call[c].op = "logout all" THEN "answered" ELSE "refused"
           new == [call[c] EXCEPT !.phase = phase]
<1>1. call[c] \in CallRow /\ phase \in Phase
      /\ phase # "rotate" /\ (call[c].op = "refresh" => phase = "refused")
  BY DEF IInv, TypeOK, Phase, Ended
<1>2. new \in CallRow /\ new.phase = phase /\ new.op = call[c].op /\ new.account = call[c].account
      /\ new.blocked = call[c].blocked
  BY <1>1, CallGoes
<1>3. call' = [call EXCEPT ![c] = new] /\ session' = Revoked(call[c].snapshot)
      /\ call[c].phase = "revoking" /\ UNCHANGED <<status, issued, holder, faults>>
      /\ \A t \in call[c].snapshot : holder[t] = None
  BY DEF EndRevokeAll, Goes
<1> HIDE DEF new, phase
<1>4. new.phase # "rotate" /\ (new.op = "refresh" => new.phase = "refused")
  BY <1>1, <1>2
<1>5. new.op = "refresh" /\ new.blocked => new.account \in Account /\ status[new.account] = "blocked"
  BY <1>2 DEF IInv, BlockedStayBlocked
<1>6. /\ call' \in [Call -> CallRow] /\ call'[c] = new
      /\ \A d \in Call \ {c} : call'[d] = call[d]
  BY <1>2, <1>3 DEF IInv, TypeOK
<1>7. call[c].snapshot \in SUBSET Token
  BY <1>1 DEF CallRow
<1>8. /\ session' \in [Token -> SessionRow]
      /\ \A t \in Token : session'[t] # session[t] =>
           /\ t \in call[c].snapshot /\ session[t].state = "live" /\ session'[t].state = "revoked"
           /\ session'[t].account = session[t].account /\ session'[t].family = session[t].family
           /\ session'[t].replacedBy = session[t].replacedBy
  BY <1>3, <1>7, RevokedRows
<1>9. faults' \in 0..MaxFaults
  BY <1>3, FaultTyped DEF IInv
<1> QED BY <1>3, <1>4, <1>5, <1>6, <1>8, <1>9, NoRotationMoves DEF OthersGo, FreeRowsChange

LEMMA LogoutIInv ==
  ASSUME IInv, NEW c \in Call, NEW t \in Token, Logout(c, t)
  PROVE  IInv'
<1> DEFINE new == [NoCall EXCEPT !.op = "logout", !.phase = "answered"]
<1>1. new \in CallRow /\ new.phase = "answered" /\ ~new.blocked
  BY DEF NoCall, CallRow, Ended
<1>2. call' = [call EXCEPT ![c] = new] /\ session' = Revoked({t}) /\ call[c] = NoCall
      /\ UNCHANGED <<status, issued, holder, faults>> /\ holder[t] = None
  BY DEF Logout, RevokeSession
<1> HIDE DEF new
<1>3. /\ call' \in [Call -> CallRow] /\ call'[c] = new /\ call[c].phase # "rotate"
      /\ \A d \in Call \ {c} : call'[d] = call[d]
  BY <1>1, <1>2, RowsTyped DEF IInv, TypeOK
<1>4. /\ session' \in [Token -> SessionRow]
      /\ \A u \in Token : session'[u] # session[u] =>
           /\ u \in {t} /\ session[u].state = "live" /\ session'[u].state = "revoked"
           /\ session'[u].account = session[u].account /\ session'[u].family = session[u].family
           /\ session'[u].replacedBy = session[u].replacedBy
  BY <1>2, RevokedRows
<1>5. faults' \in 0..MaxFaults
  BY <1>2, FaultTyped DEF IInv
<1> QED BY <1>1, <1>2, <1>3, <1>4, <1>5, NoRotationMoves DEF OthersGo, FreeRowsChange

-------------------------------------------------------------------------------
\* Rotations

\* A step of call c alone, in its parts
Moves(c, new) == call' = [call EXCEPT ![c] = new]

LEMMA MovesOne ==
  ASSUME TypeOK, NEW c \in Call, NEW new \in CallRow, Moves(c, new)
  PROVE  call' \in [Call -> CallRow] /\ call'[c] = new /\ \A d \in Call \ {c} : call'[d] = call[d]
  BY DEF TypeOK, Moves

\* The claim locks a live session that nobody holds, and its token is new.
LEMMA ClaimLocksIInv ==
  ASSUME IInv, NEW c \in Call, NEW t \in Token, NEW n \in Token,
         call[c] = NoCall, session[t].state = "live", RowLock(c, t), Generate(n),
         Moves(c, [NoCall EXCEPT !.op = "refresh", !.token = t, !.account = session[t].account,
                                 !.phase = "rotate", !.new = n]),
         UNCHANGED <<status, session, faults>>
  PROVE  IInv'
<1> DEFINE new == [NoCall EXCEPT !.op = "refresh", !.token = t, !.account = session[t].account,
                                 !.phase = "rotate", !.new = n]
<1>1. /\ new \in CallRow /\ new.op = "refresh" /\ new.token = t /\ new.phase = "rotate"
      /\ new.new = n /\ new.account = session[t].account /\ ~new.blocked
  <2>1. session[t].account \in Account \cup {None}
    BY DEF IInv, TypeOK, SessionRow
  <2> QED BY <2>1 DEF NoCall, CallRow
<1>2. Moves(c, new)
  OBVIOUS
<1> HIDE DEF new
<1>3. call' \in [Call -> CallRow] /\ call'[c] = new /\ \A d \in Call \ {c} : call'[d] = call[d]
  BY <1>1, <1>2, MovesOne DEF IInv
<1>4. /\ holder' \in [Token -> Call \cup {None}] /\ holder'[t] = c /\ holder[t] = None
      /\ \A u \in Token \ {t} : holder'[u] = holder[u]
  BY DEF RowLock, IInv, TypeOK
<1>5. /\ issued \in Nat /\ issued' \in 0..MaxTokens /\ issued < n /\ n \in 1..issued'
      /\ \A m \in 1..issued : m \in 1..issued' /\ m # n
      /\ \A m \in Token : m <= issued => m <= issued'
  BY SessionsAssumption DEF Generate, IInv, TypeOK, Token
<1>6. session[n].state = "absent"
  <2>1. ~(n <= issued)
    BY <1>5 DEF Token
  <2> QED BY <2>1 DEF IInv, TypeOK, SessionRow, SessionsAreIssued
<1>7. \A u \in Token : holder[u] # None => holder[u] # c
  BY LocksAreRotations, RowsTyped DEF IInv
<1>8. TypeOK'
  <2>1. \A u \in Token : holder'[u] # None =>
          call'[holder'[u]].phase = "rotate" /\ call'[holder'[u]].token = u
    BY <1>1, <1>3, <1>4, <1>7, LocksAreRotations DEF IInv
  <2> QED BY <1>3, <1>4, <1>5, <2>1 DEF IInv, TypeOK
<1>9. SessionsAreIssued'
  BY <1>5 DEF IInv, SessionsAreIssued
<1>10. RotationsAreProtected'
  <2> SUFFICES ASSUME NEW d \in Call, call'[d].phase = "rotate"
               PROVE  /\ call'[d].op = "refresh" /\ ~call'[d].blocked
                      /\ call'[d].token \in Token /\ holder'[call'[d].token] = d
                      /\ session'[call'[d].token].state = "live"
                      /\ session'[call'[d].token].account = call'[d].account
                      /\ call'[d].new \in 1..issued' /\ session'[call'[d].new].state = "absent"
                      /\ \A e \in Call :
                           call'[e].phase = "rotate" /\ call'[e].new = call'[d].new => e = d
    BY DEF RotationsAreProtected
  <2>1. \A e \in Call \ {c} : call'[e].phase = "rotate" =>
          call'[e] = call[e] /\ call[e].phase = "rotate" /\ call[e].new # n
    BY <1>3, <1>5, RotationFacts
  <2>2. CASE d = c
    BY <1>1, <1>3, <1>4, <1>5, <1>6, <2>1, <2>2
  <2>3. CASE d # c
    <3>1. call'[d] = call[d] /\ call[d].phase = "rotate" /\ call[d].new # n
      BY <2>1, <2>3
    <3>2. call[d].token # t
      BY <1>4, <3>1, RotationFacts
    <3>3. \A e \in Call : call'[e].phase = "rotate" /\ call'[e].new = call'[d].new => e = d
      BY <1>1, <1>3, <2>1, <3>1, RotationFacts
    <3> QED BY <1>4, <1>5, <3>1, <3>2, <3>3, RotationFacts
  <2> QED BY <2>2, <2>3
<1>11. BlockedStayBlocked'
  <2>1. \A d \in Call : call'[d].blocked => call'[d] = call[d]
    BY <1>1, <1>3
  <2>2. status' = status /\ BlockedStayBlocked
    BY DEF IInv
  <2> QED BY <2>1, <2>2 DEF BlockedStayBlocked
<1> QED BY <1>8, <1>9, <1>10, <1>11 DEF IInv, OneLivePerFamily

LEMMA ClaimForRotationIInv ==
  ASSUME IInv, NEW c \in Call, NEW t \in Token, NEW n \in Token, ClaimForRotation(c, t, n)
  PROVE  IInv'
<1>1. call[c] = NoCall /\ UNCHANGED <<status, session, faults>> /\ call[c].phase # "rotate"
  BY RowsTyped DEF ClaimForRotation
<1> DEFINE asked == [NoCall EXCEPT !.op = "refresh", !.token = t, !.account = session[t].account]
<1>2. CASE session[t].state = "live" /\ RowLock(c, t) /\ Generate(n)
           /\ call' = [call EXCEPT ![c] = [asked EXCEPT !.phase = "rotate", !.new = n]]
  BY <1>1, <1>2, ClaimLocksIInv DEF Moves
<1>3. ASSUME NEW phase \in {"revoke all", "refused"}, UNCHANGED <<issued, holder>>,
             call' = [call EXCEPT ![c] = [asked EXCEPT !.phase = phase]]
      PROVE  IInv'
  <2> DEFINE new == [asked EXCEPT !.phase = phase]
  <2>1. new \in CallRow /\ new.phase = phase /\ ~new.blocked
    <3>1. session[t].account \in Account \cup {None}
      BY DEF IInv, TypeOK, SessionRow
    <3> QED BY <3>1 DEF NoCall, CallRow, Ended
  <2>2. call' = [call EXCEPT ![c] = new]
    BY <1>3
  <2> HIDE DEF new
  <2>3. faults' \in 0..MaxFaults
    BY <1>1, FaultTyped DEF IInv
  <2> QED BY <1>1, <1>3, <2>1, <2>2, <2>3, QuietStep
<1> QED BY <1>2, <1>3 DEF ClaimForRotation

\* The end of a transaction gives back the one lock it has.
LEMMA UnlockFacts ==
  ASSUME IInv, NEW c \in Call, call[c].phase = "rotate", Unlock(c)
  PROVE  /\ holder' \in [Token -> Call \cup {None}] /\ holder'[call[c].token] = None
         /\ \A u \in Token \ {call[c].token} : holder'[u] = holder[u] /\ holder[u] # c
<1>1. \A u \in Token : holder'[u] = IF holder[u] = c THEN None ELSE holder[u]
  BY DEF Unlock
<1>2. \A u \in Token : holder[u] = c => u = call[c].token
  BY RotationFacts, LocksAreRotations DEF IInv
<1>3. holder' \in [Token -> Call \cup {None}]
  BY DEF Unlock, IInv, TypeOK
<1> QED BY <1>1, <1>2, <1>3, RotationFacts

LEMMA RollbackIInv ==
  ASSUME IInv, NEW c \in Call, Rollback(c)
  PROVE  IInv'
<1> DEFINE new == [call[c] EXCEPT !.phase = "failed"]
<1>0. call[c].phase = "rotate" /\ "failed" \in Phase
  BY DEF Rollback, Phase, Ended
<1>1. new \in CallRow /\ new.phase = "failed" /\ ~new.blocked /\ call[c].phase = "rotate"
  BY <1>0, CallGoes, RotationFacts
<1>2. Moves(c, new) /\ UNCHANGED <<status, session, issued>> /\ Unlock(c)
  BY DEF Rollback, Goes, Moves
<1> HIDE DEF new
<1>3. call' \in [Call -> CallRow] /\ call'[c] = new /\ \A d \in Call \ {c} : call'[d] = call[d]
  BY <1>1, <1>2, MovesOne DEF IInv
<1>4. /\ holder' \in [Token -> Call \cup {None}] /\ holder'[call[c].token] = None
      /\ \A u \in Token \ {call[c].token} : holder'[u] = holder[u] /\ holder[u] # c
  BY <1>1, <1>2, UnlockFacts
<1>5. faults' \in 0..MaxFaults
  BY FaultTyped DEF Rollback, IInv
<1>6. TypeOK'
  <2>1. \A u \in Token : holder'[u] # None =>
          call'[holder'[u]].phase = "rotate" /\ call'[holder'[u]].token = u
    BY <1>3, <1>4, LocksAreRotations DEF IInv
  <2> QED BY <1>2, <1>3, <1>4, <1>5, <2>1 DEF IInv, TypeOK
<1>7. RotationsAreProtected'
  <2>1. \A d \in Call : call'[d].phase = "rotate" =>
          d # c /\ call'[d] = call[d] /\ call[d].token # call[c].token
    BY <1>1, <1>3, RotationFacts
  <2> QED BY <1>2, <1>4, <2>1 DEF IInv, RotationsAreProtected
<1>8. BlockedStayBlocked'
  BY <1>1, <1>2, <1>3 DEF IInv, BlockedStayBlocked
<1> QED BY <1>2, <1>6, <1>7, <1>8 DEF IInv, SessionsAreIssued, OneLivePerFamily

\* What a commit writes: the old session ends with its successor recorded, and the
\* new one takes its place in the family.
LEMMA CommitRows ==
  ASSUME IInv, NEW c \in Call, CommitRotation(c)
  PROVE  LET t == call[c].token
             n == call[c].new
         IN  /\ t # n /\ call[c].phase = "rotate"
             /\ session' \in [Token -> SessionRow]
             /\ session'[t].state = "revoked" /\ session'[t].account = session[t].account
             /\ session'[t].family = session[t].family
             /\ session'[n].state = "live" /\ session'[n].account = session[t].account
             /\ session'[n].family = session[t].family /\ session'[n].replacedBy = None
             /\ \A u \in Token \ {t, n} : session'[u] = session[u]
<1> DEFINE t == call[c].token
           n == call[c].new
           old == [session[t] EXCEPT !.state = "revoked", !.replacedBy = n]
           fresh == [NoSession EXCEPT !.state = "live", !.account = session[t].account,
                                      !.family = session[t].family]
<1>1. call[c].phase = "rotate"
  BY DEF CommitRotation
<1>2. t \in Token /\ n \in Token /\ t # n /\ session[t] \in SessionRow
  <2>1. t \in Token /\ n \in Token /\ session[t].state = "live" /\ session[n].state = "absent"
    BY <1>1, RotationFacts
  <2> QED BY <2>1 DEF IInv, TypeOK
<1>3. session' = [session EXCEPT ![t] = old, ![n] = fresh]
  BY <1>2 DEF CommitRotation, IInv, TypeOK
<1>4. /\ old \in SessionRow /\ old.state = "revoked" /\ old.account = session[t].account
      /\ old.family = session[t].family
  BY <1>2 DEF SessionRow
<1>5. /\ fresh \in SessionRow /\ fresh.state = "live" /\ fresh.account = session[t].account
      /\ fresh.family = session[t].family /\ fresh.replacedBy = None
  BY <1>2 DEF SessionRow, NoSession
<1> HIDE DEF old, fresh
<1>6. /\ session' \in [Token -> SessionRow] /\ session'[t] = old /\ session'[n] = fresh
      /\ \A u \in Token \ {t, n} : session'[u] = session[u]
  BY <1>2, <1>3, <1>4, <1>5 DEF IInv, TypeOK
<1> QED BY <1>1, <1>2, <1>4, <1>5, <1>6

LEMMA CommitRotationIInv ==
  ASSUME IInv, NEW c \in Call, CommitRotation(c)
  PROVE  IInv'
<1> DEFINE t == call[c].token
           n == call[c].new
<1>1. /\ t # n /\ call[c].phase = "rotate" /\ session' \in [Token -> SessionRow]
      /\ session'[t].state = "revoked" /\ session'[t].account = session[t].account
      /\ session'[t].family = session[t].family
      /\ session'[n].state = "live" /\ session'[n].account = session[t].account
      /\ session'[n].family = session[t].family /\ session'[n].replacedBy = None
      /\ \A u \in Token \ {t, n} : session'[u] = session[u]
  BY CommitRows
<1>2. /\ t \in Token /\ n \in Token /\ n \in 1..issued /\ holder[t] = c
      /\ session[t].state = "live" /\ session[n].state = "absent"
      /\ session[t].account = call[c].account /\ ~call[c].blocked
  BY <1>1, RotationFacts
<1>3. session[t].account \in Account /\ session[t].family \in 1..issued /\ t <= issued
      /\ n <= issued
  BY <1>2 DEF IInv, TypeOK, SessionsAreIssued
<1>4. PICK new \in CallRow :
        /\ Moves(c, new) /\ new.phase \in {"account", "failed"} /\ new.account = call[c].account
        /\ new.blocked => new.phase = "account" /\ status[call[c].account] = "blocked"
  <2>1. call[c] \in CallRow
    BY DEF IInv, TypeOK
  <2>2. CASE call' = [call EXCEPT ![c].phase = "account",
                                  ![c].blocked = status[session[t].account] # "active"]
    <3> DEFINE new == [call[c] EXCEPT !.phase = "account",
                                      !.blocked = status[session[t].account] # "active"]
    <3>1. /\ new \in CallRow /\ new.phase = "account" /\ new.account = call[c].account
          /\ new.blocked => status[session[t].account] # "active"
      BY <2>1 DEF CallRow
    <3>2. status[session[t].account] # "active" => status[call[c].account] = "blocked"
      BY <1>2, <1>3 DEF IInv, TypeOK
    <3>3. Moves(c, new)
      BY <2>2 DEF Moves, IInv, TypeOK
    <3> QED BY <3>1, <3>2, <3>3
  <2>3. CASE Goes(c, "failed")
    <3> DEFINE new == [call[c] EXCEPT !.phase = "failed"]
    <3>1. new \in CallRow /\ new.phase = "failed" /\ new.account = call[c].account /\ ~new.blocked
      BY <1>2, <2>1, CallGoes DEF Phase, Ended
    <3>2. Moves(c, new)
      BY <2>3 DEF Goes, Moves
    <3> QED BY <3>1, <3>2
  <2> QED BY <2>2, <2>3 DEF CommitRotation
<1>5. call' \in [Call -> CallRow] /\ call'[c] = new /\ \A d \in Call \ {c} : call'[d] = call[d]
  BY <1>4, MovesOne DEF IInv
<1>6. /\ holder' \in [Token -> Call \cup {None}] /\ holder'[t] = None
      /\ \A u \in Token \ {t} : holder'[u] = holder[u] /\ holder[u] # c
  BY <1>1, UnlockFacts DEF CommitRotation
<1>7. UNCHANGED <<status, issued>> /\ faults' \in 0..MaxFaults
  BY FaultTyped DEF CommitRotation, IInv
<1>8. TypeOK'
  <2>1. \A u \in Token : holder'[u] # None =>
          call'[holder'[u]].phase = "rotate" /\ call'[holder'[u]].token = u
    BY <1>5, <1>6, LocksAreRotations DEF IInv
  <2> QED BY <1>1, <1>5, <1>6, <1>7, <2>1 DEF IInv, TypeOK
<1>9. SessionsAreIssued'
  BY <1>1, <1>2, <1>3, <1>7 DEF IInv, SessionsAreIssued
<1>10. RotationsAreProtected'
  <2>1. \A d \in Call : call'[d].phase = "rotate" =>
          /\ d # c /\ call'[d] = call[d] /\ call[d].token \notin {t, n} /\ call[d].new \notin {t, n}
    <3> SUFFICES ASSUME NEW d \in Call, call'[d].phase = "rotate"
                 PROVE  /\ d # c /\ call'[d] = call[d]
                        /\ call[d].token \notin {t, n} /\ call[d].new \notin {t, n}
      OBVIOUS
    <3>1. d # c /\ call'[d] = call[d] /\ call[d].phase = "rotate"
      BY <1>4, <1>5
    <3>2. /\ holder[call[d].token] = d /\ session[call[d].token].state = "live"
          /\ session[call[d].new].state = "absent"
      BY <3>1, RotationFacts
    <3>3. call[d].new # n
      BY <1>1, <3>1, RotationFacts
    <3> QED BY <1>2, <3>1, <3>2, <3>3
  <2> QED BY <1>1, <1>6, <1>7, <2>1, RotationFacts DEF IInv, RotationsAreProtected
<1>11. OneLivePerFamily'
  <2>1. \A u \in Token \ {n} : session'[u].state = "live" =>
          u # t /\ session[u].state = "live" /\ session'[u].family = session[u].family
    BY <1>1
  <2>2. \A u \in Token \ {n} : session'[u].state = "live" => session'[u].family # session'[n].family
    BY <1>1, <1>2, <2>1 DEF IInv, OneLivePerFamily
  <2> QED BY <2>1, <2>2 DEF IInv, OneLivePerFamily
<1>12. BlockedStayBlocked'
  <2>1. call'[c].blocked => /\ call'[c].phase = "account" /\ call'[c].account \in Account
                            /\ status[call'[c].account] = "blocked"
    BY <1>2, <1>3, <1>4, <1>5
  <2> QED BY <1>5, <1>7, <2>1 DEF IInv, BlockedStayBlocked
<1> QED BY <1>8, <1>9, <1>10, <1>11, <1>12 DEF IInv

-------------------------------------------------------------------------------
LEMMA NextIInv == IInv /\ [Next]_vars => IInv'
<1> SUFFICES ASSUME IInv, [Next]_vars PROVE IInv'
  OBVIOUS
<1>1. CASE \E a \in Account : Block(a) \/ \E t \in Token : Login(a, t)
  BY <1>1, BlockIInv, LoginIInv
<1>2. CASE \E c \in Call : CommitRotation(c) \/ Rollback(c) \/ CheckAccount(c)
  BY <1>2, CommitRotationIInv, RollbackIInv, CheckAccountIInv
<1>3. CASE \E c \in Call : BeginRevokeAll(c) \/ EndRevokeAll(c) \/ RevokeAllFails(c)
  BY <1>3, RevokeAllCallsIInv, EndRevokeAllIInv
<1>4. CASE \E c \in Call, t \in Token : Logout(c, t) \/ \E n \in Token : ClaimForRotation(c, t, n)
  BY <1>4, LogoutIInv, ClaimForRotationIInv
<1>5. CASE \E c \in Call, a \in Account : BeginLogoutAll(c, a)
  BY <1>5, BeginLogoutAllIInv
<1>6. CASE \E t \in Token : Expire(t)
  BY <1>6, ExpireIInv
<1>7. CASE UNCHANGED vars
  <2>1. TypeOK'
    BY <1>7 DEF vars, IInv, TypeOK
  <2>2. SessionsAreIssued' /\ OneLivePerFamily' /\ BlockedStayBlocked'
    BY <1>7 DEF vars, IInv, SessionsAreIssued, OneLivePerFamily, BlockedStayBlocked
  <2>3. RotationsAreProtected'
    BY <1>7 DEF vars, IInv, RotationsAreProtected
  <2> QED BY <2>1, <2>2, <2>3 DEF IInv
<1> QED BY <1>1, <1>2, <1>3, <1>4, <1>5, <1>6, <1>7 DEF Next

LEMMA SessionsIInv == Spec => []IInv
  BY InitIInv, NextIInv, PTL DEF Spec

\* However logins, refreshes, logouts, lost answers and failures interleave, no row
\* lock of customer_sessions outlives the transaction of ClaimForRotation that took it.
THEOREM LocksEnd == Spec => []TypeOK
  BY SessionsIInv, PTL DEF IInv

\* Of the sessions that descend from one login at most one is live: a refresh token and
\* a stolen copy of it are never both rotated by ClaimForRotation.
THEOREM FamiliesHaveOneLive == Spec => []OneLivePerFamily
  BY SessionsIInv, PTL DEF IInv

\* Refresh gives its new tokens to no account that was blocked when it rotated.
THEOREM BlockedAreRefused == Spec => []BlockedGetNoTokens
<1>1. IInv => BlockedGetNoTokens
  BY DEF IInv, BlockedStayBlocked, BlockedGetNoTokens
<1> QED BY <1>1, SessionsIInv, PTL

\* What Revoke, RevokeAllForAccount or a rotation wrote to a session, no later one
\* overwrites.
THEOREM RevocationsStay == Spec => RevocationIsFinal
<1> DEFINE Final ==
      \A t \in Token :
        /\ session[t].state = "revoked" => session'[t].state = "revoked"
        /\ session[t].replacedBy # None => session'[t].replacedBy = session[t].replacedBy
<1>1. ASSUME IInv, [Next]_vars PROVE Final
  <2>1. CASE UNCHANGED session
    BY <2>1
  <2>2. ASSUME NEW a \in Account, NEW t \in Token, Login(a, t) PROVE Final
    <3>1. issued \in Nat /\ t = issued + 1
      BY <1>1, <2>2, SessionsAssumption DEF Login, Generate, IInv, TypeOK
    <3>2. session[t].state = "absent" /\ session[t].replacedBy = None
      BY <1>1, <3>1 DEF IInv, TypeOK, SessionRow, SessionsAreIssued, NoSession
    <3>3. \A u \in Token \ {t} : session'[u] = session[u]
      BY <1>1, <2>2 DEF Login, IInv, TypeOK
    <3> QED BY <3>2, <3>3
  <2>3. ASSUME NEW c \in Call, CommitRotation(c) PROVE Final
    <3> DEFINE t == call[c].token
               n == call[c].new
    <3>1. /\ session'[t].state = "revoked" /\ call[c].phase = "rotate"
          /\ \A u \in Token \ {t, n} : session'[u] = session[u]
      BY <1>1, <2>3, CommitRows
    <3>2. /\ t \in Token /\ session[t].state = "live"
          /\ n \in Token /\ session[n].state = "absent"
      BY <1>1, <3>1, RotationFacts
    <3>3. session[t].replacedBy = None /\ session[n] = NoSession
      BY <1>1, <3>2 DEF IInv, SessionsAreIssued
    <3> QED BY <3>1, <3>2, <3>3 DEF NoSession
  <2>4. ASSUME NEW T \in SUBSET Token, session' = Revoked(T) PROVE Final
    BY <1>1, <2>4, RevokedRows
  <2>5. ASSUME NEW c \in Call, EndRevokeAll(c) PROVE Final
    <3>1. call[c].snapshot \in SUBSET Token
      BY <1>1, <2>5 DEF IInv, TypeOK, CallRow
    <3> QED BY <2>4, <2>5, <3>1 DEF EndRevokeAll
  <2>6. ASSUME NEW c \in Call, NEW t \in Token, Logout(c, t) PROVE Final
    BY <2>4, <2>6 DEF Logout, RevokeSession
  <2>7. ASSUME NEW t \in Token, Expire(t) PROVE Final
    BY <1>1, <2>7 DEF Expire, IInv, TypeOK, SessionRow
  <2> QED BY <1>1, <2>1, <2>2, <2>3, <2>5, <2>6, <2>7
          DEF Next, vars, Block, Rollback, CheckAccount, BeginRevokeAll, RevokeAllFails,
              ClaimForRotation, BeginLogoutAll
<1>2. IInv /\ [Next]_vars => [Final]_vars
  BY <1>1
<1> QED BY <1>2, SessionsIInv, PTL DEF Spec, RevocationIsFinal
===============================================================================
