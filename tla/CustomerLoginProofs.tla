--------------------------- MODULE CustomerLoginProofs ---------------------------
(***************************************************************************)
(* Login by a code, for any number of phones, addresses, requests and      *)
(* verifications, any limits, any TTLs that LoginAssumption allows, and    *)
(* any number of Redis commands that run again at any later time.          *)
(* The cooldown a request set outlives it, so each request that works      *)
(* without it was robbed by a repeated release, or has inherited the loss  *)
(* of one that was; the challenge counts what is compared with a code and  *)
(* leaves in the step that proves it, so guesses and sessions are counted  *)
(* by the times a code was stored; and texts stay within the limits        *)
(* because every one of them is an increment some counter has had.         *)
(***************************************************************************)
EXTENDS CustomerLogin, FiniteSetTheorems, TLAPS

\* The cooldown a request has set outlives it, and as many requests lost theirs as
\* copies of a release have deleted one.
Robbed(p) == {r \in WorkingOn(p) : cooldown[p].by # r}
Outlives(r) ==
  cooldown[request[r].phone].by = r =>
    cooldown[request[r].phone].left + RequestTimeout >= request[r].left + ResendCooldown
PhonesAreHeld ==
  /\ \A r \in Request : RequestWorks(r) =>
       request[r].phone \in Phone /\ request[r].ip \in IP /\ Outlives(r)
  /\ \A p \in Phone : Cardinality(Robbed(p)) <= lateDeletes[p]

\* Before its code is stored a request has no code anybody could know.
Unstored == {"idle", "phone", "ip", "store"}
Stored(r, p) == r \in Request /\ request[r].phase \notin Unstored /\ request[r].phone = p

\* A copy of a store is one of a store that was made.
SentWell(c) ==
  /\ c.what # "count" => c.key \in Phone
  /\ c.what = "store code" => Stored(c.by, c.key)
SentAreWell == \A c \in sent : SentWell(c)

\* A challenge counts the comparisons with its code since it was last stored.
Earlier(r) == MaxAttempts * lateStores[r]
ChallengesCount ==
  /\ \A p \in Phone : challenge[p] # NoCode =>
       Stored(challenge[p].code, p)
       /\ tries[challenge[p].code] <= Earlier(challenge[p].code) + challenge[p].attempts
  /\ \A r \in Request : /\ tries[r] <= Earlier(r) + MaxAttempts
                        /\ request[r].phase \in Unstored => tries[r] = 0

\* A verification with a code that was proved still has the consent and the account
\* it will open its session with.
SpentByVerify(v) ==
  /\ verify[v].phone \in Phone /\ Stored(verify[v].code, verify[v].phone)
  /\ verify[v].phase \in {"link", "consent", "session"} => account[verify[v].phone] # "none"
  /\ verify[v].phase = "session" /\ verify[v].consent => verify[v].phone \in consented
SpentBySession(s) ==
  /\ s.phone \in Phone /\ Stored(s.code, s.phone)
  /\ account[s.phone] # "none"
  /\ s.consent => s.phone \in consented
CodesAreSpent ==
  /\ \A v \in Verify : VerifyWorks(v) => SpentByVerify(v)
  /\ \A s \in sessions : SpentBySession(s)

\* A code is in a challenge, in the hands of a verification or in a session once for
\* each time it was stored.
SessionsOf(r) == {s \in sessions : s.code = r}
Proving(r) == {v \in Verify : VerifyWorks(v) /\ verify[v].code = r}
Usable(r) == IF \E p \in Phone : challenge[p].code = r THEN 1 ELSE 0
CodesAreCounted ==
  /\ IsFiniteSet(sessions)
  /\ \A r \in Request :
       Cardinality(SessionsOf(r)) + Cardinality(Proving(r)) + Usable(r) <= 1 + lateStores[r]

\* What is left of a counter's window, the texts sent, and the requests that have
\* passed the count and not sent yet
Limit(k) == IF k \in Phone THEN MaxRequestsPerPhone ELSE MaxRequestsPerIP
Credit(k) == IF counter[k].left > 0 /\ counter[k].n <= Limit(k) THEN Limit(k) - counter[k].n ELSE 0
PhoneCounted(r) ==
  \/ request[r].phase \in {"store", "send"}
  \/ request[r].phase = "ip" /\ request[r].counted <= MaxRequestsPerPhone
Owes(r, k) ==
  \/ request[r].phone = k /\ PhoneCounted(r)
  \/ request[r].ip = k /\ request[r].phase \in {"store", "send"}
Owed(k) == {r \in Request : Owes(r, k)}
Budget(k) == texts[k] + Cardinality(Owed(k)) + Credit(k) <= Limit(k) * windows[k]
TextsAreCounted == \A k \in Key : Budget(k)

IInv ==
  /\ TypeOK /\ PhonesAreHeld /\ SentAreWell /\ ChallengesCount /\ CodesAreSpent
  /\ CodesAreCounted /\ TextsAreCounted

-------------------------------------------------------------------------------
\* The records and their updates

LEMMA Constants ==
  /\ RequestTimeout \in Nat /\ ResendCooldown \in Nat /\ 0 < RequestTimeout
  /\ RequestTimeout < ResendCooldown
  /\ CodeTTL \in Nat /\ CodeTTL > 0 /\ RateLimitWindow \in Nat /\ RateLimitWindow > 0
  /\ MaxAttempts \in Nat /\ MaxAttempts > 0
  /\ MaxRequestsPerPhone \in Nat /\ MaxRequestsPerIP \in Nat
  /\ MaxWindows \in Nat /\ MaxFaults \in Nat
  /\ Nobody \notin Request /\ IsFiniteSet(Request) /\ IsFiniteSet(Verify)
  /\ \A p \in Phone : p \in Key /\ p \notin IP
  /\ \A i \in IP : i \in Key /\ i \notin Phone
  BY LoginAssumption DEF Key

LEMMA NoRows ==
  /\ NoCheck \in VerifyCall /\ NoCheck.phase = "idle"
  /\ NoCode \in ChallengeKey /\ NoCode.code = Nobody
  BY Constants DEF NoCheck, VerifyCall, VerifyPhase, NoCode, ChallengeKey

LEMMA RequestTyped ==
  ASSUME TypeOK, NEW r \in Request
  PROVE  /\ request[r] \in RequestCall /\ request[r].phase \in RequestPhase
         /\ request[r].left \in Nat /\ request[r].left <= RequestTimeout
         /\ request[r].counted \in Nat
  BY Constants DEF TypeOK, RequestCall

LEMMA CooldownTyped ==
  ASSUME TypeOK, NEW p \in Phone
  PROVE  cooldown[p] \in CooldownKey /\ cooldown[p].left \in Nat
  BY Constants DEF TypeOK, CooldownKey

LEMMA ChallengeTyped ==
  ASSUME TypeOK, NEW p \in Phone
  PROVE  /\ challenge[p] \in ChallengeKey /\ challenge[p].code \in Request \cup {Nobody}
         /\ challenge[p].attempts \in Nat /\ challenge[p].attempts < MaxAttempts
         /\ challenge[p].left \in Nat
  BY Constants DEF TypeOK, ChallengeKey

LEMMA CounterTyped ==
  ASSUME TypeOK, NEW k \in Key
  PROVE  /\ counter[k] \in CounterKey /\ counter[k].n \in Nat /\ counter[k].left \in Nat
         /\ texts[k] \in Nat /\ windows[k] \in Nat
  BY Constants DEF TypeOK, CounterKey

LEMMA FaultTyped ==
  ASSUME TypeOK, Fault \/ UNCHANGED faults
  PROVE  faults' \in 0..MaxFaults
<1>1. faults \in 0..MaxFaults /\ MaxFaults \in Nat
  BY Constants DEF TypeOK
<1> QED BY <1>1 DEF Fault

\* Only request r has changed.
OneRequest(r) ==
  /\ request' \in [Request -> RequestCall]
  /\ \A q \in Request \ {r} : request'[q] = request[q]

\* A request that goes on, or ends, keeps its phone and address and gains no time.
GoesOn(r) ==
  /\ OneRequest(r)
  /\ request'[r].phone = request[r].phone /\ request'[r].ip = request[r].ip
  /\ request'[r].left <= request[r].left

LEMMA GoesFacts ==
  ASSUME TypeOK, NEW r \in Request, NEW phase \in RequestPhase, Goes(r, phase)
  PROVE  GoesOn(r) /\ request'[r].phase = phase /\ request'[r].counted = 0
<1> DEFINE left == IF phase \in {"sent", "refused"} THEN 0 ELSE request[r].left
           new == [request[r] EXCEPT !.phase = phase, !.counted = 0, !.left = left]
<1>1. request[r] \in RequestCall /\ left \in 0..RequestTimeout /\ left <= request[r].left
  BY RequestTyped, Constants
<1>2. request' = [request EXCEPT ![r] = new]
  BY DEF Goes, TypeOK
<1> HIDE DEF left
<1>3. /\ new \in RequestCall /\ new.phase = phase /\ new.counted = 0 /\ new.left = left
      /\ new.phone = request[r].phone /\ new.ip = request[r].ip
  BY <1>1 DEF RequestCall
<1> HIDE DEF new
<1>4. /\ request' \in [Request -> RequestCall] /\ request'[r] = new
      /\ \A q \in Request \ {r} : request'[q] = request[q]
  BY <1>2, <1>3 DEF TypeOK
<1> QED BY <1>1, <1>3, <1>4 DEF GoesOn, OneRequest

LEMMA PhasesFacts ==
  /\ Unstored \subseteq RequestPhase /\ "sent" \in RequestPhase /\ "refused" \in RequestPhase
  /\ "send" \in RequestPhase /\ "release" \in RequestPhase
  /\ "send" \notin Unstored /\ "release" \notin Unstored /\ "sent" \notin Unstored
  /\ "refused" \notin Unstored
  /\ "store" \in Unstored /\ "ip" \in Unstored /\ "phone" \in Unstored /\ "idle" \in Unstored
  BY DEF RequestPhase, Unstored

\* How many there are in a set that loses or gains one
LEMMA Shrinks ==
  ASSUME NEW S, NEW T, IsFiniteSet(T), S \subseteq T
  PROVE  /\ IsFiniteSet(S) /\ Cardinality(S) \in Nat /\ Cardinality(T) \in Nat
         /\ Cardinality(S) <= Cardinality(T)
<1>1. IsFiniteSet(S) /\ Cardinality(S) <= Cardinality(T)
  BY FS_Subset
<1> QED BY <1>1, FS_CardinalityType

LEMMA Gains ==
  ASSUME NEW S, NEW T, IsFiniteSet(T), NEW x, S \subseteq T \cup {x}
  PROVE  /\ IsFiniteSet(S) /\ Cardinality(S) \in Nat /\ Cardinality(T) \in Nat
         /\ Cardinality(S) <= Cardinality(T) + 1
<1>1. /\ IsFiniteSet(T \cup {x}) /\ Cardinality(T) \in Nat
      /\ Cardinality(T \cup {x}) = Cardinality(T) \/ Cardinality(T \cup {x}) = Cardinality(T) + 1
  BY FS_AddElement, FS_CardinalityType
<1>2. /\ IsFiniteSet(S) /\ Cardinality(S) \in Nat
      /\ Cardinality(S) <= Cardinality(T \cup {x})
  BY <1>1, Shrinks
<1> QED BY <1>1, <1>2

LEMMA Loses ==
  ASSUME NEW S, NEW T, IsFiniteSet(T), NEW x \in T, S \subseteq T \ {x}
  PROVE  /\ IsFiniteSet(S) /\ Cardinality(S) \in Nat /\ Cardinality(T) \in Nat
         /\ Cardinality(S) + 1 <= Cardinality(T)
<1>1. /\ IsFiniteSet(T \ {x}) /\ Cardinality(T) \in Nat
      /\ Cardinality(T \ {x}) = Cardinality(T) - 1
  BY FS_RemoveElement, FS_CardinalityType
<1>2. /\ IsFiniteSet(S) /\ Cardinality(S) \in Nat
      /\ Cardinality(S) <= Cardinality(T \ {x})
  BY <1>1, Shrinks
<1> QED BY <1>1, <1>2

LEMMA Swaps ==
  ASSUME NEW S, NEW T, IsFiniteSet(T), NEW x \in T, NEW y, S \subseteq (T \ {x}) \cup {y}
  PROVE  Cardinality(S) <= Cardinality(T)
<1>1. /\ IsFiniteSet(T \ {x}) /\ Cardinality(T \ {x}) \in Nat /\ Cardinality(T) \in Nat
      /\ Cardinality(T \ {x}) + 1 <= Cardinality(T)
  BY Loses
<1>2. Cardinality(S) \in Nat /\ Cardinality(S) <= Cardinality(T \ {x}) + 1
  BY <1>1, Gains
<1> QED BY <1>1, <1>2

-------------------------------------------------------------------------------
\* What keeps each part of the invariant

\* Each phone's requests are robbed no more than before.
LEMMA RobbedTyped ==
  ASSUME NEW p
  PROVE  /\ IsFiniteSet(Robbed(p)) /\ Cardinality(Robbed(p)) \in Nat
         /\ IsFiniteSet(Robbed(p)') /\ Cardinality(Robbed(p)') \in Nat
<1>1. Robbed(p) \subseteq Request /\ Robbed(p)' \subseteq Request
  BY DEF Robbed, WorkingOn
<1> QED BY <1>1, Constants, Shrinks

LEMMA RobbedNoMore ==
  ASSUME IInv, UNCHANGED lateDeletes, NEW p \in Phone, Robbed(p)' \subseteq Robbed(p)
  PROVE  Cardinality(Robbed(p)') <= lateDeletes'[p]
<1>1. Cardinality(Robbed(p)) <= lateDeletes[p] /\ lateDeletes[p] \in Nat
  BY DEF IInv, PhonesAreHeld, TypeOK
<1>2. Cardinality(Robbed(p)') <= Cardinality(Robbed(p))
  BY RobbedTyped, Shrinks
<1> QED BY <1>1, <1>2, RobbedTyped

\* While the cooldowns stay, so does what a request that goes on has of its own.
LEMMA HoldsOn ==
  ASSUME IInv, NEW r \in Request, GoesOn(r), RequestWorks(r)' => RequestWorks(r),
         NEW q \in Request, RequestWorks(q)',
         cooldown'[request[q].phone] = cooldown[request[q].phone]
  PROVE  /\ RequestWorks(q) /\ request'[q].phone = request[q].phone
         /\ request'[q].phone \in Phone /\ request'[q].ip \in IP /\ Outlives(q)'
<1>1. RequestWorks(q) /\ request'[q].phone = request[q].phone /\ request'[q].ip = request[q].ip
  BY DEF GoesOn, OneRequest, RequestWorks
<1>2. request[q].phone \in Phone /\ request[q].ip \in IP /\ Outlives(q)
  BY <1>1 DEF IInv, PhonesAreHeld
<1>3. request'[q].left <= request[q].left /\ request'[q].left \in Nat /\ request[q].left \in Nat
  <2>1. request[q].left \in Nat /\ request'[q] \in RequestCall
    BY RequestTyped DEF IInv, GoesOn, OneRequest
  <2>2. request'[q].left \in Nat
    BY <2>1, Constants DEF RequestCall
  <2> QED BY <2>1, <2>2 DEF GoesOn, OneRequest
<1>4. cooldown[request[q].phone].left \in Nat
  BY <1>2, CooldownTyped DEF IInv
<1>5. Outlives(q)'
  BY <1>1, <1>2, <1>3, <1>4, Constants DEF Outlives
<1> QED BY <1>1, <1>2, <1>5

LEMMA PhonesKept ==
  ASSUME IInv, NEW r \in Request, GoesOn(r), RequestWorks(r)' => RequestWorks(r),
         UNCHANGED <<cooldown, lateDeletes>>
  PROVE  PhonesAreHeld'
<1>1. \A q \in Request : RequestWorks(q)' =>
        /\ RequestWorks(q) /\ request'[q].phone = request[q].phone
        /\ request'[q].phone \in Phone /\ request'[q].ip \in IP /\ Outlives(q)'
  BY HoldsOn
<1>2. \A p \in Phone : Robbed(p)' \subseteq Robbed(p)
  BY <1>1 DEF Robbed, WorkingOn
<1>3. \A p \in Phone : Cardinality(Robbed(p)') <= lateDeletes'[p]
  BY <1>2, RobbedNoMore
<1> QED BY <1>1, <1>3 DEF PhonesAreHeld

\* Codes that are stored stay with their phone.
StoredStay ==
  \A q \in Request : request[q].phase \notin Unstored =>
    request'[q].phase \notin Unstored /\ request'[q].phone = request[q].phone

LEMMA GoesOnStored ==
  ASSUME NEW r \in Request, GoesOn(r), request[r].phase \notin Unstored => request'[r].phase \notin Unstored
  PROVE  StoredStay
  BY DEF GoesOn, OneRequest, StoredStay

LEMMA StillStored ==
  ASSUME StoredStay, NEW c, NEW p, Stored(c, p)
  PROVE  Stored(c, p)'
  BY DEF StoredStay, Stored

LEMMA SentKept ==
  ASSUME IInv, StoredStay, UNCHANGED sent
  PROVE  sent' \subseteq RedisCommand /\ SentAreWell'
<1>1. sent' \subseteq RedisCommand
  BY DEF IInv, TypeOK
<1>2. ASSUME NEW c \in sent PROVE SentWell(c)'
  BY <1>2, StillStored DEF IInv, SentAreWell, SentWell
<1> QED BY <1>1, <1>2 DEF SentAreWell

\* A command that is sent now
LEMMA SentMore ==
  ASSUME IInv, StoredStay, NEW r \in Request, NEW k \in Key,
         NEW what \in {"set cooldown", "count", "store code", "delete cooldown"}, Sends(r, what, k),
         what # "count" => k \in Phone, what = "store code" => Stored(r, k)'
  PROVE  sent' \subseteq RedisCommand /\ SentAreWell'
<1> DEFINE new == [what |-> what, key |-> k, by |-> r]
<1>1. new \in RedisCommand /\ new.what = what /\ new.key = k /\ new.by = r
  BY DEF RedisCommand
<1>2. sent' = sent \cup {new}
  BY DEF Sends
<1> HIDE DEF new
<1>3. sent' \subseteq RedisCommand
  BY <1>1, <1>2 DEF IInv, TypeOK
<1>4. ASSUME NEW c \in sent PROVE SentWell(c)'
  BY <1>4, StillStored DEF IInv, SentAreWell, SentWell
<1>5. SentWell(new)'
  BY <1>1 DEF SentWell
<1> QED BY <1>2, <1>3, <1>4, <1>5 DEF SentAreWell

LEMMA EarlierTyped ==
  ASSUME TypeOK, NEW r \in Request
  PROVE  Earlier(r) \in Nat /\ tries[r] \in Nat
<1>1. lateStores[r] \in Nat /\ tries[r] \in Nat
  BY DEF TypeOK
<1> QED BY <1>1, Constants DEF Earlier

LEMMA ChallengesKept ==
  ASSUME IInv, StoredStay, UNCHANGED <<tries, lateStores>>,
         \A p \in Phone : challenge'[p] # NoCode =>
           /\ challenge[p] # NoCode /\ challenge'[p].code = challenge[p].code
           /\ challenge'[p].attempts = challenge[p].attempts
  PROVE  ChallengesCount'
<1>1. \A r \in Request : Earlier(r)' = Earlier(r)
  BY DEF Earlier
<1>2. ASSUME NEW p \in Phone, challenge'[p] # NoCode
      PROVE  /\ Stored(challenge[p].code, p)'
             /\ (tries[challenge[p].code] <= Earlier(challenge[p].code) + challenge[p].attempts)'
  <2>1. /\ Stored(challenge[p].code, p)
        /\ tries[challenge[p].code] <= Earlier(challenge[p].code) + challenge[p].attempts
    BY <1>2 DEF IInv, ChallengesCount
  <2>2. StoredStay /\ challenge[p].code \in Request
    BY <2>1 DEF Stored
  <2>3. challenge'[p].code = challenge[p].code /\ challenge'[p].attempts = challenge[p].attempts
    BY <1>2
  <2>4. Stored(challenge[p].code, p)'
    BY <2>1, <2>2, <2>3 DEF StoredStay, Stored
  <2>5. Earlier(challenge[p].code)' = Earlier(challenge[p].code)
    BY <2>3 DEF Earlier
  <2> QED BY <2>1, <2>3, <2>4, <2>5
<1>3. \A r \in Request : (/\ tries[r] <= Earlier(r) + MaxAttempts
                          /\ request[r].phase \in Unstored => tries[r] = 0)'
  BY <1>1 DEF IInv, ChallengesCount, StoredStay
<1> QED BY <1>2, <1>3 DEF ChallengesCount

\* Accounts and consents stay.
AccountsStay ==
  /\ \A p \in Phone : account[p] # "none" => account'[p] # "none"
  /\ consented \subseteq consented'

LEMMA SpentKept ==
  ASSUME IInv, StoredStay, AccountsStay, UNCHANGED <<verify, sessions>>
  PROVE  CodesAreSpent'
<1>1. ASSUME NEW v \in Verify, VerifyWorks(v)' PROVE SpentByVerify(v)'
  <2>1. SpentByVerify(v) /\ verify'[v] = verify[v]
    BY <1>1 DEF IInv, CodesAreSpent, VerifyWorks
  <2>2. Stored(verify[v].code, verify[v].phone)'
    BY <2>1 DEF SpentByVerify, StoredStay, Stored
  <2> QED BY <2>1, <2>2 DEF SpentByVerify, AccountsStay
<1>2. ASSUME NEW s \in sessions PROVE SpentBySession(s)'
  <2>1. SpentBySession(s)
    BY DEF IInv, CodesAreSpent
  <2>2. Stored(s.code, s.phone)'
    BY <2>1, StillStored DEF SpentBySession
  <2> QED BY <2>1, <2>2 DEF SpentBySession, AccountsStay
<1> QED BY <1>1, <1>2 DEF CodesAreSpent

\* What is counted of a code
LEMMA UsesTyped ==
  ASSUME IInv, NEW r \in Request
  PROVE  /\ IsFiniteSet(SessionsOf(r)) /\ Cardinality(SessionsOf(r)) \in Nat
         /\ IsFiniteSet(Proving(r)) /\ Cardinality(Proving(r)) \in Nat
         /\ Usable(r) \in {0, 1} /\ Usable(r)' \in {0, 1} /\ lateStores[r] \in Nat
         /\ Cardinality(SessionsOf(r)) + Cardinality(Proving(r)) + Usable(r) <= 1 + lateStores[r]
<1>1. SessionsOf(r) \subseteq sessions /\ IsFiniteSet(sessions)
  BY DEF SessionsOf, IInv, CodesAreCounted
<1>2. Proving(r) \subseteq Verify /\ IsFiniteSet(Verify)
  BY Constants DEF Proving
<1>3. Usable(r) \in {0, 1} /\ Usable(r)' \in {0, 1} /\ lateStores[r] \in Nat
  BY DEF Usable, IInv, TypeOK
<1>4. Cardinality(SessionsOf(r)) + Cardinality(Proving(r)) + Usable(r) <= 1 + lateStores[r]
  BY DEF IInv, CodesAreCounted
<1> QED BY <1>1, <1>2, <1>3, <1>4, Shrinks

LEMMA UsesKept ==
  ASSUME IInv, NEW r \in Request, SessionsOf(r)' \subseteq SessionsOf(r),
         Proving(r)' \subseteq Proving(r),
         \/ Usable(r)' <= Usable(r) /\ lateStores'[r] = lateStores[r]
         \/ lateStores'[r] = lateStores[r] + 1
  PROVE  (Cardinality(SessionsOf(r)) + Cardinality(Proving(r)) + Usable(r) <= 1 + lateStores[r])'
<1>1. Cardinality(SessionsOf(r)') \in Nat /\ Cardinality(SessionsOf(r)') <= Cardinality(SessionsOf(r))
  BY UsesTyped, Shrinks
<1>2. Cardinality(Proving(r)') \in Nat /\ Cardinality(Proving(r)') <= Cardinality(Proving(r))
  BY UsesTyped, Shrinks
<1> QED BY <1>1, <1>2, UsesTyped

\* A challenge keeps its code or loses it.
LEMMA UsableNoMore ==
  ASSUME NEW r \in Request, \A p \in Phone : challenge'[p].code \in {challenge[p].code, Nobody}
  PROVE  Usable(r)' <= Usable(r)
  BY Constants DEF Usable

LEMMA CountedKept ==
  ASSUME IInv, UNCHANGED <<sessions, lateStores>>,
         \A v \in Verify : VerifyWorks(v)' => VerifyWorks(v) /\ verify'[v].code = verify[v].code,
         \A p \in Phone : challenge'[p].code \in {challenge[p].code, Nobody}
  PROVE  CodesAreCounted'
<1>1. ASSUME NEW r \in Request
      PROVE  (Cardinality(SessionsOf(r)) + Cardinality(Proving(r)) + Usable(r) <= 1 + lateStores[r])'
  <2>1. SessionsOf(r)' \subseteq SessionsOf(r) /\ Proving(r)' \subseteq Proving(r)
    BY DEF SessionsOf, Proving
  <2>2. Usable(r)' <= Usable(r)
    BY UsableNoMore
  <2> QED BY <2>1, <2>2, UsesKept
<1>2. IsFiniteSet(sessions)'
  BY DEF IInv, CodesAreCounted
<1> QED BY <1>1, <1>2 DEF CodesAreCounted

\* What the codes and the logins see of a step that stores no code: nothing
LEMMA CodesKept ==
  ASSUME IInv, StoredStay, UNCHANGED <<challenge, tries, lateStores, postgres, verify>>
  PROVE  ChallengesCount' /\ CodesAreSpent' /\ CodesAreCounted'
<1>1. UNCHANGED <<account, client, consented, sessions>>
  BY DEF postgres
<1>2. ChallengesCount'
  BY ChallengesKept
<1>3. CodesAreSpent'
  BY <1>1, SpentKept DEF AccountsStay
<1>4. CodesAreCounted'
  BY <1>1, CountedKept DEF VerifyWorks
<1> QED BY <1>2, <1>3, <1>4

\* Requests are still counted only if they were, and for the same phone and address.
CountedStay ==
  \A q \in Request :
    /\ PhoneCounted(q)' => PhoneCounted(q) /\ request'[q].phone = request[q].phone
    /\ request'[q].phase \in {"store", "send"} =>
         request[q].phase \in {"store", "send"} /\ request'[q].ip = request[q].ip

LEMMA BudgetTyped ==
  ASSUME TypeOK, NEW k \in Key
  PROVE  /\ Limit(k) \in Nat /\ texts[k] \in Nat /\ windows[k] \in Nat
         /\ Credit(k) \in Nat /\ Limit(k) * windows[k] \in Nat
<1>1. Limit(k) \in Nat
  BY Constants DEF Limit
<1>2. counter[k].n \in Nat /\ texts[k] \in Nat /\ windows[k] \in Nat
  BY CounterTyped
<1> QED BY <1>1, <1>2 DEF Credit

\* The requests a counter still has to serve, a finite number
LEMMA OwedFinite ==
  ASSUME NEW k
  PROVE  /\ IsFiniteSet(Owed(k)) /\ Cardinality(Owed(k)) \in Nat
         /\ IsFiniteSet(Owed(k)') /\ Cardinality(Owed(k)') \in Nat
<1>1. Owed(k) \subseteq Request /\ Owed(k)' \subseteq Request
  BY DEF Owed
<1> QED BY <1>1, Constants, Shrinks

LEMMA OwedNoMore ==
  ASSUME CountedStay, NEW k
  PROVE  Owed(k)' \subseteq Owed(k)
<1>1. \A q \in Request : Owes(q, k)' => Owes(q, k)
  BY DEF CountedStay, Owes
<1> QED BY <1>1 DEF Owed

LEMMA BudgetKept ==
  ASSUME IInv, NEW k \in Key, Owed(k)' \subseteq Owed(k),
         texts'[k] = texts[k], windows'[k] = windows[k],
         Credit(k)' \in Nat, Credit(k)' <= Credit(k)
  PROVE  Budget(k)'
<1>1. Cardinality(Owed(k)') \in Nat /\ Cardinality(Owed(k)) \in Nat
      /\ Cardinality(Owed(k)') <= Cardinality(Owed(k))
  BY OwedFinite, Shrinks
<1>2. texts[k] + Cardinality(Owed(k)) + Credit(k) <= Limit(k) * windows[k]
  BY DEF IInv, TextsAreCounted, Budget
<1>3. Limit(k)' = Limit(k)
  BY DEF Limit
<1>4. texts[k] \in Nat /\ Credit(k) \in Nat /\ Limit(k) * windows[k] \in Nat
  BY BudgetTyped DEF IInv
<1>5. texts[k] + Cardinality(Owed(k)') + Credit(k)' <= Limit(k) * windows[k]
  BY <1>1, <1>2, <1>4
<1> QED BY <1>3, <1>5 DEF Budget

LEMMA TextsKept ==
  ASSUME IInv, CountedStay, UNCHANGED <<counter, texts, windows>>
  PROVE  TextsAreCounted'
<1>1. ASSUME NEW k \in Key PROVE Budget(k)'
  <2>1. Credit(k)' = Credit(k) /\ Credit(k) \in Nat
    BY BudgetTyped DEF Credit, IInv, Limit
  <2>2. Credit(k)' \in Nat /\ Credit(k)' <= Credit(k)
    BY <2>1
  <2> QED BY <2>2, OwedNoMore, BudgetKept
<1> QED BY <1>1 DEF TextsAreCounted

\* A step that moves no request
LEMMA NoRequestMoves ==
  ASSUME UNCHANGED request
  PROVE  StoredStay /\ CountedStay
  BY DEF StoredStay, CountedStay, PhoneCounted

\* A request that works has a phone of Phone and an address of IP, both keys.
LEMMA WorkingFacts ==
  ASSUME IInv, NEW r \in Request, RequestWorks(r)
  PROVE  /\ request[r].phone \in Phone /\ request[r].ip \in IP
         /\ request[r].phone \in Key /\ request[r].ip \in Key
  BY DEF IInv, PhonesAreHeld, Key

-------------------------------------------------------------------------------
LEMMA InitIInv == Init => IInv
<1> SUFFICES ASSUME Init PROVE IInv
  OBVIOUS
<1>1. \A r \in Request : request[r].phase = "idle"
  BY DEF Init
<1>2. TypeOK
  <2>1. /\ cooldown \in [Phone -> CooldownKey] /\ challenge \in [Phone -> ChallengeKey]
        /\ counter \in [Key -> CounterKey]
    <3>1. /\ [left |-> 0, by |-> Nobody] \in CooldownKey
          /\ [n |-> 0, left |-> 0] \in CounterKey
      BY Constants DEF CooldownKey, CounterKey
    <3> QED BY <3>1, NoRows DEF Init
  <2>2. request \in [Request -> RequestCall] /\ verify \in [Verify -> VerifyCall]
    <3>1. [phase |-> "idle", phone |-> Nobody, ip |-> Nobody, counted |-> 0, left |-> 0] \in RequestCall
      BY Constants DEF RequestCall, RequestPhase
    <3> QED BY <3>1, NoRows DEF Init
  <2>3. /\ account \in [Phone -> {"none", "active", "blocked"}]
        /\ client \in [Phone -> {"none", "unlinked", "linked"}]
        /\ consented \subseteq Phone
        /\ sessions \subseteq [by: Verify, phone: Phone, code: Request, consent: BOOLEAN]
    BY DEF Init
  <2>4. /\ tries \in [Request -> Nat] /\ texts \in [Key -> Nat]
        /\ windows \in [Key -> 0..MaxWindows] /\ faults \in 0..MaxFaults
        /\ sent \subseteq RedisCommand
        /\ lateDeletes \in [Phone -> Nat] /\ lateStores \in [Request -> Nat]
    BY Constants DEF Init
  <2> QED BY <2>1, <2>2, <2>3, <2>4 DEF TypeOK
<1>3. PhonesAreHeld
  <2>1. \A p \in Phone : Robbed(p) = {} /\ lateDeletes[p] = 0
    BY <1>1 DEF Robbed, WorkingOn, RequestWorks, Init
  <2>2. \A p \in Phone : Cardinality(Robbed(p)) = 0
    BY <2>1, FS_EmptySet
  <2> QED BY <1>1, <2>1, <2>2 DEF PhonesAreHeld, RequestWorks
<1>4. SentAreWell
  BY DEF Init, SentAreWell
<1>5. ChallengesCount
  <2>1. \A r \in Request : tries[r] = 0 /\ Earlier(r) \in Nat
    BY <1>2, EarlierTyped DEF Init
  <2>2. \A r \in Request : tries[r] <= Earlier(r) + MaxAttempts
    BY <2>1, Constants
  <2> QED BY <2>1, <2>2 DEF Init, ChallengesCount
<1>6. CodesAreSpent
  BY NoRows DEF Init, CodesAreSpent, VerifyWorks
<1>7. CodesAreCounted
  <2>1. sessions = {} /\ IsFiniteSet(sessions)
    BY FS_EmptySet DEF Init
  <2>2. ASSUME NEW r \in Request
        PROVE  Cardinality(SessionsOf(r)) + Cardinality(Proving(r)) + Usable(r) <= 1 + lateStores[r]
    <3>1. SessionsOf(r) = {} /\ Proving(r) = {} /\ Usable(r) \in {0, 1} /\ lateStores[r] = 0
      BY <2>1, NoRows DEF Init, SessionsOf, Proving, VerifyWorks, Usable
    <3>2. Cardinality(SessionsOf(r)) = 0 /\ Cardinality(Proving(r)) = 0
      BY <3>1, FS_EmptySet
    <3> QED BY <3>1, <3>2
  <2> QED BY <2>1, <2>2 DEF CodesAreCounted
<1>8. TextsAreCounted
  <2>1. ASSUME NEW k \in Key PROVE Budget(k)
    <3>1. Owed(k) = {} /\ texts[k] = 0 /\ windows[k] = 0 /\ Credit(k) = 0
      BY <1>1 DEF Owed, Owes, PhoneCounted, Init, Credit
    <3>2. Cardinality(Owed(k)) = 0 /\ Limit(k) \in Nat
      BY <1>2, <3>1, FS_EmptySet, BudgetTyped
    <3> QED BY <3>1, <3>2 DEF Budget
  <2> QED BY <2>1 DEF TextsAreCounted
<1> QED BY <1>2, <1>3, <1>4, <1>5, <1>6, <1>7, <1>8 DEF IInv

-------------------------------------------------------------------------------
\* The steps of a request

LEMMA PhasesKept ==
  ASSUME NEW r \in Request, GoesOn(r), request'[r].phase \in {"send", "release", "sent", "refused"},
         request'[r].phase = "send" => request[r].phase = "store"
  PROVE  StoredStay /\ CountedStay
<1>1. StoredStay
  BY PhasesFacts, GoesOnStored
<1>2. CountedStay
  BY DEF GoesOn, OneRequest, CountedStay, PhoneCounted
<1> QED BY <1>1, <1>2

\* A request that is refused or ends, or goes to release
LEMMA EndsFacts ==
  ASSUME TypeOK, NEW r \in Request, NEW phase \in {"release", "refused"}, Goes(r, phase)
  PROVE  GoesOn(r) /\ request'[r].phase = phase /\ StoredStay /\ CountedStay
<1>1. GoesOn(r) /\ request'[r].phase = phase
  BY GoesFacts DEF RequestPhase
<1> QED BY <1>1, PhasesKept

\* The same, without any effect but the command it may have sent
LEMMA EndsIInv ==
  ASSUME IInv, NEW r \in Request, NEW phase \in {"release", "refused"}, Goes(r, phase),
         phase = "release" => RequestWorks(r), sent' \subseteq RedisCommand, SentAreWell',
         UNCHANGED <<redis, postgres, verify, seen, late>>, Fault \/ UNCHANGED faults
  PROVE  IInv'
<1>1. /\ TypeOK
      /\ UNCHANGED <<cooldown, challenge, counter, tries, texts, windows, lateDeletes, lateStores>>
  BY DEF IInv, redis, seen, late
<1>2. GoesOn(r) /\ request'[r].phase = phase /\ StoredStay /\ CountedStay
  BY <1>1, EndsFacts
<1>3. RequestWorks(r)' => RequestWorks(r)
  BY <1>2 DEF RequestWorks
<1>4. TypeOK'
  <2>1. faults' \in 0..MaxFaults
    BY <1>1, FaultTyped
  <2> QED BY <1>1, <1>2, <2>1 DEF TypeOK, GoesOn, OneRequest, postgres
<1>5. PhonesAreHeld'
  BY <1>1, <1>2, <1>3, PhonesKept
<1>6. ChallengesCount' /\ CodesAreSpent' /\ CodesAreCounted'
  BY <1>1, <1>2, CodesKept
<1>7. TextsAreCounted'
  BY <1>1, <1>2, TextsKept
<1> QED BY <1>4, <1>5, <1>6, <1>7 DEF IInv

LEMMA CooldownActiveIInv ==
  ASSUME IInv, NEW r \in Request, NEW p \in Phone, CooldownActive(r, p)
  PROVE  IInv'
<1>1. /\ TypeOK /\ p \in Key /\ Goes(r, "refused") /\ Sends(r, "set cooldown", p)
      /\ UNCHANGED <<redis, postgres, verify, seen, late, faults>>
  BY Constants DEF CooldownActive, IInv
<1>2. sent' \subseteq RedisCommand /\ SentAreWell'
  BY <1>1, EndsFacts, SentMore
<1> QED BY <1>1, <1>2, EndsIInv

LEMMA GiveUpRequestIInv ==
  ASSUME IInv, NEW r \in Request, GiveUpRequest(r)
  PROVE  IInv'
<1>1. /\ TypeOK /\ Goes(r, "refused") /\ UNCHANGED <<redis, postgres, verify, seen, sent, late>>
      /\ Fault \/ UNCHANGED faults
  BY DEF GiveUpRequest, IInv
<1>2. sent' \subseteq RedisCommand /\ SentAreWell'
  BY <1>1, EndsFacts, SentKept
<1> QED BY <1>1, <1>2, EndsIInv

\* Where the cooldown is free every request at work has lost its own.
LEMMA FreePhone ==
  ASSUME IInv, NEW p \in Phone, cooldown[p].left = 0
  PROVE  Robbed(p) = WorkingOn(p)
<1>1. ASSUME NEW q \in Request, RequestWorks(q), request[q].phone = p, cooldown[p].by = q
      PROVE  FALSE
  <2>1. cooldown[p].left + RequestTimeout >= request[q].left + ResendCooldown
    BY <1>1 DEF IInv, PhonesAreHeld, Outlives
  <2>2. request[q].left \in Nat
    BY RequestTyped DEF IInv
  <2> QED BY <2>1, <2>2, Constants
<1> QED BY <1>1 DEF Robbed, WorkingOn

\* A cooldown that is set where none is leaves no more requests without theirs.
LEMMA SetCooldownHolds ==
  ASSUME IInv, NEW r \in Request, NEW p \in Phone, cooldown[p].left = 0, SetCooldown(r, p),
         UNCHANGED lateDeletes, OneRequest(r),
         \A q \in Request \ {r} : RequestWorks(q)' => RequestWorks(q),
         RequestWorks(r)' =>
           /\ request'[r].phone \in Phone /\ request'[r].ip \in IP
           /\ request'[r].phone = p \/ (RequestWorks(r) /\ request'[r] = request[r])
  PROVE  cooldown' \in [Phone -> CooldownKey] /\ PhonesAreHeld'
<1> DEFINE key == [left |-> ResendCooldown, by |-> r]
<1>1. key \in CooldownKey /\ key.left = ResendCooldown /\ key.by = r
  BY Constants DEF CooldownKey
<1>2. TypeOK /\ cooldown' = [cooldown EXCEPT ![p] = key]
  BY DEF SetCooldown, IInv
<1> HIDE DEF key
<1>3. /\ cooldown' \in [Phone -> CooldownKey] /\ cooldown'[p] = key
      /\ \A x \in Phone \ {p} : cooldown'[x] = cooldown[x]
  BY <1>1, <1>2 DEF TypeOK
<1>4. ASSUME NEW q \in Request, RequestWorks(q)'
      PROVE  request'[q].phone \in Phone /\ request'[q].ip \in IP /\ Outlives(q)'
  <2>1. CASE request'[q] = request[q] /\ RequestWorks(q) /\ request[q].phone # p
    BY <1>3, <2>1 DEF IInv, PhonesAreHeld, Outlives
  <2>2. CASE request'[q] = request[q] /\ RequestWorks(q) /\ request[q].phone = p
    <3>1. request[q].left \in Nat /\ request[q].left <= RequestTimeout /\ request[q].ip \in IP
      BY <1>2, <2>2, RequestTyped, WorkingFacts
    <3> QED BY <1>1, <1>3, <2>2, <3>1, Constants DEF Outlives
  <2>3. CASE q = r /\ request'[q].phone = p
    <3>1. request'[q].left \in Nat /\ request'[q].left <= RequestTimeout
      <4>1. request'[q] \in RequestCall
        BY DEF OneRequest
      <4> QED BY <4>1, Constants DEF RequestCall
    <3> QED BY <1>1, <1>3, <1>4, <2>3, <3>1, Constants DEF Outlives
  <2> QED BY <1>4, <2>1, <2>2, <2>3 DEF OneRequest
<1>5. ASSUME NEW x \in Phone PROVE Robbed(x)' \subseteq Robbed(x)
  <2> SUFFICES ASSUME NEW q \in Request, RequestWorks(q)', request'[q].phone = x, cooldown'[x].by # q
               PROVE  RequestWorks(q) /\ request[q].phone = x /\ cooldown[x].by # q
    BY DEF Robbed, WorkingOn
  <2>1. request'[q] = request[q] /\ RequestWorks(q)
    <3>1. CASE q = r
      BY <1>1, <1>3, <3>1
    <3>2. CASE q # r
      BY <3>2 DEF OneRequest
    <3> QED BY <3>1, <3>2
  <2>2. CASE x = p
    BY <2>1, <2>2, FreePhone DEF Robbed, WorkingOn
  <2>3. CASE x # p
    BY <1>3, <2>1, <2>3
  <2> QED BY <2>2, <2>3
<1>6. \A x \in Phone : Cardinality(Robbed(x)') <= lateDeletes'[x]
  BY <1>5, RobbedNoMore
<1> QED BY <1>3, <1>4, <1>6 DEF PhonesAreHeld

LEMMA AcquireCooldownIInv ==
  ASSUME IInv, NEW r \in Request, NEW p \in Phone, NEW i \in IP, AcquireCooldown(r, p, i)
  PROVE  IInv'
<1> DEFINE new == [phase |-> "phone", phone |-> p, ip |-> i, counted |-> 0, left |-> RequestTimeout]
<1>1. /\ request[r].phase = "idle" /\ cooldown[p].left = 0 /\ TypeOK /\ p \in Key
      /\ SetCooldown(r, p) /\ Sends(r, "set cooldown", p)
      /\ UNCHANGED <<challenge, counter, postgres, verify, tries, texts, windows,
                     lateDeletes, lateStores>>
      /\ (Fault \/ UNCHANGED faults)
      /\ request' = [request EXCEPT ![r] = new] \/ Goes(r, "refused")
  BY Constants DEF AcquireCooldown, IInv, seen, late
<1>2. /\ new \in RequestCall /\ new.phase = "phone" /\ new.phone = p /\ new.ip = i
      /\ new.left = RequestTimeout
  BY Constants DEF RequestCall, RequestPhase
<1> HIDE DEF new
<1>3. /\ OneRequest(r)
      /\ request'[r] = new \/ request'[r].phase = "refused"
  <2>1. CASE request' = [request EXCEPT ![r] = new]
    BY <1>1, <1>2, <2>1 DEF TypeOK, OneRequest
  <2>2. CASE Goes(r, "refused")
    BY <1>1, <2>2, EndsFacts DEF GoesOn
  <2> QED BY <1>1, <2>1, <2>2
<1>4. StoredStay /\ CountedStay
  BY <1>1, <1>2, <1>3, PhasesFacts DEF StoredStay, CountedStay, PhoneCounted, OneRequest
<1>5. cooldown' \in [Phone -> CooldownKey] /\ PhonesAreHeld'
  <2>1. \A q \in Request \ {r} : RequestWorks(q)' => RequestWorks(q)
    BY <1>3 DEF OneRequest, RequestWorks
  <2>2. RequestWorks(r)' => /\ request'[r].phone \in Phone /\ request'[r].ip \in IP
                            /\ request'[r].phone = p
    BY <1>2, <1>3 DEF RequestWorks
  <2> QED BY <1>1, <1>3, <2>1, <2>2, SetCooldownHolds
<1>6. sent' \subseteq RedisCommand /\ SentAreWell'
  BY <1>1, <1>4, SentMore
<1>7. TypeOK'
  <2>1. faults' \in 0..MaxFaults
    BY <1>1, FaultTyped
  <2> QED BY <1>1, <1>3, <1>5, <1>6, <2>1 DEF TypeOK, OneRequest, postgres
<1>8. ChallengesCount' /\ CodesAreSpent' /\ CodesAreCounted'
  BY <1>1, <1>4, CodesKept
<1>9. TextsAreCounted'
  BY <1>1, <1>4, TextsKept
<1> QED BY <1>5, <1>6, <1>7, <1>8, <1>9 DEF IInv

\* A deletion leaves one more request without its cooldown, at most, and none more
\* when who deletes it has lost its own or ends with it.
LEMMA DeleteHolds ==
  ASSUME IInv, NEW p \in Phone, DeleteCooldown(p)
  PROVE  /\ cooldown' \in [Phone -> CooldownKey]
         /\ cooldown'[p].by = Nobody
         /\ \A x \in Phone \ {p} : cooldown'[x] = cooldown[x]
         /\ WorkingOn(p) \subseteq Robbed(p) \cup {cooldown[p].by}
<1> DEFINE key == [left |-> 0, by |-> Nobody]
<1>1. key \in CooldownKey /\ key.by = Nobody
  BY Constants DEF CooldownKey
<1>2. cooldown' = [cooldown EXCEPT ![p] = key] /\ TypeOK
  BY DEF DeleteCooldown, IInv
<1> HIDE DEF key
<1>3. /\ cooldown' \in [Phone -> CooldownKey] /\ cooldown'[p] = key
      /\ \A x \in Phone \ {p} : cooldown'[x] = cooldown[x]
  BY <1>1, <1>2 DEF TypeOK
<1>4. WorkingOn(p) \subseteq Robbed(p) \cup {cooldown[p].by}
  BY DEF Robbed
<1> QED BY <1>1, <1>3, <1>4

LEMMA ReleaseHolds ==
  ASSUME IInv, NEW r \in Request, RequestWorks(r), NEW p, p = request[r].phone,
         DeleteCooldown(p), UNCHANGED lateDeletes, GoesOn(r), ~RequestWorks(r)'
  PROVE  cooldown' \in [Phone -> CooldownKey] /\ PhonesAreHeld'
<1>1. p \in Phone
  BY WorkingFacts
<1>2. /\ cooldown' \in [Phone -> CooldownKey]
      /\ cooldown'[p].by = Nobody
      /\ \A x \in Phone \ {p} : cooldown'[x] = cooldown[x]
      /\ WorkingOn(p) \subseteq Robbed(p) \cup {cooldown[p].by}
  BY <1>1, DeleteHolds
<1>3. \A q \in Request : RequestWorks(q)' => q # r /\ request'[q] = request[q] /\ RequestWorks(q)
  BY DEF GoesOn, OneRequest, RequestWorks
<1>4. ASSUME NEW q \in Request, RequestWorks(q)'
      PROVE  request'[q].phone \in Phone /\ request'[q].ip \in IP /\ Outlives(q)'
  <2>1. /\ request'[q] = request[q] /\ RequestWorks(q)
        /\ request[q].phone \in Phone /\ request[q].ip \in IP /\ Outlives(q)
    BY <1>3, <1>4 DEF IInv, PhonesAreHeld
  <2>2. CASE request[q].phone = p
    BY <1>2, <2>1, <2>2, Constants DEF Outlives
  <2>3. CASE request[q].phone # p
    BY <1>2, <2>1, <2>3 DEF Outlives
  <2> QED BY <2>1, <2>2, <2>3
<1>5. \A x \in Phone : WorkingOn(x)' \subseteq WorkingOn(x) \ {r}
  BY <1>3 DEF WorkingOn
<1>6. Robbed(p)' \subseteq WorkingOn(p) \ {r}
  BY <1>1, <1>5 DEF Robbed
<1>7. Cardinality(Robbed(p)') <= Cardinality(Robbed(p))
  <2>1. r \in WorkingOn(p)
    BY DEF WorkingOn
  <2>2. CASE cooldown[p].by = r
    <3>1. Robbed(p)' \subseteq Robbed(p)
      BY <1>2, <1>6, <2>2
    <3> QED BY <3>1, RobbedTyped, Shrinks
  <2>3. CASE cooldown[p].by # r
    <3>1. r \in Robbed(p) /\ Robbed(p)' \subseteq (Robbed(p) \ {r}) \cup {cooldown[p].by}
      BY <1>2, <1>6, <2>1, <2>3 DEF Robbed
    <3> QED BY <3>1, RobbedTyped, Swaps
  <2> QED BY <2>2, <2>3
<1>8. ASSUME NEW x \in Phone PROVE Cardinality(Robbed(x)') <= lateDeletes'[x]
  <2>1. CASE x = p
    <3>1. Cardinality(Robbed(p)) <= lateDeletes[p] /\ lateDeletes[p] \in Nat
      BY <1>1 DEF IInv, PhonesAreHeld, TypeOK
    <3> QED BY <1>7, <2>1, <3>1, RobbedTyped
  <2>2. CASE x # p
    <3>1. Robbed(x)' \subseteq Robbed(x)
      BY <1>2, <1>5, <2>2 DEF Robbed
    <3> QED BY <3>1, RobbedNoMore
  <2> QED BY <2>1, <2>2
<1> QED BY <1>2, <1>4, <1>8 DEF PhonesAreHeld

\* The release finds its own request's key, or deletes one in place of the key that its
\* request has lost.
LEMMA ReleaseCooldownIInv ==
  ASSUME IInv, NEW r \in Request, ReleaseCooldown(r)
  PROVE  IInv'
<1>1. PICK p : p = request[r].phone
  OBVIOUS
<1>2. /\ request[r].phase = "release" /\ TypeOK /\ Goes(r, "refused") /\ RequestWorks(r)
      /\ Sends(r, "delete cooldown", p)
      /\ UNCHANGED <<challenge, counter, postgres, verify, tries, texts, windows, late>>
      /\ (Fault \/ UNCHANGED faults)
      /\ DeleteCooldown(p) \/ UNCHANGED cooldown
  BY <1>1 DEF ReleaseCooldown, IInv, seen, RequestWorks
<1>3. GoesOn(r) /\ request'[r].phase = "refused" /\ StoredStay /\ CountedStay
  BY <1>2, EndsFacts
<1>4. UNCHANGED <<lateDeletes, lateStores>> /\ ~RequestWorks(r)' /\ p \in Phone /\ p \in Key
  BY <1>1, <1>2, <1>3, WorkingFacts DEF late, RequestWorks
<1>5. cooldown' \in [Phone -> CooldownKey] /\ PhonesAreHeld'
  <2>1. CASE DeleteCooldown(p)
    BY <1>1, <1>2, <1>3, <1>4, <2>1, ReleaseHolds
  <2>2. CASE UNCHANGED cooldown
    BY <1>2, <1>3, <1>4, <2>2, PhonesKept DEF TypeOK
  <2> QED BY <1>2, <2>1, <2>2
<1>6. sent' \subseteq RedisCommand /\ SentAreWell'
  BY <1>2, <1>3, <1>4, SentMore
<1>7. TypeOK'
  <2>1. faults' \in 0..MaxFaults
    BY <1>2, FaultTyped
  <2> QED BY <1>2, <1>3, <1>4, <1>5, <1>6, <2>1 DEF TypeOK, GoesOn, OneRequest, postgres
<1>8. ChallengesCount' /\ CodesAreSpent' /\ CodesAreCounted'
  BY <1>2, <1>3, <1>4, CodesKept
<1>9. TextsAreCounted'
  BY <1>2, <1>3, TextsKept
<1> QED BY <1>5, <1>6, <1>7, <1>8, <1>9 DEF IInv

\* A code that is put where it belongs, a first time or again
LEMMA PutCodeFacts ==
  ASSUME TypeOK, NEW c \in Request, NEW p \in Phone, PutCode(c, p)
  PROVE  /\ challenge' \in [Phone -> ChallengeKey]
         /\ challenge'[p].code = c /\ challenge'[p].attempts = 0
         /\ \A x \in Phone \ {p} : challenge'[x] = challenge[x]
         /\ \A d \in Request \ {c} : Usable(d)' <= Usable(d)
<1> DEFINE fresh == [code |-> c, attempts |-> 0, left |-> CodeTTL]
<1>1. fresh \in ChallengeKey /\ fresh.code = c /\ fresh.attempts = 0
  BY Constants DEF ChallengeKey
<1>2. challenge' = [challenge EXCEPT ![p] = fresh]
  BY DEF PutCode
<1> HIDE DEF fresh
<1>3. /\ challenge' \in [Phone -> ChallengeKey] /\ challenge'[p] = fresh
      /\ \A x \in Phone \ {p} : challenge'[x] = challenge[x]
  BY <1>1, <1>2 DEF TypeOK
<1>4. \A d \in Request \ {c} : Usable(d)' <= Usable(d)
  BY <1>1, <1>3 DEF Usable
<1> QED BY <1>1, <1>3, <1>4

LEMMA PutCodeCounts ==
  ASSUME IInv, NEW c \in Request, NEW p \in Phone, PutCode(c, p), StoredStay, Stored(c, p)',
         UNCHANGED tries, \A r \in Request : Earlier(r)' \in Nat /\ Earlier(r)' >= Earlier(r),
         tries[c] <= Earlier(c)'
  PROVE  ChallengesCount'
<1>1. /\ challenge'[p].code = c /\ challenge'[p].attempts = 0
      /\ \A x \in Phone \ {p} : challenge'[x] = challenge[x]
  BY PutCodeFacts DEF IInv
<1>2. \A r \in Request : Earlier(r) \in Nat /\ tries[r] \in Nat
  BY EarlierTyped DEF IInv
<1>3. ASSUME NEW x \in Phone, challenge'[x] # NoCode
      PROVE  /\ Stored(challenge[x].code, x)'
             /\ (tries[challenge[x].code] <= Earlier(challenge[x].code) + challenge[x].attempts)'
  <2>1. CASE x = p
    <3>1. Stored(challenge[x].code, x)'
      BY <1>1, <2>1 DEF Stored
    <3>2. Earlier(challenge[x].code)' = Earlier(c)' /\ tries'[challenge'[x].code] = tries[c]
      BY <1>1, <2>1 DEF Earlier
    <3> QED BY <1>1, <2>1, <3>1, <3>2
  <2>2. CASE x # p
    <3>1. challenge'[x] = challenge[x] /\ challenge[x] # NoCode
      BY <1>1, <1>3, <2>2
    <3>2. /\ Stored(challenge[x].code, x) /\ challenge[x].code \in Request
          /\ tries[challenge[x].code] <= Earlier(challenge[x].code) + challenge[x].attempts
      BY <3>1 DEF IInv, ChallengesCount, Stored
    <3>3. PICK d \in Request : d = challenge[x].code
      BY <3>2
    <3>4. Earlier(challenge[x].code)' = Earlier(d)' /\ Earlier(challenge[x].code) = Earlier(d)
      BY <3>1, <3>3 DEF Earlier
    <3>5. Stored(challenge[x].code, x)'
      BY <3>1, <3>2 DEF StoredStay, Stored
    <3>6. challenge[x].attempts \in Nat
      BY ChallengeTyped DEF IInv
    <3>7. tries[d] <= Earlier(d)' + challenge[x].attempts
      BY <1>2, <3>2, <3>3, <3>4, <3>6
    <3> QED BY <3>1, <3>3, <3>4, <3>5, <3>7
  <2> QED BY <2>1, <2>2
<1>4. ASSUME NEW r \in Request
      PROVE (/\ tries[r] <= Earlier(r) + MaxAttempts
             /\ request[r].phase \in Unstored => tries[r] = 0)'
  <2>1. tries[r] <= Earlier(r) + MaxAttempts /\ (request[r].phase \in Unstored => tries[r] = 0)
    BY DEF IInv, ChallengesCount
  <2>2. tries[r] <= Earlier(r)' + MaxAttempts
    BY <1>2, <2>1, Constants
  <2> QED BY <2>1, <2>2 DEF StoredStay
<1> QED BY <1>3, <1>4 DEF ChallengesCount

\* A code that is stored was never compared with a guess, and nobody has it.
LEMMA StoreCodeIInv ==
  ASSUME IInv, NEW r \in Request, StoreCode(r)
  PROVE  IInv'
<1>1. PICK p : p = request[r].phone
  OBVIOUS
<1>2. /\ request[r].phase = "store" /\ TypeOK /\ RequestWorks(r)
      /\ Sends(r, "store code", p)
      /\ UNCHANGED <<cooldown, counter, postgres, verify, tries, texts, windows,
                     lateDeletes, lateStores>>
      /\ (Fault \/ UNCHANGED faults)
      /\ UNCHANGED challenge \/ PutCode(r, p)
      /\ Goes(r, "send") \/ Goes(r, "refused")
  BY <1>1 DEF StoreCode, IInv, seen, late, RequestWorks
<1>3. p \in Phone /\ p \in Key
  BY <1>1, <1>2, WorkingFacts
<1>4. GoesOn(r) /\ request'[r].phase \in {"send", "refused"}
  BY <1>2, GoesFacts, PhasesFacts
<1>5. StoredStay /\ CountedStay
  BY <1>2, <1>4, PhasesKept
<1>6. Stored(r, p)'
  BY <1>1, <1>4, PhasesFacts DEF Stored, GoesOn
<1>7. PhonesAreHeld'
  BY <1>2, <1>4, PhonesKept
<1>8. sent' \subseteq RedisCommand /\ SentAreWell'
  BY <1>2, <1>3, <1>5, <1>6, SentMore
<1>9. challenge' \in [Phone -> ChallengeKey]
  BY <1>2, <1>3, PutCodeFacts DEF TypeOK
<1>10. TypeOK'
  <2>1. faults' \in 0..MaxFaults
    BY <1>2, FaultTyped
  <2> QED BY <1>2, <1>4, <1>8, <1>9, <2>1 DEF TypeOK, GoesOn, OneRequest, postgres
<1>11. ChallengesCount' /\ CodesAreCounted'
  <2>1. CASE UNCHANGED challenge
    BY <1>2, <1>5, <2>1, CodesKept
  <2>2. CASE PutCode(r, p)
    <3>1. \A q \in Request : Earlier(q)' = Earlier(q) /\ Earlier(q) \in Nat
      BY <1>2, EarlierTyped DEF Earlier
    <3>2. tries[r] = 0
      BY <1>2, PhasesFacts DEF IInv, ChallengesCount
    <3>3. \A q \in Request : Earlier(q)' \in Nat /\ Earlier(q)' >= Earlier(q)
      BY <3>1
    <3>4. tries[r] <= Earlier(r)'
      BY <3>2, <3>3
    <3>5. ChallengesCount'
      BY <1>2, <1>3, <1>5, <1>6, <2>2, <3>3, <3>4, PutCodeCounts
    <3>6. UNCHANGED <<sessions, verify>>
      BY <1>2 DEF postgres
    <3>7. ASSUME NEW d \in Request
          PROVE  (Cardinality(SessionsOf(d)) + Cardinality(Proving(d)) + Usable(d) <= 1 + lateStores[d])'
      <4>1. SessionsOf(d)' = SessionsOf(d) /\ Proving(d)' = Proving(d)
        BY <3>6 DEF SessionsOf, Proving, VerifyWorks
      <4>2. CASE d = r
        <5>1. SessionsOf(r) = {} /\ Proving(r) = {}
          <6>1. \A x : ~Stored(r, x)
            BY <1>2, PhasesFacts DEF Stored
          <6>2. \A s \in sessions : s.code # r
            BY <6>1 DEF IInv, CodesAreSpent, SpentBySession
          <6>3. \A v \in Verify : VerifyWorks(v) => verify[v].code # r
            BY <6>1 DEF IInv, CodesAreSpent, SpentByVerify
          <6> QED BY <6>2, <6>3 DEF SessionsOf, Proving
        <5>2. Cardinality(SessionsOf(d)') = 0 /\ Cardinality(Proving(d)') = 0
          BY <4>1, <4>2, <5>1, FS_EmptySet
        <5>3. Usable(d)' \in {0, 1} /\ lateStores'[d] = lateStores[d] /\ lateStores[d] \in Nat
          BY <1>2, UsesTyped
        <5> QED BY <5>2, <5>3
      <4>3. CASE d # r
        <5>1. Usable(d)' <= Usable(d)
          BY <1>2, <1>3, <2>2, <4>3, PutCodeFacts
        <5> QED BY <1>2, <4>1, <5>1, UsesKept
      <4> QED BY <4>2, <4>3
    <3>8. IsFiniteSet(sessions)'
      BY <3>6 DEF IInv, CodesAreCounted
    <3> QED BY <3>5, <3>7, <3>8 DEF CodesAreCounted
  <2> QED BY <1>2, <2>1, <2>2
<1>12. CodesAreSpent'
  BY <1>2, <1>5, SpentKept DEF AccountsStay, postgres
<1>13. TextsAreCounted'
  BY <1>2, <1>5, TextsKept
<1> QED BY <1>7, <1>8, <1>10, <1>11, <1>12, <1>13 DEF IInv

-------------------------------------------------------------------------------
\* Counting and sending

\* An increment within the maximum pays for one more text; any other one leaves the
\* window's budget as it was.
LEMMA IncrementPays ==
  ASSUME TypeOK, NEW k \in Key, Increment(k), NEW used \in Nat,
         used + Credit(k) <= Limit(k) * windows[k]
  PROVE  /\ used + Credit(k)' <= Limit(k) * windows'[k]
         /\ counter'[k].n <= Limit(k) => used + 1 + Credit(k)' <= Limit(k) * windows'[k]
<1> DEFINE max == Limit(k)
<1>1. counter[k].n \in Nat /\ counter[k].left \in Nat /\ windows[k] \in Nat /\ counter[k] \in CounterKey
  BY CounterTyped
<1>2. max \in Nat /\ Limit(k)' = Limit(k)
  BY BudgetTyped DEF Limit
<1>3. /\ Credit(k) = IF counter[k].left > 0 /\ counter[k].n <= max THEN max - counter[k].n ELSE 0
      /\ Credit(k)' = IF counter'[k].left > 0 /\ counter'[k].n <= max THEN max - counter'[k].n ELSE 0
      /\ used + Credit(k) <= max * windows[k]
  BY <1>2 DEF Credit
<1> HIDE DEF max
<1>4. CASE counter[k].left = 0
  <2>1. counter'[k].n = 1 /\ counter'[k].left = RateLimitWindow /\ windows'[k] = windows[k] + 1
    BY <1>4 DEF Increment, TypeOK
  <2>2. max * windows'[k] = max * windows[k] + max
    BY <1>1, <1>2, <2>1
  <2>3. max * windows[k] \in Nat
    BY <1>1, <1>2
  <2>4. Credit(k) = 0 /\ Credit(k)' = IF 1 <= max THEN max - 1 ELSE 0
    BY <1>3, <1>4, <2>1, Constants
  <2> QED BY <1>2, <1>3, <2>1, <2>2, <2>3, <2>4 DEF max
<1>5. CASE counter[k].left # 0
  <2>1. /\ counter'[k].n = counter[k].n + 1 /\ counter'[k].left = counter[k].left
        /\ windows'[k] = windows[k]
    <3>1. counter'[k] = [counter[k] EXCEPT !.n = counter[k].n + 1] /\ windows'[k] = windows[k]
      BY <1>5 DEF Increment, TypeOK
    <3> QED BY <1>1, <3>1 DEF CounterKey
  <2>2. counter[k].left > 0
    BY <1>1, <1>5
  <2>3. max * windows[k] \in Nat
    BY <1>1, <1>2
  <2>4. /\ used + Credit(k)' <= max * windows[k]
        /\ counter'[k].n <= max => used + 1 + Credit(k)' <= max * windows[k]
    BY <1>1, <1>2, <1>3, <2>1, <2>2, <2>3
  <2> QED BY <2>1, <2>4 DEF max
<1> QED BY <1>4, <1>5

LEMMA IncrementTyped ==
  ASSUME TypeOK, NEW k \in Key, Increment(k)
  PROVE  /\ counter' \in [Key -> CounterKey] /\ windows' \in [Key -> 0..MaxWindows]
         /\ \A j \in Key \ {k} : windows'[j] = windows[j] /\ Credit(j)' = Credit(j)
         /\ counter'[k].n \in Nat
<1> DEFINE first == counter[k].left = 0
           new == IF first THEN [n |-> 1, left |-> RateLimitWindow]
                  ELSE [counter[k] EXCEPT !.n = counter[k].n + 1]
<1>1. counter[k] \in CounterKey
  BY CounterTyped
<1>2. new \in CounterKey
  BY <1>1, Constants DEF CounterKey
<1>3. counter' = [counter EXCEPT ![k] = new]
  BY DEF Increment
<1> HIDE DEF new
<1>4. counter' \in [Key -> CounterKey] /\ \A j \in Key \ {k} : counter'[j] = counter[j]
  BY <1>2, <1>3 DEF TypeOK
<1>5. windows' \in [Key -> 0..MaxWindows] /\ \A j \in Key \ {k} : windows'[j] = windows[j]
  BY Constants DEF Increment, TypeOK
<1>6. counter'[k].n \in Nat
  BY <1>4 DEF CounterKey
<1> QED BY <1>4, <1>5, <1>6 DEF Credit, Limit

\* All the budgets after an increment, when only request r may be owed one text more,
\* by the counter that was within its limit
LEMMA IncrementKeeps ==
  ASSUME IInv, NEW k \in Key, Increment(k), UNCHANGED texts, NEW r \in Request,
         \A j \in Key \ {k} : Owed(j)' \subseteq Owed(j),
         \/ Owed(k)' \subseteq Owed(k)
         \/ Owed(k)' \subseteq Owed(k) \cup {r} /\ counter'[k].n <= Limit(k)
  PROVE  TextsAreCounted'
<1>1. ASSUME NEW j \in Key \ {k} PROVE Budget(j)'
  <2>1. windows'[j] = windows[j] /\ Credit(j)' = Credit(j) /\ Credit(j) \in Nat
    BY IncrementTyped, BudgetTyped DEF IInv
  <2>2. Credit(j)' \in Nat /\ Credit(j)' <= Credit(j)
    BY <2>1
  <2> QED BY <2>1, <2>2, BudgetKept
<1>2. Budget(k)'
  <2> DEFINE used == texts[k] + Cardinality(Owed(k))
  <2>1. texts[k] \in Nat /\ Cardinality(Owed(k)) \in Nat /\ Cardinality(Owed(k)') \in Nat /\ used \in Nat
    BY BudgetTyped, OwedFinite DEF IInv
  <2>2. used + Credit(k) <= Limit(k) * windows[k] /\ TypeOK
    BY DEF IInv, TextsAreCounted, Budget
  <2> HIDE DEF used
  <2>3. /\ used + Credit(k)' <= Limit(k) * windows'[k]
        /\ counter'[k].n <= Limit(k) => used + 1 + Credit(k)' <= Limit(k) * windows'[k]
    BY <2>1, <2>2, IncrementPays
  <2>4. \/ Cardinality(Owed(k)') <= Cardinality(Owed(k))
        \/ Cardinality(Owed(k)') <= Cardinality(Owed(k)) + 1 /\ counter'[k].n <= Limit(k)
    <3>1. Owed(k)' \subseteq Owed(k) => Cardinality(Owed(k)') <= Cardinality(Owed(k))
      BY OwedFinite, Shrinks
    <3>2. Owed(k)' \subseteq Owed(k) \cup {r} => Cardinality(Owed(k)') <= Cardinality(Owed(k)) + 1
      BY OwedFinite, Gains
    <3> QED BY <3>1, <3>2
  <2>5. Credit(k)' \in Nat /\ Limit(k) * windows'[k] \in Nat /\ Limit(k)' = Limit(k)
    <3>1. counter' \in [Key -> CounterKey] /\ windows' \in [Key -> 0..MaxWindows] /\ counter'[k].n \in Nat
      BY <2>2, IncrementTyped
    <3>2. windows'[k] \in Nat /\ Limit(k) \in Nat /\ Limit(k)' = Limit(k)
      BY <2>2, <3>1, BudgetTyped, Constants DEF Limit
    <3> QED BY <3>1, <3>2 DEF Credit
  <2>6. texts[k] + Cardinality(Owed(k)') + Credit(k)' <= Limit(k) * windows'[k]
    BY <2>1, <2>3, <2>4, <2>5 DEF used
  <2> QED BY <2>5, <2>6 DEF Budget
<1> QED BY <1>1, <1>2 DEF TextsAreCounted

LEMMA CountPhoneIInv ==
  ASSUME IInv, NEW r \in Request, CountPhone(r)
  PROVE  IInv'
<1>1. PICK p : p = request[r].phone
  OBVIOUS
<1>2. /\ request[r].phase = "phone" /\ TypeOK /\ RequestWorks(r) /\ Sends(r, "count", p)
      /\ UNCHANGED <<cooldown, challenge, postgres, verify, tries, texts, late>>
      /\ (Fault \/ UNCHANGED faults)
  BY <1>1 DEF CountPhone, IInv, RequestWorks
<1>3. p \in Phone /\ p \in Key
  BY <1>1, <1>2, WorkingFacts
<1>4. CASE Goes(r, "release") /\ UNCHANGED <<counter, windows>>
  <2>1. sent' \subseteq RedisCommand /\ SentAreWell'
    BY <1>2, <1>3, <1>4, EndsFacts, SentMore
  <2> QED BY <1>2, <1>4, <2>1, EndsIInv DEF redis, seen
<1>5. CASE Increment(p) /\ request' = [request EXCEPT ![r].phase = "ip", ![r].counted = counter'[p].n]
  <2>1. /\ counter' \in [Key -> CounterKey] /\ windows' \in [Key -> 0..MaxWindows]
        /\ counter'[p].n \in Nat
    BY <1>2, <1>3, <1>5, IncrementTyped
  <2>2. /\ GoesOn(r) /\ request'[r].phase = "ip" /\ request'[r].counted = counter'[p].n
    <3> DEFINE new == [request[r] EXCEPT !.phase = "ip", !.counted = counter'[p].n]
    <3>1. request[r] \in RequestCall /\ request[r].left \in Nat
      BY <1>2, RequestTyped
    <3>2. /\ new \in RequestCall /\ new.phase = "ip" /\ new.counted = counter'[p].n
          /\ new.phone = request[r].phone /\ new.ip = request[r].ip /\ new.left = request[r].left
      BY <2>1, <3>1 DEF RequestCall, RequestPhase
    <3>3. request' = [request EXCEPT ![r] = new]
      BY <1>2, <1>5 DEF TypeOK
    <3> HIDE DEF new
    <3>4. /\ request' \in [Request -> RequestCall] /\ request'[r] = new
          /\ \A q \in Request \ {r} : request'[q] = request[q]
      BY <1>2, <3>2, <3>3 DEF TypeOK
    <3> QED BY <3>1, <3>2, <3>4 DEF GoesOn, OneRequest
  <2>3. StoredStay /\ UNCHANGED <<lateDeletes, lateStores>>
    BY <1>2, <2>2, PhasesFacts, GoesOnStored DEF late
  <2>4. PhonesAreHeld'
    BY <1>2, <2>2, <2>3, PhonesKept
  <2>5. sent' \subseteq RedisCommand /\ SentAreWell'
    BY <1>2, <1>3, <2>3, SentMore
  <2>6. TypeOK'
    <3>1. faults' \in 0..MaxFaults
      BY <1>2, FaultTyped
    <3> QED BY <1>2, <2>1, <2>2, <2>3, <2>5, <3>1 DEF TypeOK, GoesOn, OneRequest, postgres
  <2>7. ChallengesCount' /\ CodesAreSpent' /\ CodesAreCounted'
    BY <1>2, <2>3, CodesKept
  <2>8. TextsAreCounted'
    <3>1. \A q \in Request \ {r} : \A k : Owes(q, k)' => Owes(q, k)
      BY <2>2 DEF GoesOn, OneRequest, Owes, PhoneCounted
    <3>2. \A k : Owes(r, k)' => k = p /\ counter'[p].n <= MaxRequestsPerPhone
      BY <1>1, <2>2 DEF GoesOn, Owes, PhoneCounted
    <3>3. \A j \in Key \ {p} : Owed(j)' \subseteq Owed(j)
      BY <3>1, <3>2 DEF Owed
    <3>4. \/ Owed(p)' \subseteq Owed(p)
          \/ Owed(p)' \subseteq Owed(p) \cup {r} /\ counter'[p].n <= Limit(p)
      BY <1>3, <3>1, <3>2 DEF Owed, Limit
    <3> QED BY <1>2, <1>3, <1>5, <3>3, <3>4, IncrementKeeps
  <2> QED BY <2>4, <2>5, <2>6, <2>7, <2>8 DEF IInv
<1> QED BY <1>1, <1>4, <1>5 DEF CountPhone

\* A request that passes the address's limit is one more to be texted, which the
\* increment has paid for.
LEMMA CountIPIInv ==
  ASSUME IInv, NEW r \in Request, CountIP(r)
  PROVE  IInv'
<1>1. PICK i : i = request[r].ip
  OBVIOUS
<1> DEFINE next == IF WithinLimits(request[r].counted, counter'[i].n) THEN "store" ELSE "release"
<1>2. /\ request[r].phase = "ip" /\ TypeOK /\ RequestWorks(r) /\ Sends(r, "count", i)
      /\ UNCHANGED <<cooldown, challenge, postgres, verify, tries, texts, late>>
      /\ (Fault \/ UNCHANGED faults)
  BY <1>1 DEF CountIP, IInv, RequestWorks
<1>3. i \in IP /\ i \in Key /\ i \notin Phone
  BY <1>1, <1>2, WorkingFacts, Constants
<1>4. CASE Goes(r, "release") /\ UNCHANGED <<counter, windows>>
  <2>1. sent' \subseteq RedisCommand /\ SentAreWell'
    BY <1>2, <1>3, <1>4, EndsFacts, SentMore
  <2> QED BY <1>2, <1>4, <2>1, EndsIInv DEF redis, seen
<1>5. CASE Increment(i) /\ Goes(r, next)
  <2>1. /\ counter' \in [Key -> CounterKey] /\ windows' \in [Key -> 0..MaxWindows]
        /\ counter'[i].n \in Nat
    BY <1>2, <1>3, <1>5, IncrementTyped
  <2>2. next \in RequestPhase /\ next \in {"store", "release"}
    BY DEF RequestPhase
  <2>3. next = "store" => request[r].counted <= MaxRequestsPerPhone /\ counter'[i].n <= MaxRequestsPerIP
    BY DEF WithinLimits
  <2> HIDE DEF next
  <2>4. GoesOn(r) /\ request'[r].phase = next
    BY <1>2, <1>5, <2>2, GoesFacts
  <2>5. StoredStay /\ UNCHANGED <<lateDeletes, lateStores>>
    BY <1>2, <2>4, PhasesFacts, GoesOnStored DEF late
  <2>6. PhonesAreHeld'
    BY <1>2, <2>4, <2>5, PhonesKept
  <2>7. sent' \subseteq RedisCommand /\ SentAreWell'
    BY <1>2, <1>3, <2>5, SentMore
  <2>8. TypeOK'
    <3>1. faults' \in 0..MaxFaults
      BY <1>2, FaultTyped
    <3> QED BY <1>2, <2>1, <2>4, <2>5, <2>7, <3>1 DEF TypeOK, GoesOn, OneRequest, postgres
  <2>9. ChallengesCount' /\ CodesAreSpent' /\ CodesAreCounted'
    BY <1>2, <2>5, CodesKept
  <2>10. TextsAreCounted'
    <3>1. \A q \in Request \ {r} : \A k : Owes(q, k)' => Owes(q, k)
      BY <2>4 DEF GoesOn, OneRequest, Owes, PhoneCounted
    <3>2. \A k : Owes(r, k)' => Owes(r, k) \/ (k = i /\ next = "store")
      BY <1>1, <1>2, <2>2, <2>3, <2>4 DEF GoesOn, Owes, PhoneCounted
    <3>3. \A j \in Key \ {i} : Owed(j)' \subseteq Owed(j)
      BY <3>1, <3>2 DEF Owed
    <3>4. \/ Owed(i)' \subseteq Owed(i)
          \/ Owed(i)' \subseteq Owed(i) \cup {r} /\ counter'[i].n <= Limit(i)
      BY <1>3, <2>3, <3>1, <3>2 DEF Owed, Limit
    <3> QED BY <1>2, <1>3, <1>5, <3>3, <3>4, IncrementKeeps
  <2> QED BY <2>6, <2>7, <2>8, <2>9, <2>10 DEF IInv
<1> QED BY <1>1, <1>4, <1>5 DEF CountIP

\* A text is one of those the counters have paid for: its request no longer counts.
LEMMA SendTextIInv ==
  ASSUME IInv, NEW r \in Request, SendText(r)
  PROVE  IInv'
<1>1. PICK p, i : p = request[r].phone /\ i = request[r].ip
  OBVIOUS
<1>2. /\ request[r].phase = "send" /\ TypeOK /\ RequestWorks(r)
      /\ UNCHANGED <<cooldown, challenge, counter, postgres, verify, tries, windows, sent,
                     lateDeletes, lateStores>>
      /\ (Fault \/ UNCHANGED faults)
      /\ texts' = [k \in Key |-> IF k \in {p, i} THEN texts[k] + 1 ELSE texts[k]]
      /\ Goes(r, "sent") \/ Goes(r, "release")
  BY <1>1 DEF SendText, IInv, redis, late, RequestWorks
<1>3. GoesOn(r) /\ request'[r].phase \in {"sent", "release"}
  BY <1>2, GoesFacts, PhasesFacts
<1>4. StoredStay /\ CountedStay
  BY <1>2, <1>3, PhasesKept
<1>5. PhonesAreHeld'
  BY <1>2, <1>3, PhonesKept
<1>6. sent' \subseteq RedisCommand /\ SentAreWell'
  BY <1>2, <1>4, SentKept
<1>7. TypeOK'
  <2>1. faults' \in 0..MaxFaults
    BY <1>2, FaultTyped
  <2>2. texts' \in [Key -> Nat]
    BY <1>2 DEF TypeOK
  <2> QED BY <1>2, <1>3, <1>6, <2>1, <2>2 DEF TypeOK, GoesOn, OneRequest, postgres
<1>8. ChallengesCount' /\ CodesAreSpent' /\ CodesAreCounted'
  BY <1>2, <1>4, CodesKept
<1>9. ASSUME NEW k \in Key PROVE Budget(k)'
  <2>1. /\ Credit(k)' = Credit(k) /\ Limit(k)' = Limit(k) /\ windows'[k] = windows[k]
        /\ texts[k] \in Nat /\ Credit(k) \in Nat /\ Limit(k) * windows[k] \in Nat
    BY <1>2, BudgetTyped DEF Credit, Limit
  <2>2. CASE k \in {p, i}
    <3>1. r \in Owed(k)
      BY <1>1, <1>2, <2>2 DEF Owed, Owes, PhoneCounted
    <3>2. ~Owes(r, k)'
      BY <1>3 DEF Owes, PhoneCounted
    <3>3. Owed(k)' \subseteq Owed(k) \ {r}
      BY <1>4, <3>2, OwedNoMore DEF Owed
    <3>4. /\ Cardinality(Owed(k)') \in Nat /\ Cardinality(Owed(k)) \in Nat
          /\ Cardinality(Owed(k)') + 1 <= Cardinality(Owed(k))
      BY <3>1, <3>3, OwedFinite, Loses
    <3>5. texts'[k] = texts[k] + 1
      BY <1>2, <2>2
    <3>6. texts[k] + Cardinality(Owed(k)) + Credit(k) <= Limit(k) * windows[k]
      BY DEF IInv, TextsAreCounted, Budget
    <3>7. texts'[k] + Cardinality(Owed(k)') + Credit(k) <= Limit(k) * windows[k]
      BY <2>1, <3>4, <3>5, <3>6
    <3> QED BY <2>1, <3>7 DEF Budget
  <2>3. CASE k \notin {p, i}
    <3>1. texts'[k] = texts[k] /\ Credit(k)' \in Nat /\ Credit(k)' <= Credit(k)
      BY <1>2, <2>1, <2>3
    <3> QED BY <1>4, <2>1, <3>1, OwedNoMore, BudgetKept
  <2> QED BY <2>2, <2>3
<1> QED BY <1>5, <1>6, <1>7, <1>8, <1>9 DEF IInv, TextsAreCounted

-------------------------------------------------------------------------------
\* Commands that run again

\* A step that moves no request and no cooldown
LEMMA PhonesStay ==
  ASSUME IInv, UNCHANGED <<request, cooldown, lateDeletes>>
  PROVE  PhonesAreHeld'
  BY DEF IInv, PhonesAreHeld, RequestWorks, Outlives, Robbed, WorkingOn

\* A cooldown set again holds the phone for whoever works on it.
LEMMA SetsAgainIInv ==
  ASSUME IInv, NEW p \in Phone, NEW r \in Request, cooldown[p].left = 0,
         SetCooldown(r, p), Fault,
         UNCHANGED <<challenge, counter, windows, late, postgres, request, verify, tries, texts, sent>>
  PROVE  IInv'
<1>1. TypeOK /\ UNCHANGED <<lateDeletes, lateStores>> /\ StoredStay /\ CountedStay
  BY NoRequestMoves DEF IInv, late
<1>2. cooldown' \in [Phone -> CooldownKey] /\ PhonesAreHeld'
  <2>1. OneRequest(r) /\ \A q \in Request : RequestWorks(q)' = RequestWorks(q)
    BY <1>1 DEF TypeOK, OneRequest, RequestWorks
  <2>2. RequestWorks(r) => request[r].phone \in Phone /\ request[r].ip \in IP
    BY WorkingFacts
  <2> QED BY <1>1, <2>1, <2>2, SetCooldownHolds
<1>3. sent' \subseteq RedisCommand /\ SentAreWell'
  BY <1>1, SentKept
<1>4. TypeOK'
  <2>1. faults' \in 0..MaxFaults
    BY <1>1, FaultTyped
  <2> QED BY <1>1, <1>2, <1>3, <2>1 DEF TypeOK, postgres
<1>5. ChallengesCount' /\ CodesAreSpent' /\ CodesAreCounted'
  BY <1>1, CodesKept
<1>6. TextsAreCounted'
  BY <1>1, TextsKept
<1> QED BY <1>2, <1>3, <1>4, <1>5, <1>6 DEF IInv

LEMMA CountsAgainIInv ==
  ASSUME IInv, NEW k \in Key, NEW r \in Request, Increment(k), Fault,
         UNCHANGED <<cooldown, challenge, late, postgres, request, verify, tries, texts, sent>>
  PROVE  IInv'
<1>1. TypeOK /\ UNCHANGED <<lateDeletes, lateStores>> /\ StoredStay /\ CountedStay
  BY NoRequestMoves DEF IInv, late
<1>2. PhonesAreHeld'
  BY <1>1, PhonesStay
<1>3. sent' \subseteq RedisCommand /\ SentAreWell'
  BY <1>1, SentKept
<1>4. TypeOK'
  <2>1. faults' \in 0..MaxFaults
    BY <1>1, FaultTyped
  <2>2. counter' \in [Key -> CounterKey] /\ windows' \in [Key -> 0..MaxWindows]
    BY <1>1, IncrementTyped
  <2> QED BY <1>1, <2>1, <2>2 DEF TypeOK, postgres
<1>5. ChallengesCount' /\ CodesAreSpent' /\ CodesAreCounted'
  BY <1>1, CodesKept
<1>6. TextsAreCounted'
  <2>1. \A j \in Key : Owed(j)' \subseteq Owed(j)
    BY <1>1, OwedNoMore
  <2> QED BY <2>1, IncrementKeeps
<1> QED BY <1>2, <1>3, <1>4, <1>5, <1>6 DEF IInv

\* A code stored again may be guessed and used as often as one that is stored anew.
LEMMA StoresAgainIInv ==
  ASSUME IInv, NEW p \in Phone, NEW r \in Request, Stored(r, p), PutCode(r, p), Fault,
         lateStores' = [lateStores EXCEPT ![r] = @ + 1],
         UNCHANGED <<cooldown, counter, windows, lateDeletes, postgres, request, verify,
                     tries, texts, sent>>
  PROVE  IInv'
<1>1. TypeOK /\ StoredStay /\ CountedStay /\ UNCHANGED <<account, consented, sessions>>
  BY NoRequestMoves DEF IInv, postgres
<1>2. PhonesAreHeld'
  BY <1>1, PhonesStay
<1>3. sent' \subseteq RedisCommand /\ SentAreWell'
  BY <1>1, SentKept
<1>4. /\ lateStores' \in [Request -> Nat] /\ lateStores'[r] = lateStores[r] + 1
      /\ \A q \in Request \ {r} : lateStores'[q] = lateStores[q]
  BY <1>1 DEF TypeOK
<1>5. TypeOK'
  <2>1. faults' \in 0..MaxFaults
    BY <1>1, FaultTyped
  <2>2. challenge' \in [Phone -> ChallengeKey]
    BY <1>1, PutCodeFacts
  <2> QED BY <1>1, <1>4, <2>1, <2>2 DEF TypeOK, postgres
<1>6. ChallengesCount'
  <2>1. \A q \in Request : Earlier(q)' \in Nat /\ Earlier(q)' >= Earlier(q)
    <3> SUFFICES ASSUME NEW q \in Request PROVE Earlier(q)' \in Nat /\ Earlier(q)' >= Earlier(q)
      OBVIOUS
    <3>1. PICK n \in Nat, m \in Nat : n = lateStores[q] /\ m = lateStores'[q]
      BY <1>1, <1>4 DEF TypeOK
    <3>2. m = n \/ m = n + 1
      BY <1>4, <3>1
    <3>3. MaxAttempts * m \in Nat /\ MaxAttempts * n \in Nat /\ MaxAttempts * (n + 1) = MaxAttempts * n + MaxAttempts
      BY <3>1, Constants
    <3> QED BY <3>1, <3>2, <3>3, Constants DEF Earlier
  <2>2. tries[r] <= Earlier(r)'
    <3>1. tries[r] <= Earlier(r) + MaxAttempts
      BY DEF IInv, ChallengesCount
    <3>2. lateStores[r] \in Nat
      BY <1>1 DEF TypeOK
    <3>3. Earlier(r)' = Earlier(r) + MaxAttempts
      BY <1>4, <3>2, Constants DEF Earlier
    <3> QED BY <3>1, <3>3
  <2>3. Stored(r, p)'
    BY <1>1, StillStored
  <2> QED BY <1>1, <2>1, <2>2, <2>3, PutCodeCounts
<1>7. CodesAreSpent'
  BY <1>1, SpentKept DEF AccountsStay
<1>8. CodesAreCounted'
  <2>1. ASSUME NEW d \in Request
        PROVE  (Cardinality(SessionsOf(d)) + Cardinality(Proving(d)) + Usable(d) <= 1 + lateStores[d])'
    <3>1. SessionsOf(d)' \subseteq SessionsOf(d) /\ Proving(d)' \subseteq Proving(d)
      BY <1>1 DEF SessionsOf, Proving, VerifyWorks
    <3>2. \/ Usable(d)' <= Usable(d) /\ lateStores'[d] = lateStores[d]
          \/ lateStores'[d] = lateStores[d] + 1
      BY <1>1, <1>4, PutCodeFacts
    <3> QED BY <3>1, <3>2, UsesKept
  <2>2. IsFiniteSet(sessions)'
    BY <1>1 DEF IInv, CodesAreCounted
  <2> QED BY <2>1, <2>2 DEF CodesAreCounted
<1>9. TextsAreCounted'
  BY <1>1, TextsKept
<1> QED BY <1>2, <1>3, <1>5, <1>6, <1>7, <1>8, <1>9 DEF IInv

\* A release that runs again takes whatever cooldown it finds.
LEMMA DeletesAgainIInv ==
  ASSUME IInv, NEW p \in Phone, DeleteCooldown(p), Fault,
         lateDeletes' = [lateDeletes EXCEPT ![p] = @ + 1],
         UNCHANGED <<challenge, counter, windows, lateStores, postgres, request, verify,
                     tries, texts, sent>>
  PROVE  IInv'
<1>1. TypeOK /\ StoredStay /\ CountedStay
  BY NoRequestMoves DEF IInv
<1>2. /\ lateDeletes' \in [Phone -> Nat] /\ lateDeletes'[p] = lateDeletes[p] + 1
      /\ \A x \in Phone \ {p} : lateDeletes'[x] = lateDeletes[x]
  BY <1>1 DEF TypeOK
<1>3. /\ cooldown' \in [Phone -> CooldownKey]
      /\ cooldown'[p].by = Nobody
      /\ \A x \in Phone \ {p} : cooldown'[x] = cooldown[x]
      /\ WorkingOn(p) \subseteq Robbed(p) \cup {cooldown[p].by}
  BY DeleteHolds
<1>4. PhonesAreHeld'
  <2>1. ASSUME NEW q \in Request, RequestWorks(q)'
        PROVE  request'[q].phone \in Phone /\ request'[q].ip \in IP /\ Outlives(q)'
    <3>1. /\ RequestWorks(q) /\ request'[q] = request[q]
          /\ request[q].phone \in Phone /\ request[q].ip \in IP /\ Outlives(q)
      BY <2>1 DEF IInv, PhonesAreHeld, RequestWorks
    <3>2. CASE request[q].phone = p
      BY <1>3, <3>1, <3>2, Constants DEF Outlives
    <3>3. CASE request[q].phone # p
      BY <1>3, <3>1, <3>3 DEF Outlives
    <3> QED BY <3>1, <3>2, <3>3
  <2>2. ASSUME NEW x \in Phone PROVE Cardinality(Robbed(x)') <= lateDeletes'[x]
    <3>1. WorkingOn(x)' = WorkingOn(x)
      BY DEF WorkingOn, RequestWorks
    <3>2. Cardinality(Robbed(x)) <= lateDeletes[x] /\ lateDeletes[x] \in Nat
      BY <1>1 DEF IInv, PhonesAreHeld, TypeOK
    <3>3. CASE x = p
      <4>1. Robbed(x)' \subseteq Robbed(x) \cup {cooldown[p].by}
        BY <1>3, <3>1, <3>3 DEF Robbed
      <4>2. Cardinality(Robbed(x)') <= Cardinality(Robbed(x)) + 1
        BY <4>1, RobbedTyped, Gains
      <4> QED BY <1>2, <3>2, <3>3, <4>2, RobbedTyped
    <3>4. CASE x # p
      <4>1. Robbed(x)' \subseteq Robbed(x)
        BY <1>3, <3>1, <3>4 DEF Robbed
      <4>2. Cardinality(Robbed(x)') <= Cardinality(Robbed(x))
        BY <4>1, RobbedTyped, Shrinks
      <4> QED BY <1>2, <3>2, <3>4, <4>2, RobbedTyped
    <3> QED BY <3>3, <3>4
  <2> QED BY <2>1, <2>2 DEF PhonesAreHeld
<1>5. sent' \subseteq RedisCommand /\ SentAreWell'
  BY <1>1, SentKept
<1>6. TypeOK'
  <2>1. faults' \in 0..MaxFaults
    BY <1>1, FaultTyped
  <2> QED BY <1>1, <1>2, <1>3, <2>1 DEF TypeOK, postgres
<1>7. ChallengesCount' /\ CodesAreSpent' /\ CodesAreCounted'
  BY <1>1, CodesKept
<1>8. TextsAreCounted'
  BY <1>1, TextsKept
<1> QED BY <1>4, <1>5, <1>6, <1>7, <1>8 DEF IInv

LEMMA RunsAgainIInv ==
  ASSUME IInv, NEW c \in sent, RunsAgain(c)
  PROVE  IInv'
<1>1. c \in RedisCommand /\ SentWell(c)
  BY DEF IInv, TypeOK, SentAreWell
<1>2. /\ c.key \in Key /\ c.by \in Request
      /\ c.what # "count" => c.key \in Phone
      /\ c.what = "store code" => Stored(c.by, c.key)
  BY <1>1 DEF RedisCommand, SentWell
<1>3. Fault /\ UNCHANGED <<postgres, request, verify, tries, texts, sent>>
  BY DEF RunsAgain
<1>4. CASE /\ c.what = "set cooldown" /\ cooldown[c.key].left = 0 /\ SetCooldown(c.by, c.key)
           /\ UNCHANGED <<challenge, counter, windows, late>>
  BY <1>2, <1>3, <1>4, SetsAgainIInv
<1>5. CASE c.what = "count" /\ Increment(c.key) /\ UNCHANGED <<cooldown, challenge, late>>
  BY <1>2, <1>3, <1>5, CountsAgainIInv
<1>6. CASE /\ c.what = "store code" /\ PutCode(c.by, c.key)
           /\ lateStores' = [lateStores EXCEPT ![c.by] = @ + 1]
           /\ UNCHANGED <<cooldown, counter, windows, lateDeletes>>
  BY <1>2, <1>3, <1>6, StoresAgainIInv
<1>7. CASE /\ c.what = "delete cooldown" /\ DeleteCooldown(c.key)
           /\ lateDeletes' = [lateDeletes EXCEPT ![c.key] = @ + 1]
           /\ UNCHANGED <<challenge, counter, windows, lateStores>>
  BY <1>2, <1>3, <1>7, DeletesAgainIInv
<1> QED BY <1>4, <1>5, <1>6, <1>7 DEF RunsAgain

-------------------------------------------------------------------------------
\* The steps of a verification

\* None of them is seen by the requests.
LEMMA RequestsKept ==
  ASSUME IInv, UNCHANGED <<request, cooldown, counter, texts, windows, sent, lateDeletes>>
  PROVE  /\ StoredStay /\ PhonesAreHeld' /\ sent' \subseteq RedisCommand /\ SentAreWell'
         /\ TextsAreCounted'
<1>1. StoredStay /\ CountedStay
  BY NoRequestMoves
<1> QED BY <1>1, PhonesStay, SentKept, TextsKept

\* Only verification v has changed.
OneVerify(v) ==
  /\ verify' \in [Verify -> VerifyCall]
  /\ \A w \in Verify \ {v} : verify'[w] = verify[w]

\* It has ended, or goes on with its phone, its code and its answer about the consent,
\* past the steps that give it the account and the consent.
VerifyGoesOn(v) ==
  /\ OneVerify(v)
  /\ \/ verify'[v] = NoCheck
     \/ /\ VerifyWorks(v)
        /\ verify'[v].phone = verify[v].phone /\ verify'[v].code = verify[v].code
        /\ verify'[v].phase \in {"link", "consent", "session"} => account'[verify[v].phone] # "none"
        /\ verify'[v].phase = "session" /\ verify'[v].consent => verify[v].phone \in consented'

LEMMA RefuseFacts ==
  ASSUME TypeOK, NEW v \in Verify, Refuse(v)
  PROVE  OneVerify(v) /\ verify'[v] = NoCheck
  BY NoRows DEF TypeOK, Refuse, OneVerify

LEMMA VerifyGoesFacts ==
  ASSUME TypeOK, NEW v \in Verify, NEW phase \in VerifyPhase, VerifyGoes(v, phase)
  PROVE  /\ OneVerify(v) /\ verify'[v].phase = phase /\ verify'[v].phone = verify[v].phone
         /\ verify'[v].code = verify[v].code /\ verify'[v].consent = verify[v].consent
<1> DEFINE new == [verify[v] EXCEPT !.phase = phase]
<1>1. verify[v] \in VerifyCall
  BY DEF TypeOK
<1>2. /\ new \in VerifyCall /\ new.phase = phase /\ new.phone = verify[v].phone
      /\ new.code = verify[v].code /\ new.consent = verify[v].consent
  BY <1>1 DEF VerifyCall
<1>3. verify' = [verify EXCEPT ![v] = new]
  BY DEF VerifyGoes, TypeOK
<1> HIDE DEF new
<1> QED BY <1>2, <1>3 DEF TypeOK, OneVerify

LEMMA VerifyKeepsSpent ==
  ASSUME IInv, NEW v \in Verify, VerifyGoesOn(v), AccountsStay, UNCHANGED <<request, sessions>>
  PROVE  CodesAreSpent'
<1>1. NoCheck.phase = "idle"
  BY NoRows
<1>2. \A w \in Verify : VerifyWorks(w)' => VerifyWorks(w) /\ verify'[w].code = verify[w].code
                                           /\ verify'[w].phone = verify[w].phone
  BY <1>1 DEF VerifyGoesOn, OneVerify, VerifyWorks
<1>3. ASSUME NEW w \in Verify, VerifyWorks(w)' PROVE SpentByVerify(w)'
  <2>1. SpentByVerify(w) /\ verify'[w].code = verify[w].code /\ verify'[w].phone = verify[w].phone
    BY <1>2, <1>3 DEF IInv, CodesAreSpent
  <2>2. /\ verify'[w].phase \in {"link", "consent", "session"} => account'[verify[w].phone] # "none"
        /\ verify'[w].phase = "session" /\ verify'[w].consent => verify[w].phone \in consented'
    <3>1. CASE w = v
      BY <1>1, <1>3, <3>1 DEF VerifyGoesOn, VerifyWorks
    <3>2. CASE w # v
      BY <2>1, <3>2 DEF VerifyGoesOn, OneVerify, AccountsStay, SpentByVerify
    <3> QED BY <3>1, <3>2
  <2>3. Stored(verify[w].code, verify[w].phone)'
    BY <2>1 DEF SpentByVerify, Stored
  <2> QED BY <1>2, <2>1, <2>2, <2>3 DEF SpentByVerify
<1>4. ASSUME NEW s \in sessions PROVE SpentBySession(s)'
  <2>1. SpentBySession(s)
    BY DEF IInv, CodesAreSpent
  <2> QED BY <2>1 DEF SpentBySession, Stored, AccountsStay
<1> QED BY <1>3, <1>4 DEF CodesAreSpent

LEMMA VerifyIInv ==
  ASSUME IInv, NEW v \in Verify, VerifyGoesOn(v), AccountsStay,
         account' \in [Phone -> {"none", "active", "blocked"}],
         client' \in [Phone -> {"none", "unlinked", "linked"}], consented' \subseteq Phone,
         UNCHANGED <<redis, request, sessions, seen, sent, late>>, Fault \/ UNCHANGED faults
  PROVE  IInv'
<1>1. /\ TypeOK
      /\ UNCHANGED <<cooldown, challenge, counter, request, tries, texts, windows,
                     lateDeletes, lateStores>>
  BY DEF IInv, redis, seen, late
<1>2. faults' \in 0..MaxFaults
  BY <1>1, FaultTyped
<1>3. /\ StoredStay /\ PhonesAreHeld' /\ sent' \subseteq RedisCommand /\ SentAreWell'
      /\ TextsAreCounted'
  BY <1>1, RequestsKept
<1>4. TypeOK'
  BY <1>1, <1>2, <1>3 DEF TypeOK, VerifyGoesOn, OneVerify
<1>5. ChallengesCount'
  BY <1>1, <1>3, ChallengesKept
<1>6. CodesAreSpent'
  BY <1>1, VerifyKeepsSpent
<1>7. CodesAreCounted'
  <2>1. \A w \in Verify : VerifyWorks(w)' => VerifyWorks(w) /\ verify'[w].code = verify[w].code
    BY NoRows DEF VerifyGoesOn, OneVerify, VerifyWorks
  <2> QED BY <1>1, <2>1, CountedKept
<1> QED BY <1>3, <1>4, <1>5, <1>6, <1>7 DEF IInv

\* What a verification that works has proved
LEMMA WorkingVerify ==
  ASSUME IInv, NEW v \in Verify, VerifyWorks(v)
  PROVE  SpentByVerify(v) /\ verify[v].phone \in Phone
  BY DEF IInv, CodesAreSpent, SpentByVerify

LEMMA VerifyPhases ==
  \A phase \in {"account again", "create", "link", "consent", "session", "done"} : phase \in VerifyPhase
  BY DEF VerifyPhase

LEMMA FindAccountIInv ==
  ASSUME IInv, NEW v \in Verify, FindAccount(v)
  PROVE  IInv'
<1>1. PICK p : p = verify[v].phone
  OBVIOUS
<1>2. /\ VerifyWorks(v) /\ TypeOK /\ UNCHANGED <<redis, postgres, request, seen, sent, late, faults>>
      /\ \/ account[p] = "none" /\ VerifyGoes(v, "create")
         \/ account[p] = "active" /\ VerifyGoes(v, "link")
         \/ Refuse(v)
  BY <1>1 DEF FindAccount, VerifyWorks, IInv
<1>3. VerifyGoesOn(v)
  BY <1>1, <1>2, RefuseFacts, VerifyGoesFacts, VerifyPhases DEF VerifyGoesOn, postgres
<1>4. /\ account' \in [Phone -> {"none", "active", "blocked"}]
      /\ client' \in [Phone -> {"none", "unlinked", "linked"}] /\ consented' \subseteq Phone
      /\ AccountsStay
  BY <1>2 DEF TypeOK, postgres, AccountsStay
<1> QED BY <1>2, <1>3, <1>4, VerifyIInv DEF postgres

LEMMA CreateAccountIInv ==
  ASSUME IInv, NEW v \in Verify, CreateAccount(v)
  PROVE  IInv'
<1>1. PICK p : p = verify[v].phone
  OBVIOUS
<1>2. /\ VerifyWorks(v) /\ TypeOK
      /\ UNCHANGED <<redis, client, consented, sessions, request, seen, sent, late, faults>>
      /\ \/ account' = [account EXCEPT ![p] = "active"] /\ VerifyGoes(v, "link")
         \/ VerifyGoes(v, "account again") /\ UNCHANGED account
  BY <1>1 DEF CreateAccount, VerifyWorks, IInv
<1>3. p \in Phone
  BY <1>1, <1>2, WorkingVerify
<1>4. VerifyGoesOn(v)
  <2>1. CASE account' = [account EXCEPT ![p] = "active"] /\ VerifyGoes(v, "link")
    <3>1. account'[p] # "none"
      BY <1>2, <1>3, <2>1 DEF TypeOK
    <3> QED BY <1>1, <1>2, <2>1, <3>1, VerifyGoesFacts, VerifyPhases DEF VerifyGoesOn
  <2>2. CASE VerifyGoes(v, "account again")
    BY <1>2, <2>2, VerifyGoesFacts, VerifyPhases DEF VerifyGoesOn
  <2> QED BY <1>2, <2>1, <2>2
<1>5. /\ account' \in [Phone -> {"none", "active", "blocked"}]
      /\ client' \in [Phone -> {"none", "unlinked", "linked"}] /\ consented' \subseteq Phone
      /\ AccountsStay
  BY <1>2, <1>3 DEF TypeOK, AccountsStay
<1> QED BY <1>2, <1>4, <1>5, VerifyIInv

LEMMA LinkClientsIInv ==
  ASSUME IInv, NEW v \in Verify, LinkClients(v)
  PROVE  IInv'
<1>1. PICK p : p = verify[v].phone
  OBVIOUS
<1>2. /\ verify[v].phase = "link" /\ VerifyWorks(v) /\ TypeOK
      /\ UNCHANGED <<redis, account, consented, sessions, request, seen, sent, late>>
      /\ (Fault \/ UNCHANGED faults)
      /\ \/ client' = [client EXCEPT ![p] = IF @ = "unlinked" THEN "linked" ELSE @]
         \/ UNCHANGED client
      /\ VerifyGoes(v, IF verify[v].consent THEN "consent" ELSE "session")
  BY <1>1 DEF LinkClients, VerifyWorks, IInv
<1>3. p \in Phone /\ account[p] # "none"
  BY <1>1, <1>2, WorkingVerify DEF SpentByVerify
<1>4. VerifyGoesOn(v)
  <2>1. CASE verify[v].consent
    BY <1>1, <1>2, <1>3, <2>1, VerifyGoesFacts, VerifyPhases DEF VerifyGoesOn
  <2>2. CASE ~verify[v].consent
    BY <1>1, <1>2, <1>3, <2>2, VerifyGoesFacts, VerifyPhases DEF VerifyGoesOn
  <2> QED BY <2>1, <2>2
<1>5. /\ account' \in [Phone -> {"none", "active", "blocked"}]
      /\ client' \in [Phone -> {"none", "unlinked", "linked"}] /\ consented' \subseteq Phone
      /\ AccountsStay
  BY <1>2, <1>3 DEF TypeOK, AccountsStay
<1> QED BY <1>2, <1>4, <1>5, VerifyIInv

LEMMA RecordConsentIInv ==
  ASSUME IInv, NEW v \in Verify, RecordConsent(v)
  PROVE  IInv'
<1>1. PICK p : p = verify[v].phone
  OBVIOUS
<1>2. /\ verify[v].phase = "consent" /\ VerifyWorks(v) /\ TypeOK
      /\ UNCHANGED <<redis, account, client, sessions, request, seen, sent, late>>
      /\ (Fault \/ UNCHANGED faults)
      /\ \/ consented' = consented \cup {p} /\ VerifyGoes(v, "session")
         \/ Refuse(v) /\ UNCHANGED consented
  BY <1>1 DEF RecordConsent, VerifyWorks, IInv
<1>3. p \in Phone /\ account[p] # "none"
  BY <1>1, <1>2, WorkingVerify DEF SpentByVerify
<1>4. VerifyGoesOn(v)
  BY <1>1, <1>2, <1>3, RefuseFacts, VerifyGoesFacts, VerifyPhases DEF VerifyGoesOn
<1>5. /\ account' \in [Phone -> {"none", "active", "blocked"}]
      /\ client' \in [Phone -> {"none", "unlinked", "linked"}] /\ consented' \subseteq Phone
      /\ AccountsStay
  BY <1>2, <1>3 DEF TypeOK, AccountsStay
<1> QED BY <1>2, <1>4, <1>5, VerifyIInv

LEMMA GiveUpVerifyIInv ==
  ASSUME IInv, NEW v \in Verify, GiveUpVerify(v)
  PROVE  IInv'
<1>1. TypeOK /\ Refuse(v) /\ Fault /\ UNCHANGED <<redis, postgres, request, seen, sent, late>>
  BY DEF GiveUpVerify, IInv
<1>2. VerifyGoesOn(v)
  BY <1>1, RefuseFacts DEF VerifyGoesOn
<1>3. /\ account' \in [Phone -> {"none", "active", "blocked"}]
      /\ client' \in [Phone -> {"none", "unlinked", "linked"}] /\ consented' \subseteq Phone
      /\ AccountsStay
  BY <1>1 DEF TypeOK, postgres, AccountsStay
<1> QED BY <1>1, <1>2, <1>3, VerifyIInv DEF postgres

\* The session's code was in the hands of its verification, which is done now.
LEMMA CreateSessionIInv ==
  ASSUME IInv, NEW v \in Verify, CreateSession(v)
  PROVE  IInv'
<1>0. PICK row : row = [by |-> v, phone |-> verify[v].phone, code |-> verify[v].code,
                        consent |-> verify[v].consent]
  OBVIOUS
<1>1. /\ verify[v].phase = "session" /\ VerifyWorks(v) /\ TypeOK
      /\ sessions' = sessions \cup {row}
      /\ UNCHANGED <<cooldown, challenge, counter, account, client, consented, request,
                     tries, texts, windows, sent, lateDeletes, lateStores, faults>>
      /\ VerifyGoes(v, "done")
  BY <1>0 DEF CreateSession, VerifyWorks, IInv, redis, seen, late
<1>2. /\ SpentByVerify(v) /\ verify[v].phone \in Phone /\ verify[v].code \in Request
      /\ verify[v].consent \in BOOLEAN
  BY <1>1, WorkingVerify DEF SpentByVerify, Stored, TypeOK, VerifyCall
<1>3. row.code = verify[v].code /\ row.phone = verify[v].phone /\ row.consent = verify[v].consent
  BY <1>0
<1>4. row \in [by: Verify, phone: Phone, code: Request, consent: BOOLEAN]
  BY <1>0, <1>2
<1>5. OneVerify(v) /\ ~VerifyWorks(v)'
  BY <1>1, VerifyGoesFacts, VerifyPhases DEF VerifyWorks
<1>6. /\ StoredStay /\ PhonesAreHeld' /\ sent' \subseteq RedisCommand /\ SentAreWell'
      /\ TextsAreCounted'
  BY <1>1, RequestsKept
<1>7. ChallengesCount'
  BY <1>1, <1>6, ChallengesKept
<1>8. CodesAreSpent'
  <2>1. ASSUME NEW w \in Verify, VerifyWorks(w)' PROVE SpentByVerify(w)'
    <3>1. w # v /\ verify'[w] = verify[w] /\ VerifyWorks(w)
      BY <1>5, <2>1 DEF OneVerify, VerifyWorks
    <3>2. SpentByVerify(w)
      BY <3>1, WorkingVerify
    <3> QED BY <1>1, <3>1, <3>2 DEF SpentByVerify, Stored
  <2>2. ASSUME NEW s \in sessions PROVE SpentBySession(s)'
    <3>1. SpentBySession(s)
      BY DEF IInv, CodesAreSpent
    <3> QED BY <1>1, <3>1 DEF SpentBySession, Stored
  <2>3. SpentBySession(row)'
    BY <1>1, <1>2, <1>3 DEF SpentBySession, SpentByVerify, Stored
  <2> QED BY <1>1, <2>1, <2>2, <2>3 DEF CodesAreSpent
<1>9. CodesAreCounted'
  <2>1. ASSUME NEW d \in Request
        PROVE  (Cardinality(SessionsOf(d)) + Cardinality(Proving(d)) + Usable(d) <= 1 + lateStores[d])'
    <3>1. Proving(d)' \subseteq Proving(d) \ {v} /\ Usable(d)' = Usable(d)
      BY <1>1, <1>5 DEF Proving, OneVerify, VerifyWorks, Usable
    <3>2. CASE d = row.code
      <4>1. v \in Proving(d) /\ SessionsOf(d)' \subseteq SessionsOf(d) \cup {row}
        BY <1>1, <1>3, <3>2 DEF Proving, SessionsOf
      <4>2. /\ Cardinality(SessionsOf(d)') \in Nat
            /\ Cardinality(SessionsOf(d)') <= Cardinality(SessionsOf(d)) + 1
        BY <4>1, UsesTyped, Gains
      <4>3. /\ Cardinality(Proving(d)') \in Nat
            /\ Cardinality(Proving(d)') + 1 <= Cardinality(Proving(d))
        BY <3>1, <4>1, UsesTyped, Loses
      <4>4. lateStores'[d] = lateStores[d]
        BY <1>1
      <4> QED BY <3>1, <4>2, <4>3, <4>4, UsesTyped
    <3>3. CASE d # row.code
      <4>1. SessionsOf(d)' \subseteq SessionsOf(d)
        BY <1>1, <3>3 DEF SessionsOf
      <4>2. Usable(d)' <= Usable(d) /\ lateStores'[d] = lateStores[d]
        BY <1>1, <3>1, UsesTyped
      <4> QED BY <3>1, <4>1, <4>2, UsesKept
    <3> QED BY <3>2, <3>3
  <2>2. IsFiniteSet(sessions)'
    <3>1. IsFiniteSet(sessions)
      BY DEF IInv, CodesAreCounted
    <3> QED BY <1>1, <3>1, FS_AddElement
  <2> QED BY <2>1, <2>2 DEF CodesAreCounted
<1>10. TypeOK'
  BY <1>1, <1>4, <1>5, <1>6 DEF TypeOK, OneVerify
<1> QED BY <1>6, <1>7, <1>8, <1>9, <1>10 DEF IInv

\* What a stored challenge's code is: one of a request with that phone, which no other
\* phone's challenge has.
LEMMA StoredFacts ==
  ASSUME IInv, NEW p \in Phone, challenge[p] # NoCode
  PROVE  /\ challenge[p].code \in Request /\ challenge[p].code # Nobody
         /\ Stored(challenge[p].code, p)
         /\ tries[challenge[p].code] <= Earlier(challenge[p].code) + challenge[p].attempts
         /\ \A x \in Phone \ {p} : challenge[x].code # challenge[p].code
<1>1. /\ Stored(challenge[p].code, p)
      /\ tries[challenge[p].code] <= Earlier(challenge[p].code) + challenge[p].attempts
      /\ challenge[p].code \in Request /\ challenge[p].code # Nobody
  BY Constants DEF IInv, ChallengesCount, Stored
<1>2. \A x \in Phone \ {p} : challenge[x].code # challenge[p].code
  <2> SUFFICES ASSUME NEW x \in Phone \ {p}, challenge[x].code = challenge[p].code PROVE FALSE
    OBVIOUS
  <2>1. challenge[x] # NoCode
    BY <1>1, NoRows
  <2>2. Stored(challenge[x].code, x)
    BY <2>1 DEF IInv, ChallengesCount
  <2> QED BY <1>1, <2>2 DEF Stored
<1> QED BY <1>1, <1>2

\* A guess is counted by the challenge it was compared with, unless that goes.
LEMMA GuessCounts ==
  ASSUME IInv, NEW p \in Phone, challenge[p] # NoCode, UNCHANGED <<request, lateStores>>,
         tries' = [tries EXCEPT ![challenge[p].code] = @ + 1],
         \A x \in Phone \ {p} : challenge'[x] = challenge[x],
         \/ challenge'[p] = NoCode
         \/ /\ challenge'[p].code = challenge[p].code
            /\ challenge'[p].attempts = challenge[p].attempts + 1
  PROVE  tries' \in [Request -> Nat] /\ ChallengesCount'
<1>0. PICK c \in Request : c = challenge[p].code
  BY StoredFacts
<1>1. /\ Stored(c, p) /\ tries[c] <= Earlier(c) + challenge[p].attempts
      /\ \A x \in Phone \ {p} : challenge[x].code # c
  BY <1>0, StoredFacts
<1>2. /\ tries' \in [Request -> Nat] /\ tries'[c] = tries[c] + 1
      /\ \A r \in Request \ {c} : tries'[r] = tries[r]
  BY <1>0 DEF IInv, TypeOK
<1>3. /\ \A r \in Request : Earlier(r)' = Earlier(r) /\ Earlier(r) \in Nat /\ tries[r] \in Nat
      /\ challenge[p].attempts \in Nat /\ challenge[p].attempts < MaxAttempts
  BY EarlierTyped, ChallengeTyped DEF IInv, Earlier
<1>4. ASSUME NEW x \in Phone, challenge'[x] # NoCode
      PROVE  /\ Stored(challenge[x].code, x)'
             /\ (tries[challenge[x].code] <= Earlier(challenge[x].code) + challenge[x].attempts)'
  <2>1. CASE x = p
    <3>1. challenge'[x].code = c /\ challenge'[x].attempts = challenge[p].attempts + 1
      BY <1>0, <1>4, <2>1
    <3>2. Stored(challenge[x].code, x)'
      BY <1>1, <2>1, <3>1 DEF Stored
    <3>3. Earlier(challenge[x].code)' = Earlier(c)
      BY <1>3, <3>1 DEF Earlier
    <3>4. tries'[c] <= Earlier(c) + (challenge[p].attempts + 1)
      BY <1>1, <1>2, <1>3
    <3> QED BY <3>1, <3>2, <3>3, <3>4
  <2>2. CASE x # p
    <3>1. challenge'[x] = challenge[x] /\ challenge[x] # NoCode
      BY <1>4, <2>2
    <3>2. /\ Stored(challenge[x].code, x) /\ challenge[x].code \in Request /\ challenge[x].code # c
          /\ tries[challenge[x].code] <= Earlier(challenge[x].code) + challenge[x].attempts
      BY <1>1, <2>2, <3>1, StoredFacts
    <3>3. Earlier(challenge[x].code)' = Earlier(challenge[x].code)
      BY <3>1 DEF Earlier
    <3>4. Stored(challenge[x].code, x)' /\ tries'[challenge[x].code] = tries[challenge[x].code]
      BY <1>2, <3>1, <3>2 DEF Stored
    <3> QED BY <3>1, <3>2, <3>3, <3>4
  <2> QED BY <2>1, <2>2
<1>5. ASSUME NEW r \in Request
      PROVE (/\ tries[r] <= Earlier(r) + MaxAttempts
             /\ request[r].phase \in Unstored => tries[r] = 0)'
  <2>1. tries[r] <= Earlier(r) + MaxAttempts /\ (request[r].phase \in Unstored => tries[r] = 0)
    BY DEF IInv, ChallengesCount
  <2>2. CASE r = c
    <3>1. tries'[c] <= Earlier(c) + MaxAttempts
      BY <1>1, <1>2, <1>3, Constants
    <3> QED BY <1>1, <1>3, <2>2, <3>1 DEF Stored
  <2>3. CASE r # c
    BY <1>2, <1>3, <2>1, <2>3
  <2> QED BY <2>2, <2>3
<1> QED BY <1>2, <1>4, <1>5 DEF ChallengesCount

\* A verification that proved nothing: the challenge stays as it is, goes, or counts it.
LEMMA WrongCodeIInv ==
  ASSUME IInv, NEW v \in Verify, NEW p \in Phone, Refuse(v), Fault \/ UNCHANGED faults,
         UNCHANGED <<cooldown, counter, postgres, request, texts, windows, sent, late>>,
         \/ UNCHANGED <<challenge, tries>>
         \/ DropCode(p) /\ UNCHANGED tries
         \/ /\ challenge[p] # NoCode /\ tries' = [tries EXCEPT ![challenge[p].code] = @ + 1]
            /\ \/ DropCode(p)
               \/ CountAttempt(p) /\ challenge[p].attempts + 1 < MaxAttempts
  PROVE  IInv'
<1>1. /\ TypeOK /\ OneVerify(v) /\ verify'[v] = NoCheck
      /\ UNCHANGED <<account, client, consented, sessions, lateDeletes, lateStores>>
  BY RefuseFacts DEF IInv, postgres, late
<1>2. /\ StoredStay /\ PhonesAreHeld' /\ sent' \subseteq RedisCommand /\ SentAreWell'
      /\ TextsAreCounted'
  BY <1>1, RequestsKept
<1>3. /\ challenge' \in [Phone -> ChallengeKey]
      /\ \A x \in Phone \ {p} : challenge'[x] = challenge[x]
      /\ DropCode(p) => challenge'[p] = NoCode
      /\ CountAttempt(p) /\ challenge[p].attempts + 1 < MaxAttempts =>
           /\ challenge'[p].code = challenge[p].code
           /\ challenge'[p].attempts = challenge[p].attempts + 1
  <2>1. CASE UNCHANGED challenge
    <3>1. challenge'[p] = challenge[p] /\ challenge' \in [Phone -> ChallengeKey]
      BY <1>1, <2>1 DEF TypeOK
    <3>2. DropCode(p) => challenge'[p] = NoCode
      BY <1>1 DEF DropCode, TypeOK
    <3>3. CountAttempt(p) => challenge'[p].attempts = challenge[p].attempts + 1
      <4>1. challenge[p] \in ChallengeKey /\ challenge \in [Phone -> ChallengeKey]
        BY <1>1 DEF TypeOK
      <4> QED BY <4>1 DEF CountAttempt, ChallengeKey
    <3> QED BY <2>1, <3>1, <3>2, <3>3
  <2>2. CASE DropCode(p)
    <3>1. /\ challenge' \in [Phone -> ChallengeKey] /\ challenge'[p] = NoCode
          /\ \A x \in Phone \ {p} : challenge'[x] = challenge[x]
      BY <1>1, <2>2, NoRows DEF TypeOK, DropCode
    <3>2. CountAttempt(p) => /\ challenge'[p].code = challenge[p].code
                             /\ challenge'[p].attempts = challenge[p].attempts + 1
      <4>1. challenge[p] \in ChallengeKey /\ challenge \in [Phone -> ChallengeKey]
        BY <1>1 DEF TypeOK
      <4> QED BY <4>1 DEF CountAttempt, ChallengeKey
    <3> QED BY <3>1, <3>2
  <2>3. CASE CountAttempt(p) /\ challenge[p].attempts + 1 < MaxAttempts
    <3> DEFINE new == [challenge[p] EXCEPT !.attempts = challenge[p].attempts + 1]
    <3>1. challenge[p] \in ChallengeKey /\ challenge[p].attempts \in Nat
      BY <1>1, ChallengeTyped
    <3>2. /\ new \in ChallengeKey /\ new.code = challenge[p].code
          /\ new.attempts = challenge[p].attempts + 1
      BY <2>3, <3>1, Constants DEF ChallengeKey
    <3>3. challenge' = [challenge EXCEPT ![p] = new]
      BY <1>1, <2>3 DEF CountAttempt, TypeOK
    <3> HIDE DEF new
    <3>4. DropCode(p) => challenge'[p] = NoCode
      BY <1>1 DEF DropCode, TypeOK
    <3> QED BY <1>1, <3>2, <3>3, <3>4 DEF TypeOK
  <2> QED BY <2>1, <2>2, <2>3
<1>4. tries' \in [Request -> Nat] /\ ChallengesCount'
  <2>1. CASE UNCHANGED <<challenge, tries>> \/ (DropCode(p) /\ UNCHANGED tries)
    <3>1. \A x \in Phone : challenge'[x] # NoCode => challenge'[x] = challenge[x]
      BY <1>3, <2>1
    <3> QED BY <1>1, <1>2, <2>1, <3>1, ChallengesKept DEF TypeOK
  <2>2. CASE /\ challenge[p] # NoCode /\ tries' = [tries EXCEPT ![challenge[p].code] = @ + 1]
             /\ \/ DropCode(p)
                \/ CountAttempt(p) /\ challenge[p].attempts + 1 < MaxAttempts
    BY <1>1, <1>3, <2>2, GuessCounts
  <2> QED BY <2>1, <2>2
<1>5. \A w \in Verify : VerifyWorks(w)' => VerifyWorks(w) /\ verify'[w] = verify[w]
  BY <1>1, NoRows DEF OneVerify, VerifyWorks
<1>6. CodesAreSpent'
  <2>1. ASSUME NEW w \in Verify, VerifyWorks(w)' PROVE SpentByVerify(w)'
    <3>1. SpentByVerify(w) /\ verify'[w] = verify[w]
      BY <1>5, <2>1, WorkingVerify
    <3> QED BY <1>1, <3>1 DEF SpentByVerify, Stored
  <2>2. ASSUME NEW s \in sessions PROVE SpentBySession(s)'
    <3>1. SpentBySession(s)
      BY DEF IInv, CodesAreSpent
    <3> QED BY <1>1, <3>1 DEF SpentBySession, Stored
  <2> QED BY <1>1, <2>1, <2>2 DEF CodesAreSpent
<1>7. CodesAreCounted'
  <2>1. \A x \in Phone : challenge'[x].code \in {challenge[x].code, Nobody}
    BY <1>3, NoRows
  <2> QED BY <1>1, <1>5, <2>1, CountedKept
<1>8. TypeOK'
  <2>1. faults' \in 0..MaxFaults
    BY <1>1, FaultTyped
  <2> QED BY <1>1, <1>2, <1>3, <1>4, <2>1 DEF TypeOK, OneVerify
<1> QED BY <1>2, <1>4, <1>6, <1>7, <1>8 DEF IInv

\* The right code leaves the challenge in the step that proves it.
LEMMA RightCodeIInv ==
  ASSUME IInv, NEW v \in Verify, NEW p \in Phone, NEW consent \in BOOLEAN, challenge[p] # NoCode,
         tries' = [tries EXCEPT ![challenge[p].code] = @ + 1], DropCode(p),
         verify' = [verify EXCEPT ![v] = [phase |-> "account", phone |-> p,
                                          code |-> challenge[p].code, consent |-> consent]],
         UNCHANGED <<cooldown, counter, postgres, request, texts, windows, sent, late, faults>>
  PROVE  IInv'
<1>0. PICK c \in Request : c = challenge[p].code
  BY StoredFacts
<1> DEFINE new == [phase |-> "account", phone |-> p, code |-> c, consent |-> consent]
<1>1. /\ TypeOK /\ UNCHANGED <<account, client, consented, sessions, lateDeletes, lateStores>>
      /\ StoredStay /\ PhonesAreHeld' /\ sent' \subseteq RedisCommand /\ SentAreWell'
      /\ TextsAreCounted'
  BY RequestsKept DEF IInv, postgres, late
<1>2. c # Nobody /\ Stored(c, p) /\ \A x \in Phone \ {p} : challenge[x].code # c
  BY <1>0, StoredFacts
<1>3. /\ challenge' \in [Phone -> ChallengeKey] /\ challenge'[p] = NoCode
      /\ \A x \in Phone \ {p} : challenge'[x] = challenge[x]
  BY <1>1, NoRows DEF TypeOK, DropCode
<1>4. tries' \in [Request -> Nat] /\ ChallengesCount'
  BY <1>1, <1>3, GuessCounts
<1>5. /\ new \in VerifyCall /\ new.phase = "account" /\ new.phone = p /\ new.code = c
  BY <1>2 DEF VerifyCall, VerifyPhase
<1> HIDE DEF new
<1>6. OneVerify(v) /\ verify'[v] = new
  BY <1>0, <1>1, <1>5 DEF TypeOK, OneVerify, new
<1>7. CodesAreSpent'
  <2>1. ASSUME NEW w \in Verify, VerifyWorks(w)' PROVE SpentByVerify(w)'
    <3>1. CASE w = v
      BY <1>1, <1>2, <1>5, <1>6, <3>1 DEF SpentByVerify, Stored
    <3>2. CASE w # v
      <4>1. verify'[w] = verify[w] /\ VerifyWorks(w)
        BY <1>6, <2>1, <3>2 DEF OneVerify, VerifyWorks
      <4>2. SpentByVerify(w)
        BY <4>1, WorkingVerify
      <4> QED BY <1>1, <4>1, <4>2 DEF SpentByVerify, Stored
    <3> QED BY <3>1, <3>2
  <2>2. ASSUME NEW s \in sessions PROVE SpentBySession(s)'
    <3>1. SpentBySession(s)
      BY DEF IInv, CodesAreSpent
    <3> QED BY <1>1, <3>1 DEF SpentBySession, Stored
  <2> QED BY <1>1, <2>1, <2>2 DEF CodesAreSpent
<1>8. CodesAreCounted'
  <2>1. ASSUME NEW d \in Request
        PROVE  (Cardinality(SessionsOf(d)) + Cardinality(Proving(d)) + Usable(d) <= 1 + lateStores[d])'
    <3>1. SessionsOf(d)' = SessionsOf(d)
      BY <1>1 DEF SessionsOf
    <3>2. CASE d = c
      <4>1. Usable(d) = 1 /\ Usable(d)' = 0
        BY <1>0, <1>2, <1>3, <3>2, NoRows DEF Usable
      <4>2. Proving(d)' \subseteq Proving(d) \cup {v}
        BY <1>6 DEF Proving, OneVerify, VerifyWorks
      <4>3. /\ Cardinality(Proving(d)') \in Nat
            /\ Cardinality(Proving(d)') <= Cardinality(Proving(d)) + 1
        BY <4>2, UsesTyped, Gains
      <4>4. Cardinality(SessionsOf(d)') = Cardinality(SessionsOf(d)) /\ lateStores'[d] = lateStores[d]
        BY <1>1, <3>1
      <4> QED BY <4>1, <4>3, <4>4, UsesTyped
    <3>3. CASE d # c
      <4>1. Proving(d)' \subseteq Proving(d)
        BY <1>5, <1>6, <3>3 DEF Proving, OneVerify, VerifyWorks
      <4>2. Usable(d)' <= Usable(d)
        BY <1>3, UsableNoMore, NoRows
      <4> QED BY <1>1, <3>1, <4>1, <4>2, UsesKept
    <3> QED BY <3>2, <3>3
  <2>2. IsFiniteSet(sessions)'
    BY <1>1 DEF IInv, CodesAreCounted
  <2> QED BY <2>1, <2>2 DEF CodesAreCounted
<1>9. TypeOK'
  BY <1>1, <1>3, <1>4, <1>6 DEF TypeOK, OneVerify
<1> QED BY <1>1, <1>4, <1>7, <1>8, <1>9 DEF IInv

LEMMA CheckCodeIInv ==
  ASSUME IInv, NEW v \in Verify, NEW p \in Phone, NEW code \in Request, NEW consent \in BOOLEAN,
         CheckCode(v, p, code, consent)
  PROVE  IInv'
<1>1. UNCHANGED <<cooldown, counter, postgres, request, texts, windows, sent, late>>
  BY DEF CheckCode
<1>2. \/ Refuse(v) /\ UNCHANGED <<challenge, tries, faults>>
      \/ DropCode(p) /\ Refuse(v) /\ UNCHANGED <<tries, faults>>
      \/ /\ challenge[p] # NoCode /\ ~Exhausted(challenge[p].attempts)
         /\ tries' = [tries EXCEPT ![challenge[p].code] = @ + 1]
         /\ \/ /\ code = challenge[p].code /\ DropCode(p)
               /\ \/ /\ verify' = [verify EXCEPT ![v] =
                          [phase |-> "account", phone |-> p, code |-> code, consent |-> consent]]
                     /\ UNCHANGED faults
                  \/ Fault /\ Refuse(v)
            \/ /\ IF Exhausted(challenge[p].attempts + 1) THEN DropCode(p) ELSE CountAttempt(p)
               /\ Refuse(v) /\ UNCHANGED faults
  BY DEF CheckCode
<1>3. CASE Refuse(v) /\ UNCHANGED <<challenge, tries, faults>>
  BY <1>1, <1>3, WrongCodeIInv
<1>4. CASE DropCode(p) /\ Refuse(v) /\ UNCHANGED <<tries, faults>>
  BY <1>1, <1>4, WrongCodeIInv
<1>5. CASE /\ challenge[p] # NoCode /\ tries' = [tries EXCEPT ![challenge[p].code] = @ + 1]
           /\ code = challenge[p].code /\ DropCode(p) /\ UNCHANGED faults
           /\ verify' = [verify EXCEPT ![v] =
                  [phase |-> "account", phone |-> p, code |-> code, consent |-> consent]]
  BY <1>1, <1>5, RightCodeIInv
<1>6. CASE /\ challenge[p] # NoCode /\ tries' = [tries EXCEPT ![challenge[p].code] = @ + 1]
           /\ DropCode(p) /\ Refuse(v) /\ (Fault \/ UNCHANGED faults)
  BY <1>1, <1>6, WrongCodeIInv
<1>7. CASE /\ challenge[p] # NoCode /\ tries' = [tries EXCEPT ![challenge[p].code] = @ + 1]
           /\ ~Exhausted(challenge[p].attempts + 1) /\ CountAttempt(p)
           /\ Refuse(v) /\ UNCHANGED faults
  <2>1. challenge[p].attempts \in Nat
    BY ChallengeTyped DEF IInv
  <2>2. challenge[p].attempts + 1 < MaxAttempts
    BY <1>7, <2>1, Constants DEF Exhausted
  <2> QED BY <1>1, <1>7, <2>2, WrongCodeIInv
<1> QED BY <1>2, <1>3, <1>4, <1>5, <1>6, <1>7
-------------------------------------------------------------------------------
\* Around them

LEMMA BlockAccountIInv ==
  ASSUME IInv, NEW p \in Phone, BlockAccount(p)
  PROVE  IInv'
<1>1. /\ TypeOK /\ Fault /\ account' = [account EXCEPT ![p] = "blocked"]
      /\ UNCHANGED <<cooldown, challenge, counter, client, consented, sessions, request, verify,
                     tries, texts, windows, sent, lateDeletes, lateStores>>
  BY DEF BlockAccount, IInv, redis, seen, late
<1>2. /\ StoredStay /\ PhonesAreHeld' /\ sent' \subseteq RedisCommand /\ SentAreWell'
      /\ TextsAreCounted'
  BY <1>1, RequestsKept
<1>3. ChallengesCount'
  BY <1>1, <1>2, ChallengesKept
<1>4. CodesAreSpent'
  <2>1. AccountsStay
    BY <1>1 DEF AccountsStay, TypeOK
  <2> QED BY <1>1, <1>2, <2>1, SpentKept
<1>5. CodesAreCounted'
  BY <1>1, CountedKept DEF VerifyWorks
<1>6. TypeOK'
  <2>1. faults' \in 0..MaxFaults
    BY <1>1, FaultTyped
  <2> QED BY <1>1, <1>2, <2>1 DEF TypeOK
<1> QED BY <1>2, <1>3, <1>4, <1>5, <1>6 DEF IInv

\* Time: a cooldown outlives the request that set it, because no request outlives its
\* own deadline; windows and challenges only end.
LEMMA PassTimeIInv ==
  ASSUME IInv, PassTime
  PROVE  IInv'
<1>1. /\ TypeOK /\ UNCHANGED <<account, client, consented, sessions, verify, tries, texts, windows,
                              sent, lateDeletes, lateStores, faults>>
      /\ \A r \in Request : RequestWorks(r) => request[r].left > 0
  BY DEF PassTime, IInv, postgres, seen, late
<1>2. /\ cooldown' \in [Phone -> CooldownKey]
      /\ \A p \in Phone : cooldown[p].left > 1 =>
           cooldown'[p].left = cooldown[p].left - 1 /\ cooldown'[p].by = cooldown[p].by
  <2>1. ASSUME NEW p \in Phone
        PROVE  /\ cooldown'[p] \in CooldownKey
               /\ cooldown[p].left > 1 =>
                    cooldown'[p].left = cooldown[p].left - 1 /\ cooldown'[p].by = cooldown[p].by
    <3>1. cooldown[p] \in CooldownKey
      BY <1>1, CooldownTyped
    <3>2. cooldown'[p] = IF cooldown[p].left > 1 THEN [cooldown[p] EXCEPT !.left = @ - 1]
                         ELSE [left |-> 0, by |-> Nobody]
      BY DEF PassTime
    <3> QED BY <3>1, <3>2, Constants DEF CooldownKey
  <2>2. cooldown' = [p \in Phone |-> cooldown'[p]]
    BY DEF PassTime
  <2> QED BY <2>1, <2>2
<1>3. /\ challenge' \in [Phone -> ChallengeKey]
      /\ \A p \in Phone : challenge'[p] # NoCode =>
           /\ challenge[p] # NoCode /\ challenge'[p].code = challenge[p].code
           /\ challenge'[p].attempts = challenge[p].attempts
  <2>1. ASSUME NEW p \in Phone
        PROVE  /\ challenge'[p] \in ChallengeKey
               /\ challenge'[p] # NoCode =>
                    /\ challenge[p] # NoCode /\ challenge'[p].code = challenge[p].code
                    /\ challenge'[p].attempts = challenge[p].attempts
    <3>1. challenge[p] \in ChallengeKey
      BY <1>1, ChallengeTyped
    <3>2. challenge'[p] = IF challenge[p].left > 1 THEN [challenge[p] EXCEPT !.left = @ - 1] ELSE NoCode
      BY DEF PassTime
    <3>3. CASE challenge[p].left > 1
      BY <3>1, <3>2, <3>3, Constants DEF ChallengeKey, NoCode
    <3>4. CASE ~(challenge[p].left > 1)
      BY <3>2, <3>4, NoRows
    <3> QED BY <3>3, <3>4
  <2>2. challenge' = [p \in Phone |-> challenge'[p]]
    BY DEF PassTime
  <2> QED BY <2>1, <2>2
<1>4. /\ counter' \in [Key -> CounterKey]
      /\ \A k \in Key : counter'[k].left > 0 => counter[k].left > 0 /\ counter'[k].n = counter[k].n
  <2>1. ASSUME NEW k \in Key
        PROVE  /\ counter'[k] \in CounterKey
               /\ counter'[k].left > 0 => counter[k].left > 0 /\ counter'[k].n = counter[k].n
    <3>1. counter[k] \in CounterKey
      BY <1>1, CounterTyped
    <3>2. counter'[k] = IF counter[k].left > 1 THEN [counter[k] EXCEPT !.left = @ - 1]
                        ELSE [n |-> 0, left |-> 0]
      BY DEF PassTime
    <3> QED BY <3>1, <3>2, Constants DEF CounterKey
  <2>2. counter' = [k \in Key |-> counter'[k]]
    BY DEF PassTime
  <2> QED BY <2>1, <2>2
<1>5. /\ request' \in [Request -> RequestCall]
      /\ \A r \in Request :
           /\ request'[r].phase = request[r].phase /\ request'[r].phone = request[r].phone
           /\ request'[r].ip = request[r].ip /\ request'[r].counted = request[r].counted
           /\ request[r].left > 0 => request'[r].left = request[r].left - 1
  <2>1. ASSUME NEW r \in Request
        PROVE  /\ request'[r] \in RequestCall
               /\ request'[r].phase = request[r].phase /\ request'[r].phone = request[r].phone
               /\ request'[r].ip = request[r].ip /\ request'[r].counted = request[r].counted
               /\ request[r].left > 0 => request'[r].left = request[r].left - 1
    <3>1. request[r] \in RequestCall
      BY <1>1, RequestTyped
    <3>2. request'[r] = [request[r] EXCEPT !.left = CountDown(@)]
      BY DEF PassTime
    <3> QED BY <3>1, <3>2, Constants DEF RequestCall, CountDown
  <2>2. request' = [r \in Request |-> request'[r]]
    BY DEF PassTime
  <2> QED BY <2>1, <2>2
<1>6. TypeOK'
  BY <1>1, <1>2, <1>3, <1>4, <1>5 DEF TypeOK
<1>7. StoredStay /\ CountedStay
  BY <1>5 DEF StoredStay, CountedStay, PhoneCounted
<1>8. PhonesAreHeld'
  <2>1. ASSUME NEW r \in Request, RequestWorks(r)
        PROVE  /\ request'[r].phone \in Phone /\ request'[r].ip \in IP
               /\ cooldown[request[r].phone].by = r => cooldown'[request[r].phone].by = r
               /\ Outlives(r)'
    <3>1. /\ request[r].phone \in Phone /\ request[r].ip \in IP
          /\ Outlives(r) /\ request[r].left > 0
      BY <1>1, <2>1 DEF IInv, PhonesAreHeld
    <3>2. request[r].left \in Nat /\ cooldown[request[r].phone].left \in Nat
      BY <1>1, <3>1, RequestTyped, CooldownTyped
    <3>3. CASE cooldown[request[r].phone].by = r
      <4>1. cooldown[request[r].phone].left > 1
        BY <3>1, <3>2, <3>3, Constants DEF Outlives
      <4>2. /\ cooldown'[request[r].phone].left = cooldown[request[r].phone].left - 1
            /\ cooldown'[request[r].phone].by = r
        BY <1>2, <3>1, <3>3, <4>1
      <4> QED BY <1>5, <3>1, <3>2, <3>3, <4>2, Constants DEF Outlives
    <3>4. CASE cooldown[request[r].phone].by # r
      <4>1. cooldown'[request[r].phone].by # r
        <5>1. cooldown'[request[r].phone] = IF cooldown[request[r].phone].left > 1
                THEN [cooldown[request[r].phone] EXCEPT !.left = @ - 1]
                ELSE [left |-> 0, by |-> Nobody]
          BY <3>1 DEF PassTime
        <5>2. cooldown[request[r].phone] \in CooldownKey
          BY <1>1, <3>1, CooldownTyped
        <5> QED BY <3>4, <5>1, <5>2, Constants DEF CooldownKey
      <4> QED BY <1>5, <3>1, <3>4, <4>1 DEF Outlives
    <3> QED BY <3>3, <3>4, <1>5, <3>1
  <2>2. \A r \in Request : RequestWorks(r)' = RequestWorks(r)
    BY <1>5 DEF RequestWorks
  <2>3. \A p \in Phone : Robbed(p)' \subseteq Robbed(p)
    BY <1>5, <2>1, <2>2 DEF Robbed, WorkingOn
  <2>4. \A p \in Phone : Cardinality(Robbed(p)') <= lateDeletes'[p]
    BY <1>1, <2>3, RobbedNoMore
  <2> QED BY <2>1, <2>2, <2>4 DEF PhonesAreHeld
<1>9. sent' \subseteq RedisCommand /\ SentAreWell'
  BY <1>1, <1>7, SentKept
<1>10. ChallengesCount'
  BY <1>1, <1>3, <1>7, ChallengesKept
<1>11. CodesAreSpent'
  BY <1>1, <1>7, SpentKept DEF AccountsStay
<1>12. CodesAreCounted'
  <2>1. \A p \in Phone : challenge'[p].code \in {challenge[p].code, Nobody}
    BY <1>3, NoRows
  <2> QED BY <1>1, <2>1, CountedKept DEF VerifyWorks
<1>13. TextsAreCounted'
  <2>1. ASSUME NEW k \in Key PROVE Budget(k)'
    <3>1. /\ counter[k].n \in Nat /\ counter'[k].n \in Nat
          /\ counter'[k].left > 0 => counter[k].left > 0 /\ counter'[k].n = counter[k].n
      BY <1>1, <1>4, CounterTyped DEF CounterKey
    <3>2. Limit(k) \in Nat /\ Limit(k)' = Limit(k)
      BY <1>1, BudgetTyped DEF Limit
    <3>3. Credit(k)' \in Nat /\ Credit(k)' <= Credit(k)
      BY <3>1, <3>2 DEF Credit
    <3> QED BY <1>1, <1>7, <3>3, OwedNoMore, BudgetKept
  <2> QED BY <2>1 DEF TextsAreCounted
<1> QED BY <1>6, <1>8, <1>9, <1>10, <1>11, <1>12, <1>13 DEF IInv

LEMMA UnchangedIInv == IInv /\ UNCHANGED vars => IInv'
<1> SUFFICES ASSUME IInv, UNCHANGED vars PROVE IInv'
  OBVIOUS
<1>1. UNCHANGED <<redis, postgres, request, verify, seen, sent, late, faults>>
  BY DEF vars
<1>2. TypeOK'
  BY <1>1 DEF IInv, TypeOK, redis, postgres, seen, late
<1>3. StoredStay /\ PhonesAreHeld' /\ SentAreWell' /\ TextsAreCounted'
  BY <1>1, RequestsKept DEF redis, seen, late
<1>4. ChallengesCount' /\ CodesAreSpent' /\ CodesAreCounted'
  BY <1>1, <1>3, CodesKept DEF redis, seen, late
<1> QED BY <1>2, <1>3, <1>4 DEF IInv

LEMMA NextIInv == IInv /\ [Next]_vars => IInv'
<1> SUFFICES ASSUME IInv, [Next]_vars PROVE IInv'
  OBVIOUS
<1>1. CASE \E r \in Request, p \in Phone : CooldownActive(r, p) \/ \E i \in IP : AcquireCooldown(r, p, i)
  BY <1>1, CooldownActiveIInv, AcquireCooldownIInv
<1>2. CASE \E r \in Request : CountPhone(r) \/ CountIP(r) \/ StoreCode(r)
  BY <1>2, CountPhoneIInv, CountIPIInv, StoreCodeIInv
<1>3. CASE \E r \in Request : SendText(r) \/ ReleaseCooldown(r) \/ GiveUpRequest(r)
  BY <1>3, SendTextIInv, ReleaseCooldownIInv, GiveUpRequestIInv
<1>4. CASE \E v \in Verify, p \in Phone, code \in Request, consent \in BOOLEAN :
             CheckCode(v, p, code, consent)
  BY <1>4, CheckCodeIInv
<1>5. CASE \E v \in Verify : FindAccount(v) \/ CreateAccount(v) \/ LinkClients(v)
  BY <1>5, FindAccountIInv, CreateAccountIInv, LinkClientsIInv
<1>6. CASE \E v \in Verify : RecordConsent(v) \/ CreateSession(v) \/ GiveUpVerify(v)
  BY <1>6, RecordConsentIInv, CreateSessionIInv, GiveUpVerifyIInv
<1>7. CASE \E p \in Phone : BlockAccount(p)
  BY <1>7, BlockAccountIInv
<1>8. CASE PassTime
  BY <1>8, PassTimeIInv
<1>9. CASE \E c \in sent : RunsAgain(c)
  BY <1>9, RunsAgainIInv
<1>10. CASE UNCHANGED vars
  BY <1>10, UnchangedIInv
<1> QED BY <1>1, <1>2, <1>3, <1>4, <1>5, <1>6, <1>7, <1>8, <1>9, <1>10 DEF Next

LEMMA LoginIInv == Spec => []IInv
  BY InitIInv, NextIInv, PTL DEF Spec

\* A stored challenge of verifyOTPScript always has an attempt left: the one that would
\* use up the last is the one that deletes it.
THEOREM ChallengesHaveAttempts == Spec => []TypeOK
  BY LoginIInv, PTL DEF IInv

\* acquireCooldown's key outlives the request that set it.  A releaseCooldown that the
\* client sends again may delete another request's, and whoever is let in then may lose
\* its own to the release of the one before; but as many requests work on a phone
\* without their key as copies of a release have deleted one, and no more.
THEOREM OnlyRepeatedReleasesLetIn == Spec => []OnlyRepeatsLetIn
<1>1. IInv => OnlyRepeatsLetIn
  BY DEF IInv, PhonesAreHeld, Robbed, OnlyRepeatsLetIn
<1> QED BY <1>1, LoginIInv, PTL

\* verifyOTPScript compares a code with at most MaxAttempts guesses for each time it was
\* stored, however they interleave with each other, with resends, with repeated commands
\* and with the code's expiry.
THEOREM GuessesAreBounded == Spec => []GuessesBounded
<1>1. ASSUME IInv, NEW r \in Request PROVE tries[r] <= MaxAttempts * (1 + lateStores[r])
  <2>1. tries[r] <= Earlier(r) + MaxAttempts /\ lateStores[r] \in Nat
    BY <1>1 DEF IInv, ChallengesCount, TypeOK
  <2>2. Earlier(r) + MaxAttempts = MaxAttempts * (1 + lateStores[r])
    BY <2>1, Constants DEF Earlier
  <2> QED BY <2>1, <2>2
<1>2. IInv => GuessesBounded
  BY <1>1 DEF GuessesBounded
<1> QED BY <1>2, LoginIInv, PTL

\* VerifyOTP opens one session with a code for each time it was stored, of the phone it
\* was generated for, with an account and the consent it was to record, whatever fails
\* after the code is spent.
THEOREM CodesOpenOneSession == Spec => []OneLoginPerCode
<1>1. ASSUME IInv, NEW r \in Request
      PROVE  Cardinality({s \in sessions : s.code = r}) <= 1 + lateStores[r]
  <2>1. Cardinality(SessionsOf(r)) <= 1 + lateStores[r]
    BY <1>1, UsesTyped
  <2> QED BY <2>1 DEF SessionsOf
<1>2. IInv => OneLoginPerCode
  BY <1>1 DEF IInv, CodesAreSpent, SpentBySession, Stored, OneLoginPerCode
<1> QED BY <1>2, LoginIInv, PTL

\* checkRateLimit's texts: a phone and an address are never sent more of them than their
\* limit in each window, although the count and the sending are separate steps.
THEOREM TextsAreBounded == Spec => []TextsBounded
<1>1. ASSUME IInv, NEW k \in Key PROVE texts[k] <= Limit(k) * windows[k]
  <2>1. texts[k] + Cardinality(Owed(k)) + Credit(k) <= Limit(k) * windows[k]
    BY <1>1 DEF IInv, TextsAreCounted, Budget
  <2>2. /\ texts[k] \in Nat /\ Credit(k) \in Nat /\ Limit(k) * windows[k] \in Nat
        /\ Cardinality(Owed(k)) \in Nat
    BY <1>1, BudgetTyped, OwedFinite DEF IInv
  <2> QED BY <2>1, <2>2
<1>2. /\ \A p \in Phone : p \in Key /\ Limit(p) = MaxRequestsPerPhone
      /\ \A i \in IP : i \in Key /\ Limit(i) = MaxRequestsPerIP
  BY Constants DEF Limit
<1>3. ASSUME IInv, NEW p \in Phone PROVE texts[p] <= MaxRequestsPerPhone * windows[p]
  BY <1>1, <1>2, <1>3
<1>4. ASSUME IInv, NEW i \in IP PROVE texts[i] <= MaxRequestsPerIP * windows[i]
  BY <1>1, <1>2, <1>4
<1>5. IInv => TextsBounded
  BY <1>3, <1>4 DEF TextsBounded
<1> QED BY <1>5, LoginIInv, PTL
===============================================================================
