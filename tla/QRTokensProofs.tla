------------------------------ MODULE QRTokensProofs -----------------------------
(***************************************************************************)
(* The QR codes of any number of customers, tills, stores and tokens.      *)
(* What makes a claim safe, although the scripts never ask whose claim     *)
(* they delete, is a comparison of two timers: a claim outlives the call   *)
(* that made it by at least ClaimTTL - RequestTimeout.  What breaks it is  *)
(* a command that takes effect again, and each such copy is counted.       *)
(***************************************************************************)
EXTENDS QRTokens, FiniteSetTheorems, TLAPS

\* The claim of a call at work outlives the call, and it looks for the balance of a
\* row that is linked.
Held(k) ==
  LET t == till[k].token
  IN  /\ claim[t].by = k => claim[t].left + RequestTimeout >= till[k].left + ClaimTTL
      /\ till[k].phase \in {"balance", "finalize success"} => Row(k) = "linked"

ClaimsOutliveCalls == \A k \in Till : till[k].phase \in Holding => Held(k)

\* A call that has come names a token of an account, and a store.
CallsNameTokens ==
  \A k \in Till : till[k].phase # "idle" =>
    /\ till[k].token \in Token /\ till[k].token <= issued
    /\ till[k].store \in Store /\ owner[till[k].token] \in Account

\* A claim that is gone is nobody's, and a token not generated yet has no key.
KeysAreIssued ==
  \A t \in Token :
    /\ claim[t].left = 0 => claim[t].by = Nobody
    /\ issued < t => active[t] = 0 /\ claim[t].left = 0 /\ owner[t] = Nobody

\* Commands are about tokens generated, and tills claim.
SentAreWell ==
  \A c \in sent : c.token <= issued /\ (c.what = "claim" => c.by \in Till)

\* Whoever resolved a token has been answered, with a client that is linked.
ResolvedAreWell ==
  /\ IsFiniteSet(resolved)
  /\ \A r \in resolved :
       till[r.by].phase = "answered" /\ till[r.by].token = r.token /\ Row(r.by) = "linked"

\* Of those who work on a token one has its claim, as long as it cannot be claimed once
\* more, and the others have lost it to a copy of a command.
Kept(t) == IF active[t] = 0 /\ claim[t].by \in Holders(t) THEN 1 ELSE 0
Usable(t) == IF active[t] > 0 THEN 1 ELSE 0
Counts(t) ==
  /\ Cardinality(Holders(t)) <= Kept(t) + putBack[t] + dropped[t]
  /\ Cardinality(Answers(t)) + Cardinality(Holders(t)) + Usable(t) <= 1 + putBack[t]
UsesAreCounted == \A t \in Token : Counts(t)

IInv == /\ TypeOK /\ ClaimsOutliveCalls /\ CallsNameTokens /\ KeysAreIssued
        /\ SentAreWell /\ ResolvedAreWell /\ UsesAreCounted

-------------------------------------------------------------------------------
\* The records and their updates

LEMMA Constants ==
  /\ RequestTimeout \in Nat /\ ClaimTTL \in Nat /\ RequestTimeout > 0 /\ RequestTimeout < ClaimTTL
  /\ MaxTokens \in Nat /\ MaxFaults \in Nat /\ TTL \in Nat /\ TTL > 0
  /\ IssueCooldown \in Nat /\ ConsumeCooldown \in Nat
  /\ IsFiniteSet(Till) /\ Nobody \notin Till
  BY QRAssumption

LEMMA RowsTyped ==
  /\ NoCall \in TillCall /\ NoCall.phase = "idle" /\ NoCall.left = 0
  /\ NoClaim \in ClaimKey /\ NoClaim.left = 0 /\ NoClaim.by = Nobody
  BY Constants DEF NoCall, TillCall, TillPhase, NoClaim, ClaimKey

LEMMA TillTyped ==
  ASSUME TypeOK, NEW k \in Till
  PROVE  /\ till[k] \in TillCall /\ till[k].phase \in TillPhase /\ till[k].left \in 0..RequestTimeout
         /\ till[k].token \in 0..MaxTokens
  BY DEF TypeOK, TillCall

LEMMA ClaimTyped ==
  ASSUME TypeOK, NEW t \in Token
  PROVE  /\ claim[t] \in ClaimKey /\ claim[t].left \in 0..ClaimTTL
         /\ claim[t].by \in Till \cup {Nobody} /\ active[t] \in Nat
  BY DEF TypeOK, ClaimKey

\* Only call k has changed, and it works on the same token.
OneTill(k) ==
  /\ till' \in [Till -> TillCall]
  /\ till'[k].token = till[k].token /\ till'[k].store = till[k].store
  /\ till'[k].left <= till[k].left
  /\ \A j \in Till \ {k} : till'[j] = till[j]

LEMMA GoesFacts ==
  ASSUME TypeOK, NEW k \in Till, NEW phase \in TillPhase, Goes(k, phase) \/ Ends(k, phase)
  PROVE  OneTill(k) /\ till'[k].phase = phase /\ till'[k].left \in {0, till[k].left}
<1> DEFINE on  == [till[k] EXCEPT !.phase = phase]
           end == [till[k] EXCEPT !.phase = phase, !.left = 0]
<1>1. till[k] \in TillCall /\ till[k].left \in Nat /\ 0 \in 0..RequestTimeout
  BY TillTyped, Constants
<1>2. /\ on \in TillCall /\ on.phase = phase /\ on.store = till[k].store
      /\ on.token = till[k].token /\ on.left = till[k].left
  BY <1>1 DEF TillCall
<1>3. /\ end \in TillCall /\ end.phase = phase /\ end.store = till[k].store
      /\ end.token = till[k].token /\ end.left = 0
  BY <1>1 DEF TillCall
<1>4. till' = [till EXCEPT ![k] = on] \/ till' = [till EXCEPT ![k] = end]
  BY DEF Goes, Ends, TypeOK
<1>5. PICK new \in TillCall :
        /\ till' = [till EXCEPT ![k] = new] /\ new.phase = phase /\ new.store = till[k].store
        /\ new.token = till[k].token /\ new.left \in {0, till[k].left}
  BY <1>2, <1>3, <1>4
<1>6. /\ till' \in [Till -> TillCall] /\ till'[k] = new
      /\ \A j \in Till \ {k} : till'[j] = till[j]
  BY <1>5 DEF TypeOK
<1> HIDE DEF on, end
<1> QED BY <1>1, <1>5, <1>6 DEF OneTill

LEMMA FaultTyped ==
  ASSUME TypeOK, Fault \/ UNCHANGED faults
  PROVE  faults' \in 0..MaxFaults
<1>1. faults \in 0..MaxFaults /\ MaxFaults \in Nat
  BY Constants DEF TypeOK
<1> QED BY <1>1 DEF Fault

LEMMA OneTillFacts ==
  ASSUME TypeOK, NEW k \in Till, OneTill(k), NEW j \in Till
  PROVE  /\ till'[j].token = till[j].token /\ till'[j].store = till[j].store
         /\ till[j].left \in Nat /\ till'[j].left \in Nat /\ till'[j].left <= till[j].left
<1>1. till[j].left \in 0..RequestTimeout /\ till'[j].left \in 0..RequestTimeout
  <2>1. till'[j] \in TillCall /\ till[j] \in TillCall
    BY DEF OneTill, TypeOK
  <2> QED BY <2>1 DEF TillCall
<1>2. till[j].left \in Nat /\ till'[j].left \in Nat
  BY <1>1, Constants
<1> QED BY <1>2 DEF OneTill

\* Links are only added.
LinksStay ==
  /\ client' \in [Store -> [Account -> {"none", "unlinked", "linked"}]]
  /\ \A s \in Store, a \in Account : client[s][a] = "linked" => client'[s][a] = "linked"

\* What a token's keys may be
KeysTyped ==
  /\ active' \in [Token -> Nat] /\ claim' \in [Token -> ClaimKey]
  /\ \A t \in Token : active'[t] = 0 \/ claim'[t].left = 0 \/ putBack'[t] > 0

\* Only the keys of token t have changed.
OneToken(t) ==
  /\ active' \in [Token -> Nat] /\ claim' \in [Token -> ClaimKey]
  /\ claim'[t].left = 0 => claim'[t].by = Nobody
  /\ active'[t] = 0 \/ claim'[t].left = 0 \/ putBack'[t] > 0
  /\ \A u \in Token \ {t} : active'[u] = active[u] /\ claim'[u] = claim[u]

LEMMA HoldingFacts ==
  /\ Holding \subseteq TillPhase
  /\ "idle" \notin Holding /\ "claim" \notin Holding /\ "answered" \notin Holding
  /\ "refused" \notin Holding /\ "failed" \notin Holding /\ "lost" \notin Holding
  /\ TillPhase = Holding \cup {"idle", "claim", "answered", "refused", "failed", "lost"}
  BY DEF Holding, TillPhase, Statements

-------------------------------------------------------------------------------
\* Counting

LEMMA Shrinks ==
  ASSUME NEW S, NEW T, IsFiniteSet(T), S \subseteq T
  PROVE  /\ IsFiniteSet(S) /\ Cardinality(S) \in Nat /\ Cardinality(T) \in Nat
         /\ Cardinality(S) <= Cardinality(T)
<1>1. IsFiniteSet(S) /\ Cardinality(S) <= Cardinality(T)
  BY FS_Subset
<1> QED BY <1>1, FS_CardinalityType

LEMMA Gains ==
  ASSUME NEW S, NEW T, IsFiniteSet(T), NEW x, S \subseteq T \cup {x}
  PROVE  /\ IsFiniteSet(S) /\ Cardinality(S) \in Nat /\ Cardinality(T) \in Nat
         /\ Cardinality(S) <= Cardinality(T) + 1
<1>1. /\ IsFiniteSet(T \cup {x}) /\ Cardinality(T) \in Nat
      /\ Cardinality(T \cup {x}) = Cardinality(T) \/ Cardinality(T \cup {x}) = Cardinality(T) + 1
  BY FS_AddElement, FS_CardinalityType
<1>2. /\ IsFiniteSet(S) /\ Cardinality(S) \in Nat
      /\ Cardinality(S) <= Cardinality(T \cup {x})
  BY <1>1, Shrinks
<1> QED BY <1>1, <1>2

LEMMA Loses ==
  ASSUME NEW S, NEW T, IsFiniteSet(T), NEW x \in T, S \subseteq T \ {x}
  PROVE  /\ IsFiniteSet(S) /\ Cardinality(S) \in Nat /\ Cardinality(T) \in Nat
         /\ Cardinality(S) + 1 <= Cardinality(T)
<1>1. /\ IsFiniteSet(T \ {x}) /\ Cardinality(T) \in Nat
      /\ Cardinality(T \ {x}) = Cardinality(T) - 1
  BY FS_RemoveElement, FS_CardinalityType
<1>2. /\ IsFiniteSet(S) /\ Cardinality(S) \in Nat
      /\ Cardinality(S) <= Cardinality(T \ {x})
  BY <1>1, Shrinks
<1> QED BY <1>1, <1>2

LEMMA HoldersFinite ==
  ASSUME NEW t
  PROVE  IsFiniteSet(Holders(t)) /\ Cardinality(Holders(t)) \in Nat
<1>1. Holders(t) \subseteq Till
  BY DEF Holders
<1> QED BY <1>1, Constants, Shrinks

LEMMA AnswersFinite ==
  ASSUME IsFiniteSet(resolved), NEW t
  PROVE  IsFiniteSet(Answers(t)) /\ Cardinality(Answers(t)) \in Nat
<1>1. Answers(t) \subseteq resolved
  BY DEF Answers
<1> QED BY <1>1, Shrinks

LEMMA KeptTyped ==
  ASSUME NEW t
  PROVE  Kept(t) \in {0, 1} /\ Usable(t) \in {0, 1}
  BY DEF Kept, Usable

\* Who works on a token after a step of call k
LEMMA HoldersAfter ==
  ASSUME TypeOK, NEW k \in Till, OneTill(k), NEW t \in Token
  PROVE  /\ (till[k].phase \in Holding <=> till'[k].phase \in Holding) => Holders(t)' = Holders(t)
         /\ t # till[k].token => Holders(t)' = Holders(t)
         /\ t = till[k].token /\ till[k].phase \in Holding /\ till'[k].phase \notin Holding
              => k \in Holders(t) /\ Holders(t)' = Holders(t) \ {k}
         /\ t = till[k].token /\ till[k].phase \notin Holding /\ till'[k].phase \in Holding
              => k \notin Holders(t) /\ Holders(t)' = Holders(t) \cup {k}
<1>1. \A j \in Till : till'[j].token = till[j].token
  BY OneTillFacts
<1>2. \A j \in Till \ {k} : till'[j] = till[j]
  BY DEF OneTill
<1>3. Holders(t)' = {j \in Till : till'[j].phase \in Holding /\ till'[j].token = t}
  BY DEF Holders
<1>4. Holders(t) = {j \in Till : till[j].phase \in Holding /\ till[j].token = t}
  BY DEF Holders
<1>5. (till[k].phase \in Holding <=> till'[k].phase \in Holding) => Holders(t)' = Holders(t)
  BY <1>1, <1>2, <1>3, <1>4
<1>6. t # till[k].token => Holders(t)' = Holders(t)
  BY <1>1, <1>2, <1>3, <1>4
<1>7. t = till[k].token /\ till[k].phase \in Holding /\ till'[k].phase \notin Holding
        => k \in Holders(t) /\ Holders(t)' = Holders(t) \ {k}
  BY <1>1, <1>2, <1>3, <1>4
<1>8. t = till[k].token /\ till[k].phase \notin Holding /\ till'[k].phase \in Holding
        => k \notin Holders(t) /\ Holders(t)' = Holders(t) \cup {k}
  BY <1>1, <1>2, <1>3, <1>4
<1> QED BY <1>5, <1>6, <1>7, <1>8

\* The numbers Counts compares
LEMMA CountsTyped ==
  ASSUME IInv, NEW t \in Token
  PROVE  /\ IsFiniteSet(Holders(t)) /\ Cardinality(Holders(t)) \in Nat
         /\ IsFiniteSet(Answers(t)) /\ Cardinality(Answers(t)) \in Nat
         /\ Kept(t) \in {0, 1} /\ Usable(t) \in {0, 1}
         /\ putBack[t] \in Nat /\ dropped[t] \in Nat
         /\ Cardinality(Holders(t)) <= Kept(t) + putBack[t] + dropped[t]
         /\ Cardinality(Answers(t)) + Cardinality(Holders(t)) + Usable(t) <= 1 + putBack[t]
<1>1. /\ IsFiniteSet(Holders(t)) /\ Cardinality(Holders(t)) \in Nat
      /\ IsFiniteSet(Answers(t)) /\ Cardinality(Answers(t)) \in Nat
  BY HoldersFinite, AnswersFinite DEF IInv, ResolvedAreWell
<1>2. Kept(t) \in {0, 1} /\ Usable(t) \in {0, 1}
  BY KeptTyped
<1>3. putBack[t] \in Nat /\ dropped[t] \in Nat
  BY DEF IInv, TypeOK
<1>4. Counts(t)
  BY DEF IInv, UsesAreCounted
<1>5. /\ Cardinality(Holders(t)) <= Kept(t) + putBack[t] + dropped[t]
      /\ Cardinality(Answers(t)) + Cardinality(Holders(t)) + Usable(t) <= 1 + putBack[t]
  BY <1>4 DEF Counts
<1> QED BY <1>1, <1>2, <1>3, <1>5

\* A token nothing happened to, or whose keys ran out for anybody but who works on it
LEMMA CountsStay ==
  ASSUME IInv, NEW t \in Token, Holders(t)' = Holders(t), Answers(t)' = Answers(t),
         active[t] = 0 => active'[t] = 0, Kept(t)' = Kept(t) \/ Kept(t) = 0,
         UNCHANGED late
  PROVE  Counts(t)'
<1>1. Kept(t)' \in {0, 1} /\ Usable(t)' \in {0, 1}
  BY DEF Kept, Usable
<1>2. Usable(t)' <= Usable(t)
  <2>1. active[t] \in Nat
    BY ClaimTyped DEF IInv
  <2> QED BY <2>1 DEF Usable
<1>3. Cardinality(Holders(t))' = Cardinality(Holders(t)) /\ Cardinality(Answers(t))' = Cardinality(Answers(t))
  OBVIOUS
<1>4. putBack'[t] = putBack[t] /\ dropped'[t] = dropped[t]
  BY DEF late
<1>5. Cardinality(Holders(t)) <= Kept(t)' + putBack[t] + dropped[t]
  BY <1>1, CountsTyped
<1>6. Cardinality(Answers(t)) + Cardinality(Holders(t)) + Usable(t)' <= 1 + putBack[t]
  BY <1>1, <1>2, CountsTyped
<1> QED BY <1>3, <1>4, <1>5, <1>6 DEF Counts

\* Call k gives token t up: what it leaves is one use, an answer or a usable token.
LEMMA CountsLeave ==
  ASSUME IInv, NEW t \in Token, NEW k \in Holders(t), Holders(t)' = Holders(t) \ {k},
         Cardinality(Answers(t)') \in Nat,
         Cardinality(Answers(t)') + Usable(t)' <= Cardinality(Answers(t)) + Usable(t) + 1,
         UNCHANGED late
  PROVE  Counts(t)'
<1>1. Kept(t)' \in {0, 1} /\ Usable(t)' \in {0, 1}
  BY DEF Kept, Usable
<1>2. Cardinality(Holders(t)') \in Nat /\ Cardinality(Holders(t)') + 1 <= Cardinality(Holders(t))
  BY CountsTyped, Loses
<1>3. putBack'[t] = putBack[t] /\ dropped'[t] = dropped[t]
  BY DEF late
<1>4. Cardinality(Holders(t)') <= Kept(t)' + putBack[t] + dropped[t]
  BY <1>1, <1>2, CountsTyped
<1>5. Cardinality(Answers(t)') + Cardinality(Holders(t)') + Usable(t)' <= 1 + putBack[t]
  BY <1>1, <1>2, CountsTyped
<1>6. Cardinality(Holders(t))' = Cardinality(Holders(t)') /\ Cardinality(Answers(t))' = Cardinality(Answers(t)')
  OBVIOUS
<1> QED BY <1>3, <1>4, <1>5, <1>6 DEF Counts

\* Call k claims token t, or its reply is lost.
LEMMA CountsJoin ==
  ASSUME IInv, NEW t \in Token, NEW k \in Till, active[t] > 0, active'[t] = 0, claim'[t].by = k,
         Holders(t)' = Holders(t) \/ Holders(t)' = Holders(t) \cup {k},
         Answers(t)' = Answers(t), UNCHANGED late
  PROVE  Counts(t)'
<1>1. Usable(t) = 1 /\ Kept(t) = 0 /\ Usable(t)' = 0 /\ Kept(t)' \in {0, 1}
  <2>1. active[t] # 0
    <3>1. active[t] \in Nat
      BY ClaimTyped DEF IInv
    <3> QED BY <3>1
  <2>2. Usable(t) = 1 /\ Usable(t)' = 0
    BY DEF Usable
  <2>3. Kept(t) = 0 /\ Kept(t)' \in {0, 1}
    BY <2>1 DEF Kept
  <2> QED BY <2>2, <2>3
<1>2. putBack'[t] = putBack[t] /\ dropped'[t] = dropped[t]
  BY DEF late
<1>3. Cardinality(Holders(t))' = Cardinality(Holders(t)') /\ Cardinality(Answers(t))' = Cardinality(Answers(t))
  OBVIOUS
<1>4. CASE Holders(t)' = Holders(t)
  <2>1. /\ Cardinality(Holders(t)) <= Kept(t)' + putBack[t] + dropped[t]
        /\ Cardinality(Answers(t)) + Cardinality(Holders(t)) + Usable(t)' <= 1 + putBack[t]
    BY <1>1, CountsTyped
  <2> QED BY <1>2, <1>3, <1>4, <2>1 DEF Counts
<1>5. CASE Holders(t)' = Holders(t) \cup {k}
  <2>1. Cardinality(Holders(t)') \in Nat /\ Cardinality(Holders(t)') <= Cardinality(Holders(t)) + 1
    BY <1>5, CountsTyped, Gains
  <2>2. Kept(t)' = 1
    BY <1>5 DEF Kept
  <2>3. Cardinality(Holders(t)') <= Kept(t)' + putBack[t] + dropped[t]
    BY <1>1, <2>1, <2>2, CountsTyped
  <2>4. Cardinality(Answers(t)) + Cardinality(Holders(t)') + Usable(t)' <= 1 + putBack[t]
    BY <1>1, <2>1, CountsTyped
  <2> QED BY <1>2, <1>3, <2>3, <2>4 DEF Counts
<1> QED BY <1>4, <1>5

\* A copy that puts a token back is counted, unless the token was usable anyway.
LEMMA CountsPutBack ==
  ASSUME IInv, NEW t \in Token, Holders(t)' = Holders(t), Answers(t)' = Answers(t),
         \/ active[t] = 0 /\ putBack'[t] = putBack[t] + 1
         \/ active[t] > 0 /\ putBack'[t] = putBack[t],
         UNCHANGED dropped
  PROVE  Counts(t)'
<1>1. Kept(t)' \in {0, 1} /\ Usable(t)' \in {0, 1}
  BY DEF Kept, Usable
<1>2. Cardinality(Holders(t))' = Cardinality(Holders(t)) /\ Cardinality(Answers(t))' = Cardinality(Answers(t))
  OBVIOUS
<1>3. CASE active[t] = 0 /\ putBack'[t] = putBack[t] + 1
  <2>1. /\ Cardinality(Holders(t)) <= Kept(t)' + putBack'[t] + dropped[t]
        /\ Cardinality(Answers(t)) + Cardinality(Holders(t)) + Usable(t)' <= 1 + putBack'[t]
    BY <1>1, <1>3, CountsTyped
  <2> QED BY <1>2, <2>1 DEF Counts
<1>4. CASE active[t] > 0 /\ putBack'[t] = putBack[t]
  <2>1. Usable(t) = 1 /\ Kept(t) = 0
    BY <1>4 DEF Usable, Kept
  <2>2. /\ Cardinality(Holders(t)) <= Kept(t)' + putBack'[t] + dropped[t]
        /\ Cardinality(Answers(t)) + Cardinality(Holders(t)) + Usable(t)' <= 1 + putBack'[t]
    BY <1>1, <1>4, <2>1, CountsTyped
  <2> QED BY <1>2, <2>2 DEF Counts
<1> QED BY <1>3, <1>4

\* A copy that deletes a claim is counted.
LEMMA CountsDrop ==
  ASSUME IInv, NEW t \in Token, Holders(t)' = Holders(t), Answers(t)' = Answers(t),
         UNCHANGED <<active, putBack>>, dropped'[t] = dropped[t] + 1
  PROVE  Counts(t)'
<1>1. Kept(t)' \in {0, 1} /\ Usable(t)' = Usable(t)
  BY DEF Kept, Usable
<1>2. Cardinality(Holders(t))' = Cardinality(Holders(t)) /\ Cardinality(Answers(t))' = Cardinality(Answers(t))
  OBVIOUS
<1>3. /\ Cardinality(Holders(t)) <= Kept(t)' + putBack[t] + dropped'[t]
      /\ Cardinality(Answers(t)) + Cardinality(Holders(t)) + Usable(t)' <= 1 + putBack[t]
  BY <1>1, CountsTyped
<1> QED BY <1>2, <1>3 DEF Counts

-------------------------------------------------------------------------------
LEMMA InitIInv == Init => IInv
<1> SUFFICES ASSUME Init PROVE IInv
  OBVIOUS
<1>1. \A k \in Till : till[k] = NoCall /\ till[k].phase = "idle"
  BY RowsTyped DEF Init
<1>2. \A t \in Token : active[t] = 0 /\ claim[t].left = 0 /\ claim[t].by = Nobody /\ owner[t] = Nobody
  BY RowsTyped DEF Init
<1>3. TypeOK
  <2>1. /\ active \in [Token -> Nat] /\ claim \in [Token -> ClaimKey]
        /\ till \in [Till -> TillCall] /\ owner \in [Token -> Account \cup {Nobody}]
        /\ \A t \in Token : active[t] = 0 \/ claim[t].left = 0 \/ putBack[t] > 0
    BY RowsTyped, <1>2 DEF Init
  <2>2. /\ issuing \in [Account -> 0..IssueCooldown] /\ consuming \in [Principal -> 0..ConsumeCooldown]
        /\ account \in [Account -> {"active", "blocked"}]
        /\ client \in [Store -> [Account -> {"none", "unlinked", "linked"}]]
        /\ resolved \subseteq [token: Token, by: Till] /\ sent \subseteq RedisCommand
        /\ putBack \in [Token -> Nat] /\ dropped \in [Token -> Nat]
        /\ issued \in 0..MaxTokens /\ faults \in 0..MaxFaults
    BY Constants DEF Init
  <2>3. customer \in [Customer -> CustomerCall]
    BY DEF Init, CustomerCall
  <2> QED BY <2>1, <2>2, <2>3 DEF TypeOK
<1>4. ResolvedAreWell /\ SentAreWell
  BY FS_EmptySet DEF Init, ResolvedAreWell, SentAreWell
<1>5. ClaimsOutliveCalls /\ CallsNameTokens /\ KeysAreIssued
  BY <1>1, <1>2, HoldingFacts DEF ClaimsOutliveCalls, CallsNameTokens, KeysAreIssued
<1>6. UsesAreCounted
  <2> SUFFICES ASSUME NEW t \in Token PROVE Counts(t)
    BY DEF UsesAreCounted
  <2>1. Holders(t) = {} /\ Answers(t) = {}
    BY <1>1, HoldingFacts DEF Holders, Answers, Init
  <2>2. Kept(t) \in {0, 1} /\ Usable(t) \in {0, 1} /\ putBack[t] = 0 /\ dropped[t] = 0
    BY KeptTyped DEF Init
  <2>3. Cardinality(Holders(t)) = 0 /\ Cardinality(Answers(t)) = 0
    BY <2>1, FS_EmptySet
  <2> QED BY <2>2, <2>3 DEF Counts
<1> QED BY <1>3, <1>4, <1>5, <1>6 DEF IInv

-------------------------------------------------------------------------------
\* What a step of a resolving call keeps

\* A call under way goes on holding its claim only if it did before, and looks for the
\* balance only when the row is linked.
Continues(k) ==
  /\ till[k].phase \notin {"idle", "answered"}
  /\ till'[k].phase \in Holding =>
       /\ till[k].phase \in Holding
       /\ till'[k].phase \in {"balance", "finalize success"} => Row(k)' = "linked"

\* What may be under way is about a token the call names.
LEMMA SentAfter ==
  ASSUME IInv, NEW k \in Till, till[k].phase # "idle", issued' = issued,
         sent' = sent \/ \E what \in {"claim", "release", "finalize"} : Sends(k, what, till[k].token)
  PROVE  SentAreWell' /\ sent' \subseteq RedisCommand
<1>1. till[k].token \in Token /\ till[k].token <= issued
  BY DEF IInv, CallsNameTokens
<1>2. sent \subseteq RedisCommand /\ \A c \in sent : c.token <= issued /\ (c.what = "claim" => c.by \in Till)
  BY DEF IInv, TypeOK, SentAreWell
<1>3. CASE sent' = sent
  BY <1>2, <1>3 DEF SentAreWell
<1>4. ASSUME NEW what \in {"claim", "release", "finalize"}, Sends(k, what, till[k].token)
      PROVE  SentAreWell' /\ sent' \subseteq RedisCommand
  <2> DEFINE c == [what |-> what, token |-> till[k].token, by |-> k]
  <2>1. c \in RedisCommand /\ c.token = till[k].token /\ c.by = k
    BY <1>1 DEF RedisCommand
  <2>2. sent' = sent \cup {c}
    BY <1>4 DEF Sends
  <2> HIDE DEF c
  <2>3. sent' \subseteq RedisCommand
    BY <1>2, <2>1, <2>2
  <2>4. \A d \in sent' : d.token <= issued /\ (d.what = "claim" => d.by \in Till)
    BY <1>1, <1>2, <2>1, <2>2
  <2> QED BY <2>3, <2>4 DEF SentAreWell
<1> QED BY <1>3, <1>4

\* The rows of calls that have come stay linked.
LEMMA RowsStay ==
  ASSUME IInv, LinksStay, NEW k \in Till, till[k].phase # "idle", Row(k) = "linked",
         till'[k].token = till[k].token, till'[k].store = till[k].store, UNCHANGED owner
  PROVE  Row(k)' = "linked"
<1>1. till[k].store \in Store /\ owner[till[k].token] \in Account
  BY DEF IInv, CallsNameTokens
<1> QED BY <1>1 DEF LinksStay, Row

\* A call that moves on, or ends without touching a key, while links are only added
LEMMA CallMoves ==
  ASSUME IInv, NEW k \in Till, OneTill(k), LinksStay,
         UNCHANGED <<active, claim, owner, resolved, issued, late>>, Continues(k)
  PROVE  ClaimsOutliveCalls' /\ CallsNameTokens' /\ KeysAreIssued' /\ ResolvedAreWell' /\ UsesAreCounted'
<1>1. CallsNameTokens'
  BY OneTillFacts DEF IInv, CallsNameTokens, OneTill, Continues
<1>2. \A j \in Till : till[j].phase # "idle" /\ Row(j) = "linked" => Row(j)' = "linked"
  BY OneTillFacts, RowsStay DEF IInv
<1>3. \A j \in Till : till'[j].phase \in Holding => till[j].phase \in Holding
  BY DEF OneTill, Continues
<1>4. ClaimsOutliveCalls'
  <2> SUFFICES ASSUME NEW j \in Till, till'[j].phase \in Holding PROVE Held(j)'
    BY DEF ClaimsOutliveCalls
  <2>1. Held(j) /\ till[j].phase \in Holding
    BY <1>3 DEF IInv, ClaimsOutliveCalls
  <2>2. till[j].phase # "idle" /\ till[j].token \in Token
    BY <2>1, HoldingFacts DEF IInv, CallsNameTokens
  <2>3. /\ till[j].left \in Nat /\ till'[j].left \in Nat /\ till'[j].left <= till[j].left
        /\ till'[j].token = till[j].token
    BY OneTillFacts DEF IInv
  <2>4. claim[till[j].token].left \in Nat
    <3>1. claim[till[j].token].left \in 0..ClaimTTL
      BY <2>2, ClaimTyped DEF IInv
    <3> QED BY <3>1, Constants
  <2>5. till'[j].phase \in {"balance", "finalize success"} => Row(j)' = "linked"
    BY <1>2, <2>1, <2>2 DEF Held, OneTill, Continues
  <2>6. claim[till[j].token].by = j
          => claim[till[j].token].left + RequestTimeout >= till'[j].left + ClaimTTL
    <3>1. claim[till[j].token].by = j
            => claim[till[j].token].left + RequestTimeout >= till[j].left + ClaimTTL
      BY <2>1 DEF Held
    <3> QED BY <2>3, <2>4, <3>1, Constants
  <2> QED BY <2>3, <2>5, <2>6 DEF Held
<1>5. ResolvedAreWell'
  <2>1. \A r \in resolved : /\ r.by \in Till /\ r.by # k /\ till[r.by].phase = "answered"
                            /\ till[r.by].token = r.token /\ Row(r.by) = "linked"
    BY DEF IInv, TypeOK, ResolvedAreWell, Continues
  <2>2. \A r \in resolved : till'[r.by] = till[r.by] /\ Row(r.by)' = "linked"
    BY <1>2, <2>1 DEF OneTill
  <2> QED BY <2>1, <2>2 DEF ResolvedAreWell, IInv
<1>6. KeysAreIssued'
  BY DEF IInv, KeysAreIssued
<1>7. UsesAreCounted'
  <2> SUFFICES ASSUME NEW t \in Token PROVE Counts(t)'
    BY DEF UsesAreCounted
  <2>1. TypeOK /\ Answers(t)' = Answers(t) /\ Usable(t)' = Usable(t)
    BY DEF IInv, Answers, Usable
  <2>2. CASE Holders(t)' = Holders(t)
    <3>1. Kept(t)' = Kept(t)
      BY <2>2 DEF Kept
    <3> QED BY <2>1, <2>2, <3>1, CountsStay
  <2>3. CASE Holders(t)' # Holders(t)
    <3>1. till[k].phase \in Holding /\ till'[k].phase \notin Holding /\ t = till[k].token
      BY <1>3, <2>1, <2>3, HoldersAfter
    <3>2. k \in Holders(t) /\ Holders(t)' = Holders(t) \ {k}
      BY <2>1, <3>1, HoldersAfter
    <3>3. Cardinality(Answers(t)') = Cardinality(Answers(t))
      BY <2>1
    <3>4. Cardinality(Answers(t)) \in Nat /\ Usable(t) \in {0, 1}
      BY CountsTyped
    <3>5. Cardinality(Answers(t)') + Usable(t)' <= Cardinality(Answers(t)) + Usable(t) + 1
      BY <2>1, <3>3, <3>4
    <3> QED BY <3>2, <3>3, <3>4, <3>5, CountsLeave
  <2> QED BY <2>2, <2>3
<1> QED BY <1>1, <1>4, <1>5, <1>6, <1>7

\* What happens to token t's keys and to call k leaves the other calls and tokens alone:
\* a call that works on the same token either keeps its claim or has none.
LEMMA OthersKeep ==
  ASSUME IInv, NEW k \in Till, NEW t \in Token, t = till[k].token, OneTill(k), OneToken(t),
         UNCHANGED <<owner, client, issued, late>>, till[k].phase \notin {"idle", "answered"},
         till'[k].phase # "idle", claim'[t] = claim[t] \/ claim'[t].by \in {k, Nobody},
         \A u \in Token \ {t} : Answers(u)' = Answers(u)
  PROVE  /\ \A j \in Till \ {k} : till'[j].phase \in Holding => Held(j)'
         /\ CallsNameTokens' /\ KeysAreIssued'
         /\ \A r \in resolved : /\ r.by # k /\ till'[r.by].phase = "answered"
                                /\ till'[r.by].token = r.token /\ Row(r.by)' = "linked"
         /\ \A u \in Token \ {t} : Counts(u)'
<1>1. t <= issued /\ TypeOK
  BY DEF IInv, CallsNameTokens
<1>2. \A j \in Till \ {k} : till'[j].phase \in Holding => Held(j)'
  <2> SUFFICES ASSUME NEW j \in Till \ {k}, till'[j].phase \in Holding PROVE Held(j)'
    OBVIOUS
  <2>1. till'[j] = till[j] /\ till[j].phase \in Holding /\ Held(j)
    BY DEF OneTill, IInv, ClaimsOutliveCalls
  <2>2. till[j].token \in Token
    BY <2>1, HoldingFacts DEF IInv, CallsNameTokens
  <2>3. claim'[till[j].token] = claim[till[j].token] \/ claim'[till[j].token].by # j
    <3>1. CASE till[j].token = t
      BY <3>1, Constants
    <3>2. CASE till[j].token # t
      BY <2>2, <3>2 DEF OneToken
    <3> QED BY <3>1, <3>2
  <2>4. Row(j)' = Row(j)
    BY <2>1 DEF Row
  <2> QED BY <2>1, <2>3, <2>4 DEF Held
<1>3. CallsNameTokens'
  BY DEF IInv, CallsNameTokens, OneTill
<1>4. KeysAreIssued'
  <2>1. issued \in Nat /\ t \in Nat
    BY <1>1, Constants DEF TypeOK, Token
  <2>2. ~(issued < t)
    BY <1>1, <2>1
  <2> QED BY <2>2 DEF IInv, KeysAreIssued, OneToken
<1>5. \A r \in resolved : /\ r.by # k /\ till'[r.by].phase = "answered"
                          /\ till'[r.by].token = r.token /\ Row(r.by)' = "linked"
  <2> SUFFICES ASSUME NEW r \in resolved
               PROVE  /\ r.by # k /\ till'[r.by].phase = "answered"
                      /\ till'[r.by].token = r.token /\ Row(r.by)' = "linked"
    OBVIOUS
  <2>1. /\ r.by \in Till /\ till[r.by].phase = "answered" /\ till[r.by].token = r.token
        /\ Row(r.by) = "linked"
    BY DEF IInv, TypeOK, ResolvedAreWell
  <2>2. r.by # k /\ till'[r.by] = till[r.by]
    BY <2>1 DEF OneTill
  <2>3. Row(r.by)' = Row(r.by)
    BY <2>2 DEF Row
  <2> QED BY <2>1, <2>2, <2>3
<1>6. \A u \in Token \ {t} : Counts(u)'
  <2> SUFFICES ASSUME NEW u \in Token, u # t PROVE Counts(u)'
    OBVIOUS
  <2>1. Holders(u)' = Holders(u)
    BY <1>1, HoldersAfter
  <2>2. active'[u] = active[u] /\ claim'[u] = claim[u]
    BY DEF OneToken
  <2>3. Kept(u)' = Kept(u)
    BY <2>1, <2>2 DEF Kept
  <2> QED BY <2>1, <2>2, <2>3, CountsStay
<1> QED BY <1>2, <1>3, <1>4, <1>5, <1>6

\* The script that claims an active token
LEMMA TakesClaim ==
  ASSUME IInv, NEW k \in Till, till[k].phase = "claim", active[till[k].token] > 0,
         MoveToClaim(k, till[k].token), OneTill(k),
         UNCHANGED <<owner, client, resolved, issued, late>>, till'[k].phase \in {"account", "lost"}
  PROVE  /\ OneToken(till[k].token)
         /\ ClaimsOutliveCalls' /\ CallsNameTokens' /\ KeysAreIssued' /\ ResolvedAreWell' /\ UsesAreCounted'
<1>1. till[k].token \in Token /\ TypeOK
  BY DEF IInv, CallsNameTokens
<1>0. PICK t \in Token : t = till[k].token
  BY <1>1
<1>2. [left |-> ClaimTTL, by |-> k] \in ClaimKey
  BY Constants DEF ClaimKey
<1>3. /\ claim'[t].left = ClaimTTL /\ claim'[t].by = k /\ active'[t] = 0
      /\ active' \in [Token -> Nat] /\ claim' \in [Token -> ClaimKey]
      /\ \A u \in Token \ {t} : active'[u] = active[u] /\ claim'[u] = claim[u]
  BY <1>1, <1>0, <1>2 DEF MoveToClaim, TypeOK
<1>4. OneToken(t)
  BY <1>3, Constants DEF OneToken
<1>5. \A u \in Token : Answers(u)' = Answers(u)
  BY DEF Answers
<1>6. till[k].phase \notin {"idle", "answered"} \cup Holding /\ till'[k].phase # "idle"
  BY HoldingFacts
<1>7. /\ \A j \in Till \ {k} : till'[j].phase \in Holding => Held(j)'
      /\ CallsNameTokens' /\ KeysAreIssued'
      /\ \A r \in resolved : /\ r.by # k /\ till'[r.by].phase = "answered"
                             /\ till'[r.by].token = r.token /\ Row(r.by)' = "linked"
      /\ \A u \in Token \ {t} : Counts(u)'
  BY <1>0, <1>3, <1>4, <1>5, <1>6, OthersKeep
<1>8. Held(k)'
  <2>1. till'[k].left \in 0..RequestTimeout /\ till'[k].token = t
    BY <1>0 DEF OneTill, TillCall
  <2>2. claim'[t].left + RequestTimeout >= till'[k].left + ClaimTTL
    BY <1>3, <2>1, Constants
  <2> QED BY <2>1, <2>2 DEF Held
<1>9. ResolvedAreWell'
  BY <1>7 DEF IInv, ResolvedAreWell
<1>10. Counts(t)'
  <2>1. Holders(t)' = Holders(t) \/ Holders(t)' = Holders(t) \cup {k}
    BY <1>1, <1>0, <1>6, HoldersAfter
  <2>2. active[t] > 0 /\ active'[t] = 0 /\ claim'[t].by = k /\ Answers(t)' = Answers(t)
    BY <1>0, <1>3, <1>5
  <2> QED BY <2>1, <2>2, CountsJoin
<1>11. UsesAreCounted'
  BY <1>7, <1>10 DEF UsesAreCounted
<1>12. ClaimsOutliveCalls'
  BY <1>7, <1>8 DEF ClaimsOutliveCalls
<1> QED BY <1>0, <1>4, <1>7, <1>9, <1>11, <1>12

\* A step either answers or changes the keys, so it leaves one use more at most.
LEMMA OneUse ==
  ASSUME IInv, NEW t \in Token, NEW s,
         Answers(t)' = Answers(t) \/ (Answers(t)' = Answers(t) \cup {s} /\ UNCHANGED active)
  PROVE  /\ Cardinality(Answers(t)') \in Nat
         /\ Cardinality(Answers(t)') + Usable(t)' <= Cardinality(Answers(t)) + Usable(t) + 1
<1>1. Usable(t) \in {0, 1} /\ Usable(t)' \in {0, 1}
  BY DEF Usable
<1>2. IsFiniteSet(Answers(t)) /\ Cardinality(Answers(t)) \in Nat
  BY CountsTyped
<1>3. CASE Answers(t)' = Answers(t)
  <2>1. Cardinality(Answers(t)') = Cardinality(Answers(t))
    BY <1>3
  <2> QED BY <1>1, <1>2, <2>1
<1>4. CASE Answers(t)' = Answers(t) \cup {s} /\ UNCHANGED active
  <2>1. /\ Cardinality(Answers(t)') \in Nat
        /\ Cardinality(Answers(t)') <= Cardinality(Answers(t)) + 1
    BY <1>2, <1>4, Gains
  <2>2. Usable(t)' = Usable(t)
    BY <1>4 DEF Usable
  <2> QED BY <1>1, <1>2, <2>1, <2>2
<1> QED BY <1>3, <1>4

\* A call that gives up the token it works on, whatever it leaves in the token's keys:
\* an answer, or a token that can be claimed once more, not both
LEMMA GivesUp ==
  ASSUME IInv, NEW k \in Till, till[k].phase \in Holding, OneTill(k), OneToken(till[k].token),
         UNCHANGED <<owner, client, issued, late>>, UNCHANGED claim \/ claim'[till[k].token].by = Nobody,
         till'[k].phase \in {"refused", "failed", "lost", "answered"},
         \/ resolved' = resolved
         \/ /\ till[k].phase = "finalize success" /\ till'[k].phase = "answered"
            /\ resolved' = resolved \cup {[token |-> till[k].token, by |-> k]}
            /\ UNCHANGED active
  PROVE  ClaimsOutliveCalls' /\ CallsNameTokens' /\ KeysAreIssued' /\ ResolvedAreWell' /\ UsesAreCounted'
<1>1. /\ till[k].phase \notin {"idle", "answered"} /\ till'[k].phase \notin Holding \cup {"idle"}
      /\ TypeOK /\ till[k].token \in Token
  BY HoldingFacts DEF IInv, CallsNameTokens
<1>0. PICK t \in Token : t = till[k].token
  BY <1>1
<1> DEFINE s == [token |-> t, by |-> k]
<1>2. s.token = t /\ s.by = k
  OBVIOUS
<1>3. \/ resolved' = resolved
      \/ /\ till[k].phase = "finalize success" /\ till'[k].phase = "answered"
         /\ resolved' = resolved \cup {s} /\ UNCHANGED active
  BY <1>0
<1> HIDE DEF s
<1>4. \A u \in Token \ {t} : Answers(u)' = Answers(u)
  BY <1>2, <1>3 DEF Answers
<1>5. Answers(t)' = Answers(t) \/ (Answers(t)' = Answers(t) \cup {s} /\ UNCHANGED active)
  BY <1>2, <1>3 DEF Answers
<1>6. OneToken(t) /\ (claim'[t] = claim[t] \/ claim'[t].by \in {k, Nobody})
  BY <1>0
<1>7. /\ \A j \in Till \ {k} : till'[j].phase \in Holding => Held(j)'
      /\ CallsNameTokens' /\ KeysAreIssued'
      /\ \A r \in resolved : /\ r.by # k /\ till'[r.by].phase = "answered"
                             /\ till'[r.by].token = r.token /\ Row(r.by)' = "linked"
      /\ \A u \in Token \ {t} : Counts(u)'
  BY <1>0, <1>1, <1>4, <1>6, OthersKeep
<1>8. ClaimsOutliveCalls'
  BY <1>1, <1>7 DEF ClaimsOutliveCalls
<1>9. ResolvedAreWell'
  <2>1. CASE resolved' = resolved
    BY <1>7, <2>1 DEF IInv, ResolvedAreWell
  <2>2. CASE resolved' = resolved \cup {s} /\ till[k].phase = "finalize success"
             /\ till'[k].phase = "answered"
    <3>1. IsFiniteSet(resolved')
      BY <2>2, FS_AddElement DEF IInv, ResolvedAreWell
    <3>2. till'[k].token = t /\ Row(k)' = "linked"
      <4>1. Row(k) = "linked"
        BY <2>2 DEF IInv, ClaimsOutliveCalls, Held
      <4> QED BY <1>0, <4>1 DEF OneTill, Row
    <3>3. \A r \in resolved' :
            till'[r.by].phase = "answered" /\ till'[r.by].token = r.token /\ Row(r.by)' = "linked"
      BY <1>2, <1>7, <2>2, <3>2
    <3> QED BY <3>1, <3>3 DEF ResolvedAreWell
  <2> QED BY <1>3, <2>1, <2>2
<1>10. Counts(t)'
  <2>1. k \in Holders(t) /\ Holders(t)' = Holders(t) \ {k}
    BY <1>0, <1>1, HoldersAfter
  <2>2. /\ Cardinality(Answers(t)') \in Nat
        /\ Cardinality(Answers(t)') + Usable(t)' <= Cardinality(Answers(t)) + Usable(t) + 1
    BY <1>5, OneUse
  <2> QED BY <2>1, <2>2, CountsLeave
<1>11. UsesAreCounted'
  BY <1>7, <1>10 DEF UsesAreCounted
<1> QED BY <1>7, <1>8, <1>9, <1>11

-------------------------------------------------------------------------------
\* The actions of a resolving call

LEMMA NoChange ==
  ASSUME TypeOK
  PROVE  /\ UNCHANGED client => LinksStay
         /\ UNCHANGED <<active, claim, putBack>> => KeysTyped
  BY DEF TypeOK, LinksStay, KeysTyped

\* Statements write rows of the call's own store and account.
LEMMA RowWritten ==
  ASSUME IInv, NEW k \in Till, till[k].phase # "idle", NEW value \in {"unlinked", "linked"},
         WriteRow(k, value), Row(k) # "linked" \/ value = "linked"
  PROVE  /\ LinksStay
         /\ client'[till[k].store][owner[till[k].token]] = value
<1>1. till[k].store \in Store /\ owner[till[k].token] \in Account
  BY DEF IInv, CallsNameTokens
<1> DEFINE s == till[k].store
           a == owner[till[k].token]
<1>2. client \in [Store -> [Account -> {"none", "unlinked", "linked"}]]
  BY DEF IInv, TypeOK
<1>3. client' = [client EXCEPT ![s] = [client[s] EXCEPT ![a] = value]]
  BY <1>1, <1>2 DEF WriteRow
<1>4. client' \in [Store -> [Account -> {"none", "unlinked", "linked"}]] /\ client'[s][a] = value
      /\ \A x \in Store, y \in Account : x # s \/ y # a => client'[x][y] = client[x][y]
  BY <1>1, <1>2, <1>3
<1>5. client[s][a] = "linked" => value = "linked"
  BY DEF Row
<1> QED BY <1>1, <1>2, <1>4, <1>5 DEF LinksStay

LEMMA TillTypeOK ==
  ASSUME TypeOK, NEW k \in Till, OneTill(k), LinksStay, KeysTyped,
         UNCHANGED <<owner, issuing, consuming, account, customer, issued, late>>,
         resolved' \subseteq [token: Token, by: Till], sent' \subseteq RedisCommand,
         faults' \in 0..MaxFaults
  PROVE  TypeOK'
<1>1. UNCHANGED <<putBack, dropped>>
  BY DEF late
<1> QED BY <1>1 DEF TypeOK, OneTill, LinksStay, KeysTyped

LEMMA MovesIInv ==
  ASSUME IInv, NEW k \in Till, OneTill(k), LinksStay, Continues(k),
         UNCHANGED <<keys, account, customer, resolved, issued, late>>, Fault \/ UNCHANGED faults,
         SentAreWell', sent' \subseteq RedisCommand
  PROVE  IInv'
<1>1. UNCHANGED <<active, claim, owner, issuing, consuming, putBack, dropped>> /\ TypeOK
  BY DEF keys, late, IInv
<1>2. KeysTyped
  BY <1>1, NoChange
<1>3. resolved' \subseteq [token: Token, by: Till]
  BY <1>1 DEF TypeOK
<1>4. TypeOK'
  BY <1>1, <1>2, <1>3, FaultTyped, TillTypeOK
<1>5. ClaimsOutliveCalls' /\ CallsNameTokens' /\ KeysAreIssued' /\ ResolvedAreWell' /\ UsesAreCounted'
  BY <1>1, CallMoves
<1> QED BY <1>4, <1>5 DEF IInv

\* The statements and decisions that look at rows and write none
LEMMA ReadsIInv ==
  ASSUME IInv, NEW k \in Till,
         LoadAccount(k) \/ ListClients(k) \/ FindByPhone(k) \/ LoadBalance(k)
  PROVE  IInv'
<1>1. TypeOK /\ UNCHANGED <<keys, table, customer, resolved, issued, sent, late, faults>>
      /\ till[k].phase \in {"account", "list", "phone", "balance"}
  BY DEF IInv, LoadAccount, ListClients, FindByPhone, LoadBalance, InTime
<1>2. PICK phase \in {"list", "finalize", "balance", "phone", "create", "link", "finalize success"} :
        /\ Goes(k, phase)
        /\ phase = "balance" => Row(k) = "linked"
        /\ phase = "finalize success" => till[k].phase = "balance"
  <2>1. CASE LoadAccount(k)
    BY <2>1 DEF LoadAccount
  <2>2. CASE ListClients(k)
    BY <2>2 DEF ListClients
  <2>3. CASE FindByPhone(k)
    BY <2>3 DEF FindByPhone
  <2>4. CASE LoadBalance(k)
    BY <2>4 DEF LoadBalance, InTime
  <2> QED BY <2>1, <2>2, <2>3, <2>4
<1>3. phase \in TillPhase /\ till[k].phase \in Holding
  BY <1>1 DEF TillPhase, Holding, Statements
<1>4. OneTill(k) /\ till'[k].phase = phase
  BY <1>1, <1>2, <1>3, GoesFacts
<1>5. UNCHANGED <<client, account>> /\ LinksStay
  BY <1>1, NoChange DEF table
<1>6. phase \in {"balance", "finalize success"} => Row(k) = "linked"
  BY <1>2, <1>3 DEF IInv, ClaimsOutliveCalls, Held
<1>7. Row(k)' = Row(k)
  BY <1>1, <1>4, <1>5 DEF Row, OneTill, keys
<1>8. Continues(k)
  BY <1>1, <1>3, <1>4, <1>6, <1>7 DEF Continues
<1>9. SentAreWell' /\ sent' \subseteq RedisCommand
  BY <1>1, SentAfter
<1> QED BY <1>1, <1>4, <1>5, <1>8, <1>9, MovesIInv

\* The statements that write the row, and the failure of any statement
LEMMA WritesIInv ==
  ASSUME IInv, NEW k \in Till, CreateClient(k) \/ LinkClient(k) \/ StatementFails(k)
  PROVE  IInv'
<1>1. TypeOK /\ UNCHANGED <<keys, account, customer, resolved, issued, sent, late>>
      /\ till[k].phase \in Statements /\ (Fault \/ UNCHANGED faults)
  BY DEF IInv, CreateClient, LinkClient, StatementFails, InTime, Statements
<1>2. PICK phase \in {"link", "phone", "balance", "release"} : Goes(k, phase)
  BY DEF CreateClient, LinkClient, StatementFails, AfterConflict
<1>3. phase \in TillPhase /\ till[k].phase \in Holding /\ till[k].phase \notin {"idle", "answered"}
  BY <1>1 DEF TillPhase, Holding, Statements
<1>4. OneTill(k) /\ till'[k].phase = phase
  BY <1>1, <1>2, <1>3, GoesFacts
<1>5. \/ UNCHANGED client
      \/ WriteRow(k, "unlinked") /\ Row(k) # "linked"
      \/ WriteRow(k, "linked")
  BY DEF CreateClient, LinkClient, StatementFails
<1>6. LinksStay
  BY <1>1, <1>3, <1>5, NoChange, RowWritten
<1>7. phase = "balance" => Row(k)' = "linked"
  <2>1. Goes(k, "link") \/ Goes(k, "phone") \/ Goes(k, "release") \/
        (Goes(k, "balance") /\ WriteRow(k, "linked"))
    BY DEF CreateClient, LinkClient, StatementFails, AfterConflict
  <2>2. CASE Goes(k, "link") \/ Goes(k, "phone") \/ Goes(k, "release")
    <3>1. till'[k].phase \in {"link", "phone", "release"}
      BY <1>1, <2>2, GoesFacts DEF TillPhase, Statements
    <3> QED BY <1>4, <3>1
  <2>3. CASE WriteRow(k, "linked")
    <3>1. client'[till[k].store][owner[till[k].token]] = "linked"
      BY <1>3, <2>3, RowWritten
    <3> QED BY <1>1, <1>4, <3>1 DEF Row, OneTill, keys
  <2> QED BY <2>1, <2>2, <2>3
<1>8. Continues(k)
  BY <1>2, <1>3, <1>4, <1>7 DEF Continues
<1>9. SentAreWell' /\ sent' \subseteq RedisCommand
  BY <1>1, <1>3, SentAfter
<1> QED BY <1>1, <1>4, <1>6, <1>8, <1>9, MovesIInv

LEMMA CrashIInv ==
  ASSUME IInv, NEW k \in Till, Crash(k)
  PROVE  IInv'
<1>1. /\ TypeOK /\ UNCHANGED <<keys, account, client, customer, resolved, issued, sent, late>>
      /\ till[k].phase \notin {"idle", "answered"} /\ Ends(k, "lost") /\ (Fault \/ UNCHANGED faults)
  BY DEF IInv, Crash, Works, table
<1>2. OneTill(k) /\ till'[k].phase = "lost"
  BY <1>1, GoesFacts DEF TillPhase
<1>3. Continues(k) /\ LinksStay
  BY <1>1, <1>2, HoldingFacts, NoChange DEF Continues
<1>4. SentAreWell' /\ sent' \subseteq RedisCommand
  BY <1>1, SentAfter
<1> QED BY <1>1, <1>2, <1>3, <1>4, MovesIInv

LEMMA ClaimTokenIInv ==
  ASSUME IInv, NEW k \in Till, ClaimToken(k)
  PROVE  IInv'
<1> DEFINE t == till[k].token
<1>1. /\ UNCHANGED <<owner, issuing, consuming, account, client, customer, resolved, issued, late>>
      /\ till[k].phase = "claim" /\ (Fault \/ UNCHANGED faults) /\ TypeOK
      /\ till[k].phase \notin {"idle", "answered"} /\ Sends(k, "claim", t)
  BY DEF ClaimToken, InTime, table, IInv
<1>2. LinksStay /\ faults' \in 0..MaxFaults /\ resolved' \subseteq [token: Token, by: Till]
  <2>1. resolved \subseteq [token: Token, by: Till]
    BY <1>1 DEF TypeOK
  <2> QED BY <1>1, <2>1, NoChange, FaultTyped
<1>3. SentAreWell' /\ sent' \subseteq RedisCommand
  BY <1>1, SentAfter
<1>4. CASE Gone(k) /\ UNCHANGED <<active, claim, faults>>
  <2>1. OneTill(k) /\ till'[k].phase = "refused"
    BY <1>1, <1>4, GoesFacts DEF Gone, TillPhase
  <2>2. Continues(k)
    BY <1>1, <2>1, HoldingFacts DEF Continues
  <2>3. UNCHANGED keys
    BY <1>1, <1>4 DEF keys
  <2> QED BY <1>1, <1>2, <1>3, <1>4, <2>1, <2>2, <2>3, MovesIInv
<1>5. ASSUME active[t] > 0, MoveToClaim(k, t), Goes(k, "account") \/ Ends(k, "lost")
      PROVE  IInv'
  <2>1. OneTill(k) /\ till'[k].phase \in {"account", "lost"}
    BY <1>1, <1>5, GoesFacts DEF TillPhase, Statements
  <2>2. /\ OneToken(t)
        /\ ClaimsOutliveCalls' /\ CallsNameTokens' /\ KeysAreIssued' /\ ResolvedAreWell' /\ UsesAreCounted'
    BY <1>1, <1>5, <2>1, TakesClaim
  <2>3. UNCHANGED putBack
    BY <1>1 DEF late
  <2>4. KeysTyped
    BY <1>1, <2>2, <2>3 DEF OneToken, TypeOK, KeysTyped
  <2>5. TypeOK'
    BY <1>1, <1>2, <1>3, <2>1, <2>4, TillTypeOK
  <2> QED BY <1>3, <2>2, <2>5 DEF IInv
<1> QED BY <1>4, <1>5 DEF ClaimToken

\* A call gives its claim up: finalize deletes the key, release moves it back, and
\* either may fail or come too late.
LEMMA GivesUpIInv ==
  ASSUME IInv, NEW k \in Till, till[k].phase \in {"finalize", "finalize success", "release"},
         NEW phase \in {"refused", "failed", "lost", "answered"}, Ends(k, phase),
         UNCHANGED <<owner, issuing, consuming, table, customer, issued, late>>, Fault \/ UNCHANGED faults,
         OneToken(till[k].token), UNCHANGED claim \/ claim'[till[k].token].by = Nobody,
         sent' = sent \/ \E what \in {"claim", "release", "finalize"} : Sends(k, what, till[k].token),
         \/ resolved' = resolved
         \/ /\ till[k].phase = "finalize success" /\ phase = "answered"
            /\ resolved' = resolved \cup {[token |-> till[k].token, by |-> k]}
            /\ UNCHANGED active
  PROVE  IInv'
<1>1. /\ till[k].phase \in Holding /\ till[k].phase # "idle" /\ TypeOK /\ phase \in TillPhase
      /\ UNCHANGED <<client, account, putBack>>
  BY DEF Holding, IInv, TillPhase, table, late
<1>2. till[k].token \in Token
  BY <1>1 DEF IInv, CallsNameTokens
<1>3. OneTill(k) /\ till'[k].phase = phase
  BY <1>1, GoesFacts
<1>4. ClaimsOutliveCalls' /\ CallsNameTokens' /\ KeysAreIssued' /\ ResolvedAreWell' /\ UsesAreCounted'
  BY <1>1, <1>3, GivesUp
<1>5. KeysTyped
  BY <1>1 DEF OneToken, TypeOK, KeysTyped
<1>6. resolved' \subseteq [token: Token, by: Till]
  <2>1. resolved \subseteq [token: Token, by: Till]
    BY <1>1 DEF TypeOK
  <2> DEFINE s == [token |-> till[k].token, by |-> k]
  <2>2. s \in [token: Token, by: Till]
    BY <1>2
  <2>3. resolved' = resolved \/ resolved' = resolved \cup {s}
    OBVIOUS
  <2> HIDE DEF s
  <2> QED BY <2>1, <2>2, <2>3
<1>7. LinksStay /\ faults' \in 0..MaxFaults
  BY <1>1, NoChange, FaultTyped
<1>8. SentAreWell' /\ sent' \subseteq RedisCommand
  BY <1>1, SentAfter
<1>9. TypeOK'
  BY <1>1, <1>3, <1>5, <1>6, <1>7, <1>8, TillTypeOK
<1> QED BY <1>4, <1>8, <1>9 DEF IInv

LEMMA SameKeys ==
  ASSUME IInv, NEW t \in Token, UNCHANGED <<active, claim, late>>
  PROVE  OneToken(t)
<1>1. UNCHANGED putBack
  BY DEF late
<1> QED BY <1>1 DEF IInv, TypeOK, KeysAreIssued, OneToken

\* DEL of a claim, and the script that moves one back
LEMMA DropClaimFacts ==
  ASSUME IInv, NEW t \in Token, DropClaim(t), UNCHANGED active
  PROVE  OneToken(t) /\ claim'[t].by = Nobody
<1>1. claim'[t] = NoClaim /\ \A u \in Token \ {t} : claim'[u] = claim[u]
  BY DEF DropClaim, IInv, TypeOK
<1>2. claim' \in [Token -> ClaimKey]
  BY RowsTyped DEF DropClaim, IInv, TypeOK
<1> QED BY <1>1, <1>2, RowsTyped DEF OneToken, IInv, TypeOK

LEMMA MoveBackFacts ==
  ASSUME IInv, NEW t \in Token, MoveBack(t)
  PROVE  OneToken(t) /\ claim'[t].by = Nobody
<1>1. claim[t].left \in Nat
  <2>1. claim[t].left \in 0..ClaimTTL
    BY ClaimTyped DEF IInv
  <2> QED BY <2>1, Constants
<1>2. /\ claim'[t] = NoClaim /\ \A u \in Token \ {t} : claim'[u] = claim[u]
      /\ claim' \in [Token -> ClaimKey]
  BY RowsTyped DEF MoveBack, IInv, TypeOK
<1>3. active' \in [Token -> Nat] /\ \A u \in Token \ {t} : active'[u] = active[u]
  BY <1>1 DEF MoveBack, IInv, TypeOK
<1> QED BY <1>2, <1>3, RowsTyped DEF OneToken

LEMMA FinalizeIInv ==
  ASSUME IInv, NEW k \in Till, Finalize(k)
  PROVE  IInv'
<1> DEFINE t == till[k].token
           success == till[k].phase = "finalize success"
           phase == IF success THEN "answered" ELSE "refused"
<1>1. /\ till[k].phase \in {"finalize", "finalize success"} /\ Ends(k, phase)
      /\ UNCHANGED <<active, owner, issuing, consuming, table, customer, issued, late>>
      /\ (Fault \/ UNCHANGED faults)
      /\ UNCHANGED claim \/ DropClaim(t)
      /\ sent' = sent \/ Sends(k, "finalize", t)
      /\ resolved' = IF success THEN resolved \cup {[token |-> t, by |-> k]} ELSE resolved
  BY DEF Finalize
<1>2. t \in Token
  BY <1>1 DEF IInv, CallsNameTokens
<1>3. OneToken(t) /\ (UNCHANGED claim \/ claim'[t].by = Nobody)
  <2>1. CASE UNCHANGED claim
    BY <1>1, <1>2, <2>1, SameKeys
  <2>2. CASE DropClaim(t)
    BY <1>1, <1>2, <2>2, DropClaimFacts
  <2> QED BY <1>1, <2>1, <2>2
<1>4. phase \in {"refused", "failed", "lost", "answered"}
  OBVIOUS
<1>5. \/ resolved' = resolved
      \/ success /\ phase = "answered" /\ resolved' = resolved \cup {[token |-> t, by |-> k]}
  BY <1>1
<1> HIDE DEF phase
<1> QED BY <1>1, <1>3, <1>4, <1>5, GivesUpIInv

LEMMA ReleaseIInv ==
  ASSUME IInv, NEW k \in Till, Release(k)
  PROVE  IInv'
<1> DEFINE t == till[k].token
<1>1. /\ till[k].phase = "release" /\ (Ends(k, "failed") \/ Ends(k, "lost"))
      /\ UNCHANGED <<owner, issuing, consuming, table, customer, resolved, issued, late>>
      /\ (Fault \/ UNCHANGED faults)
      /\ UNCHANGED <<active, claim>> \/ MoveBack(t)
      /\ sent' = sent \/ Sends(k, "release", t)
  BY DEF Release
<1>2. t \in Token
  BY <1>1 DEF IInv, CallsNameTokens
<1>3. OneToken(t) /\ (UNCHANGED claim \/ claim'[t].by = Nobody)
  BY <1>1, <1>2, SameKeys, MoveBackFacts
<1> QED BY <1>1, <1>3, GivesUpIInv

\* Only the call has changed, and it begins with nothing claimed.
LEMMA ArriveIInv ==
  ASSUME IInv, NEW k \in Till, NEW p \in Principal, NEW s \in Store, NEW t \in Token, Arrive(k, p, s, t)
  PROVE  IInv'
<1> DEFINE new == [phase |-> "claim", store |-> s, token |-> t, left |-> RequestTimeout]
<1>1. /\ new \in TillCall /\ new.phase = "claim" /\ new.token = t /\ new.store = s
      /\ till' = [till EXCEPT ![k] = new] /\ till[k].phase = "idle"
  <2>1. t \in 0..MaxTokens /\ RequestTimeout \in 0..RequestTimeout
    BY Constants DEF Token
  <2>2. new \in TillCall /\ new.phase = "claim" /\ new.token = t /\ new.store = s
    BY <2>1 DEF TillCall, TillPhase
  <2> QED BY <2>2, RowsTyped DEF Arrive
<1> HIDE DEF new
<1>2. till' \in [Till -> TillCall] /\ till'[k] = new /\ \A j \in Till \ {k} : till'[j] = till[j]
  BY <1>1 DEF IInv, TypeOK
<1>3. /\ UNCHANGED <<active, claim, owner, issuing, account, client, customer, resolved, issued, sent,
                     putBack, dropped, faults>>
      /\ t <= issued /\ owner[t] \in Account
  BY DEF Arrive, table, late, IInv, TypeOK
<1>4. consuming' \in [Principal -> 0..ConsumeCooldown]
  BY Constants DEF Arrive, IInv, TypeOK
<1>5. TypeOK'
  BY <1>2, <1>3, <1>4 DEF IInv, TypeOK
<1>6. CallsNameTokens'
  BY <1>1, <1>2, <1>3 DEF IInv, CallsNameTokens
<1>7. \A j \in Till : till'[j].phase \in Holding => j # k /\ till'[j] = till[j]
  BY <1>1, <1>2, HoldingFacts
<1>8. ClaimsOutliveCalls'
  BY <1>3, <1>7 DEF IInv, ClaimsOutliveCalls, Held, Row
<1>9. ResolvedAreWell'
  <2>1. \A r \in resolved : r.by \in Till /\ till'[r.by] = till[r.by]
    BY <1>1, <1>2 DEF IInv, TypeOK, ResolvedAreWell
  <2> QED BY <1>3, <1>7, <2>1 DEF IInv, ResolvedAreWell, Row
<1>10. UsesAreCounted'
  <2> SUFFICES ASSUME NEW u \in Token PROVE Counts(u)'
    BY DEF UsesAreCounted
  <2>1. Holders(u)' = Holders(u)
    <3>1. \A j \in Till : till[j].phase \in Holding => j # k /\ till'[j] = till[j]
      BY <1>1, <1>2, HoldingFacts
    <3> QED BY <1>7, <3>1 DEF Holders
  <2>2. Answers(u)' = Answers(u) /\ Kept(u)' = Kept(u)
    BY <1>3, <2>1 DEF Answers, Kept
  <2>3. UNCHANGED <<late, active>>
    BY <1>3 DEF late
  <2> QED BY <2>1, <2>2, <2>3, CountsStay
<1> QED BY <1>3, <1>5, <1>6, <1>8, <1>9, <1>10 DEF IInv, KeysAreIssued, SentAreWell

-------------------------------------------------------------------------------
\* A copy of a command

\* No call moves: whoever works on token t keeps its claim, loses it, or has it anew.
LEMMA CopiesIInv ==
  ASSUME IInv, NEW t \in Token, t <= issued, OneToken(t), Counts(t)', putBack' \in [Token -> Nat],
         dropped' \in [Token -> Nat], Fault,
         \A u \in Token \ {t} : putBack'[u] = putBack[u] /\ dropped'[u] = dropped[u],
         claim'[t] = claim[t] \/ claim'[t].by = Nobody \/ claim'[t].left = ClaimTTL,
         UNCHANGED <<owner, issuing, consuming, table, customer, till, resolved, issued, sent>>
  PROVE  IInv'
<1>1. UNCHANGED <<client, account>> /\ TypeOK /\ faults' \in 0..MaxFaults
  BY FaultTyped DEF table, IInv
<1>2. TypeOK'
  BY <1>1 DEF TypeOK, OneToken
<1>3. \A k \in Till : Row(k)' = Row(k)
  BY <1>1 DEF Row
<1>4. ClaimsOutliveCalls'
  <2> SUFFICES ASSUME NEW k \in Till, till[k].phase \in Holding PROVE Held(k)'
    BY DEF ClaimsOutliveCalls
  <2>1. Held(k) /\ till[k].token \in Token
    BY HoldingFacts DEF IInv, ClaimsOutliveCalls, CallsNameTokens
  <2>2. till[k].left \in Nat /\ till[k].left <= RequestTimeout
    <3>1. till[k].left \in 0..RequestTimeout
      BY <1>1, TillTyped
    <3> QED BY <3>1, Constants
  <2>3. claim'[till[k].token].by = k
          => claim'[till[k].token].left + RequestTimeout >= till[k].left + ClaimTTL
    <3>1. CASE till[k].token # t \/ claim'[t] = claim[t]
      <4>1. claim'[till[k].token] = claim[till[k].token]
        BY <2>1, <3>1 DEF OneToken
      <4> QED BY <2>1, <4>1 DEF Held
    <3>2. CASE till[k].token = t /\ claim'[t].by = Nobody
      BY <3>2, Constants
    <3>3. CASE till[k].token = t /\ claim'[t].left = ClaimTTL
      BY <2>2, <3>3, Constants
    <3> QED BY <3>1, <3>2, <3>3
  <2> QED BY <1>3, <2>1, <2>3 DEF Held
<1>5. CallsNameTokens' /\ SentAreWell' /\ ResolvedAreWell'
  <2>1. CallsNameTokens' /\ SentAreWell'
    BY DEF IInv, CallsNameTokens, SentAreWell
  <2>2. \A r \in resolved : r.by \in Till
    BY <1>1 DEF TypeOK
  <2>3. ResolvedAreWell'
    BY <1>3, <2>2 DEF IInv, ResolvedAreWell
  <2> QED BY <2>1, <2>3
<1>6. KeysAreIssued'
  <2>1. issued \in Nat /\ t \in Nat
    BY <1>1, Constants DEF TypeOK, Token
  <2>2. ~(issued < t)
    BY <2>1
  <2> QED BY <2>2 DEF IInv, KeysAreIssued, OneToken
<1>7. UsesAreCounted'
  <2> SUFFICES ASSUME NEW u \in Token, u # t PROVE Counts(u)'
    BY DEF UsesAreCounted
  <2>1. /\ active'[u] = active[u] /\ claim'[u] = claim[u]
        /\ putBack'[u] = putBack[u] /\ dropped'[u] = dropped[u]
    BY DEF OneToken
  <2>2. Holders(u)' = Holders(u) /\ Answers(u)' = Answers(u)
    BY DEF Holders, Answers
  <2>3. Kept(u)' = Kept(u) /\ Usable(u)' = Usable(u)
    BY <2>1, <2>2 DEF Kept, Usable
  <2>4. Counts(u)
    BY DEF IInv, UsesAreCounted
  <2> QED BY <2>1, <2>2, <2>3, <2>4 DEF Counts
<1> QED BY <1>2, <1>4, <1>5, <1>6, <1>7 DEF IInv

LEMMA RunsAgainIInv ==
  ASSUME IInv, NEW c \in sent, RunsAgain(c)
  PROVE  IInv'
<1> DEFINE t == c.token
<1>1. t \in Token /\ t <= issued /\ TypeOK /\ (c.what = "claim" => c.by \in Till)
  BY DEF IInv, TypeOK, SentAreWell, RedisCommand
<1>2. /\ Fault
      /\ UNCHANGED <<owner, issuing, consuming, table, customer, till, resolved, issued, sent>>
  BY DEF RunsAgain
<1>3. active[t] \in Nat /\ claim[t].left \in Nat /\ putBack[t] \in Nat /\ dropped[t] \in Nat
  <2>1. claim[t].left \in 0..ClaimTTL /\ active[t] \in Nat
    BY <1>1, ClaimTyped
  <2>2. putBack[t] \in Nat /\ dropped[t] \in Nat
    BY <1>1 DEF TypeOK
  <2> QED BY <2>1, <2>2, Constants
<1>4. Holders(t)' = Holders(t) /\ Answers(t)' = Answers(t)
  BY <1>2 DEF Holders, Answers
<1>5. CASE /\ \/ SetToken(t) /\ UNCHANGED claim
              \/ claim[t].left > 0 /\ MoveBack(t)
           /\ putBack' = [putBack EXCEPT ![t] = IF active[t] = 0 THEN @ + 1 ELSE @]
           /\ UNCHANGED dropped
  <2>1. /\ putBack' \in [Token -> Nat] /\ dropped' \in [Token -> Nat]
        /\ \A u \in Token \ {t} : putBack'[u] = putBack[u] /\ dropped'[u] = dropped[u]
    BY <1>1, <1>3, <1>5 DEF TypeOK
  <2>2. \/ active[t] = 0 /\ putBack'[t] = putBack[t] + 1
        \/ active[t] > 0 /\ putBack'[t] = putBack[t]
    BY <1>1, <1>3, <1>5 DEF TypeOK
  <2>3. OneToken(t) /\ (claim'[t] = claim[t] \/ claim'[t].by = Nobody)
    <3>1. CASE SetToken(t) /\ UNCHANGED claim
      <4>1. active' \in [Token -> Nat] /\ \A u \in Token \ {t} : active'[u] = active[u]
        BY <1>1, <3>1, Constants DEF SetToken, TypeOK
      <4>2. active[t] = 0 \/ claim[t].left = 0 \/ putBack[t] > 0
        BY <1>1 DEF TypeOK
      <4>3. claim'[t].left = 0 \/ putBack'[t] > 0
        <5>1. CASE active[t] = 0 /\ putBack'[t] = putBack[t] + 1
          BY <1>3, <5>1
        <5>2. CASE active[t] > 0 /\ putBack'[t] = putBack[t]
          BY <3>1, <4>2, <5>2
        <5> QED BY <2>2, <5>1, <5>2
      <4> QED BY <1>1, <3>1, <4>1, <4>3 DEF OneToken, TypeOK, IInv, KeysAreIssued
    <3>2. CASE MoveBack(t)
      BY <1>1, <3>2, MoveBackFacts
    <3> QED BY <1>5, <3>1, <3>2
  <2>4. Counts(t)'
    BY <1>1, <1>4, <1>5, <2>2, CountsPutBack
  <2> QED BY <1>1, <1>2, <2>1, <2>3, <2>4, CopiesIInv
<1>6. CASE /\ c.what = "claim" /\ active[t] > 0 /\ MoveToClaim(c.by, t)
           /\ UNCHANGED late
  <2>1. [left |-> ClaimTTL, by |-> c.by] \in ClaimKey
    BY <1>1, <1>6, Constants DEF ClaimKey
  <2>2. /\ claim'[t].left = ClaimTTL /\ claim'[t].by = c.by /\ active'[t] = 0
        /\ active' \in [Token -> Nat] /\ claim' \in [Token -> ClaimKey]
        /\ \A u \in Token \ {t} : active'[u] = active[u] /\ claim'[u] = claim[u]
    BY <1>1, <1>6, <2>1 DEF MoveToClaim, TypeOK
  <2>3. OneToken(t)
    BY <2>2, Constants DEF OneToken
  <2>4. /\ putBack' \in [Token -> Nat] /\ dropped' \in [Token -> Nat]
        /\ \A u \in Token \ {t} : putBack'[u] = putBack[u] /\ dropped'[u] = dropped[u]
    BY <1>1, <1>6 DEF TypeOK, late
  <2>5. Counts(t)'
    BY <1>1, <1>4, <1>6, <2>2, CountsJoin
  <2> QED BY <1>1, <1>2, <2>2, <2>3, <2>4, <2>5, CopiesIInv
<1>7. CASE /\ claim[t].left > 0 /\ DropClaim(t)
           /\ dropped' = [dropped EXCEPT ![t] = @ + 1]
           /\ UNCHANGED <<active, putBack>>
  <2>1. /\ putBack' \in [Token -> Nat] /\ dropped' \in [Token -> Nat] /\ dropped'[t] = dropped[t] + 1
        /\ \A u \in Token \ {t} : putBack'[u] = putBack[u] /\ dropped'[u] = dropped[u]
    BY <1>1, <1>3, <1>7 DEF TypeOK
  <2>2. OneToken(t) /\ claim'[t].by = Nobody
    BY <1>1, <1>7, DropClaimFacts
  <2>3. Counts(t)'
    BY <1>1, <1>4, <1>7, <2>1, CountsDrop
  <2> QED BY <1>1, <1>2, <2>1, <2>2, <2>3, CopiesIInv
<1> QED BY <1>5, <1>6, <1>7 DEF RunsAgain

-------------------------------------------------------------------------------
\* Issuing, the rows and the clock

\* Steps that touch no key, no resolving call and nothing resolved, and only add links
LEMMA RowsIInv ==
  ASSUME IInv, LinksStay, TypeOK', UNCHANGED <<active, claim, owner, till, resolved, issued, sent, late>>
  PROVE  IInv'
<1>1. \A k \in Till : till[k].phase # "idle" /\ Row(k) = "linked" => Row(k)' = "linked"
  BY RowsStay
<1>2. ClaimsOutliveCalls'
  BY <1>1, HoldingFacts DEF IInv, ClaimsOutliveCalls, Held
<1>3. ResolvedAreWell'
  <2>1. \A r \in resolved : Row(r.by)' = "linked"
    BY <1>1 DEF IInv, TypeOK, ResolvedAreWell
  <2> QED BY <2>1 DEF IInv, ResolvedAreWell
<1>4. UsesAreCounted'
  <2> SUFFICES ASSUME NEW t \in Token PROVE Counts(t)'
    BY DEF UsesAreCounted
  <2>1. Holders(t)' = Holders(t) /\ Answers(t)' = Answers(t)
    BY DEF Holders, Answers
  <2>2. Kept(t)' = Kept(t)
    BY <2>1 DEF Kept
  <2> QED BY <2>1, <2>2, CountsStay
<1> QED BY <1>2, <1>3, <1>4 DEF IInv, CallsNameTokens, KeysAreIssued, SentAreWell

LEMMA RegisterClientIInv ==
  ASSUME IInv, NEW s \in Store, NEW a \in Account, RegisterClient(s, a)
  PROVE  IInv'
<1>1. client \in [Store -> [Account -> {"none", "unlinked", "linked"}]]
  BY DEF IInv, TypeOK
<1>2. client' = [client EXCEPT ![s] = [client[s] EXCEPT ![a] = "unlinked"]] /\ client[s][a] = "none"
  BY <1>1 DEF RegisterClient
<1>3. client' \in [Store -> [Account -> {"none", "unlinked", "linked"}]] /\ client'[s][a] = "unlinked"
      /\ \A x \in Store, y \in Account : x # s \/ y # a => client'[x][y] = client[x][y]
  BY <1>1, <1>2
<1>4. LinksStay
  BY <1>2, <1>3 DEF LinksStay
<1>5. /\ UNCHANGED <<active, claim, owner, issuing, consuming, account, customer, till, resolved, issued>>
      /\ UNCHANGED <<sent, late, putBack, dropped, faults>>
  BY DEF RegisterClient, keys, late
<1>6. TypeOK'
  BY <1>3, <1>5 DEF IInv, TypeOK
<1> QED BY <1>4, <1>5, <1>6, RowsIInv

LEMMA BlockIInv ==
  ASSUME IInv, NEW a \in Account, Block(a)
  PROVE  IInv'
<1>1. /\ UNCHANGED <<active, claim, owner, issuing, consuming, client, customer, till, resolved, issued>>
      /\ UNCHANGED <<sent, late, putBack, dropped>>
  BY DEF Block, keys, late
<1>2. faults' \in 0..MaxFaults /\ LinksStay
  BY <1>1, FaultTyped, NoChange DEF Block, IInv
<1>3. account' \in [Account -> {"active", "blocked"}]
  BY DEF Block, IInv, TypeOK
<1>4. TypeOK'
  BY <1>1, <1>2, <1>3 DEF IInv, TypeOK
<1> QED BY <1>1, <1>2, <1>4, RowsIInv

LEMMA AcquireIssueCooldownIInv ==
  ASSUME IInv, NEW c \in Customer, NEW a \in Account, AcquireIssueCooldown(c, a)
  PROVE  IInv'
<1>1. /\ UNCHANGED <<active, claim, owner, consuming, account, client, till, resolved, issued>>
      /\ UNCHANGED <<sent, late, putBack, dropped>> /\ (Fault \/ UNCHANGED faults)
  BY DEF AcquireIssueCooldown, table, late
<1>2. customer' \in [Customer -> CustomerCall]
  <2>1. \A p \in {"refused", "store"} : [phase |-> p, account |-> a] \in CustomerCall
    BY DEF CustomerCall
  <2>2. \E p \in {"refused", "store"} : customer' = [customer EXCEPT ![c] = [phase |-> p, account |-> a]]
    BY DEF AcquireIssueCooldown
  <2> QED BY <2>1, <2>2 DEF IInv, TypeOK
<1>3. issuing' \in [Account -> 0..IssueCooldown]
  <2>1. issuing' = issuing \/ issuing' = [issuing EXCEPT ![a] = IssueCooldown]
    BY DEF AcquireIssueCooldown
  <2> QED BY <2>1, Constants DEF IInv, TypeOK
<1>4. faults' \in 0..MaxFaults /\ LinksStay
  BY <1>1, FaultTyped, NoChange DEF IInv
<1>5. TypeOK'
  BY <1>1, <1>2, <1>3, <1>4 DEF IInv, TypeOK
<1> QED BY <1>1, <1>4, <1>5, RowsIInv

\* A token that is stored was never seen before: nobody can hold or have resolved it.
LEMMA StoreTokenIInv ==
  ASSUME IInv, NEW c \in Customer, StoreToken(c)
  PROVE  IInv'
<1> DEFINE t == issued + 1
<1>1. /\ UNCHANGED <<claim, issuing, consuming, account, client, till, resolved, late, putBack, dropped>>
      /\ issued' = t /\ issued < MaxTokens /\ (Fault \/ UNCHANGED faults)
  BY DEF StoreToken, table, late
<1>2. issued \in Nat /\ issued < t /\ issued' = t /\ t \in Token /\ t \in 0..MaxTokens
  BY <1>1, Constants DEF IInv, TypeOK, Token
<1>3. active[t] = 0 /\ claim[t].left = 0 /\ owner[t] = Nobody
  BY <1>2 DEF IInv, KeysAreIssued
<1>4. /\ active' \in [Token -> Nat] /\ owner' \in [Token -> Account \cup {Nobody}]
      /\ \A u \in Token \ {t} : active'[u] = active[u] /\ owner'[u] = owner[u]
  <2>1. customer[c].account \in Account \cup {Nobody}
    BY DEF IInv, TypeOK, CustomerCall
  <2>2. \/ UNCHANGED <<active, owner>>
        \/ active' = [active EXCEPT ![t] = TTL] /\ owner' = [owner EXCEPT ![t] = customer[c].account]
    BY <1>1 DEF StoreToken, SetToken
  <2> QED BY <1>2, <2>1, <2>2, Constants DEF IInv, TypeOK
<1>5. customer' \in [Customer -> CustomerCall]
  <2>1. customer[c] \in CustomerCall
    BY DEF IInv, TypeOK
  <2>2. \A p \in {"issued", "failed"} : [customer[c] EXCEPT !.phase = p] \in CustomerCall
    BY <2>1 DEF CustomerCall
  <2>3. \E p \in {"issued", "failed"} : customer' = [customer EXCEPT ![c] = [customer[c] EXCEPT !.phase = p]]
    BY DEF StoreToken, IInv, TypeOK
  <2> QED BY <2>2, <2>3 DEF IInv, TypeOK
<1>6. faults' \in 0..MaxFaults
  BY <1>1, FaultTyped DEF IInv
<1>7. \A u \in Token : active'[u] = 0 \/ claim'[u].left = 0 \/ putBack'[u] > 0
  BY <1>1, <1>3, <1>4 DEF IInv, TypeOK
<1>sent. sent' \subseteq RedisCommand /\ SentAreWell'
  <2> DEFINE d == [what |-> "set token", token |-> t, by |-> Nobody]
  <2>1. d \in RedisCommand /\ d.what = "set token" /\ d.token = t
    BY <1>2 DEF RedisCommand
  <2>2. sent' = sent \cup {d}
    BY <1>1 DEF StoreToken, Sends
  <2> HIDE DEF d
  <2>3. sent \subseteq RedisCommand /\ \A x \in sent : x.token <= issued /\ (x.what = "claim" => x.by \in Till)
    BY DEF IInv, TypeOK, SentAreWell
  <2>4. \A x \in sent : x.token \in Nat /\ x.token <= issued'
    <3> TAKE x \in sent
    <3>1. x.token \in Token
      BY <2>3 DEF RedisCommand
    <3>2. x.token \in Nat
      BY <3>1, Constants DEF Token
    <3> QED BY <1>1, <1>2, <2>3, <3>2
  <2>5. t <= issued'
    BY <1>1, <1>2
  <2>6. \A x \in sent' : x.token <= issued' /\ (x.what = "claim" => x.by \in Till)
    BY <2>1, <2>2, <2>3, <2>4, <2>5
  <2> QED BY <2>1, <2>2, <2>3, <2>6 DEF SentAreWell
<1>fresh. \A k \in Till : till[k].phase \in Holding => till[k].token # t
  <2> SUFFICES ASSUME NEW k \in Till, till[k].phase \in Holding PROVE till[k].token # t
    OBVIOUS
  <2>1. till[k].token \in Token /\ till[k].token <= issued
    BY HoldingFacts DEF IInv, CallsNameTokens
  <2> QED BY <1>2, <2>1 DEF Token
<1> HIDE DEF t
<1>8. TypeOK'
  BY <1>1, <1>2, <1>4, <1>5, <1>6, <1>7, <1>sent DEF IInv, TypeOK
<1>9. \A k \in Till : till[k].phase # "idle" =>
        /\ till[k].token \in Token /\ till[k].token # t /\ till[k].token <= issued'
        /\ owner'[till[k].token] = owner[till[k].token] /\ active'[till[k].token] = active[till[k].token]
        /\ Row(k)' = Row(k)
  <2> SUFFICES ASSUME NEW k \in Till, till[k].phase # "idle"
      PROVE  /\ till[k].token \in Token /\ till[k].token # t /\ till[k].token <= issued'
             /\ owner'[till[k].token] = owner[till[k].token] /\ active'[till[k].token] = active[till[k].token]
             /\ Row(k)' = Row(k)
    OBVIOUS
  <2>1. till[k].token \in Token /\ till[k].token <= issued
    BY DEF IInv, CallsNameTokens
  <2>2. till[k].token # t /\ till[k].token <= issued'
    BY <1>1, <1>2, <2>1 DEF t, Token
  <2>3. owner'[till[k].token] = owner[till[k].token] /\ active'[till[k].token] = active[till[k].token]
    BY <1>4, <2>1, <2>2
  <2> QED BY <1>1, <2>1, <2>2, <2>3 DEF Row
<1>10. ClaimsOutliveCalls'
  <2> SUFFICES ASSUME NEW k \in Till, till[k].phase \in Holding PROVE Held(k)'
    BY <1>1 DEF ClaimsOutliveCalls
  <2>1. Held(k) /\ till[k].phase # "idle"
    BY HoldingFacts DEF IInv, ClaimsOutliveCalls
  <2> QED BY <1>1, <1>9, <2>1 DEF Held
<1>11. CallsNameTokens'
  BY <1>1, <1>9 DEF IInv, CallsNameTokens
<1>12. KeysAreIssued'
  <2>1. \A u \in Token : t < u => u # t /\ issued < u
    BY <1>2 DEF t, Token
  <2> QED BY <1>1, <1>4, <2>1 DEF IInv, KeysAreIssued
<1>13. ResolvedAreWell'
  <2>1. \A r \in resolved : /\ till[r.by].phase # "idle" /\ till[r.by].token = r.token /\ r.by \in Till
                            /\ till[r.by].phase = "answered" /\ Row(r.by) = "linked"
    BY DEF IInv, TypeOK, ResolvedAreWell
  <2>2. \A r \in resolved : Row(r.by)' = "linked"
    BY <1>9, <2>1
  <2> QED BY <1>1, <2>1, <2>2 DEF IInv, ResolvedAreWell
<1>14. UsesAreCounted'
  <2> SUFFICES ASSUME NEW u \in Token PROVE Counts(u)'
    BY DEF UsesAreCounted
  <2>1. Holders(u)' = Holders(u) /\ Answers(u)' = Answers(u)
    BY <1>1 DEF Holders, Answers
  <2>2. CASE u # t
    <3>1. active'[u] = active[u] /\ claim'[u] = claim[u]
      BY <1>1, <1>4, <2>2
    <3>2. Kept(u)' = Kept(u)
      BY <2>1, <3>1 DEF Kept
    <3> QED BY <1>1, <2>1, <3>1, <3>2, CountsStay
  <2>3. CASE u = t
    <3>1. Holders(u) = {}
      BY <1>fresh, <2>3 DEF Holders
    <3>2. Answers(u) = {}
      <4>1. \A r \in resolved : r.by \in Till /\ till[r.by].phase # "idle" /\ till[r.by].token = r.token
        BY DEF IInv, TypeOK, ResolvedAreWell
      <4>2. \A r \in resolved : r.token # t
        BY <1>9, <4>1
      <4> QED BY <2>3, <4>2 DEF Answers
    <3>3. Cardinality(Holders(u)') = 0 /\ Cardinality(Answers(u)') = 0
      BY <2>1, <3>1, <3>2, FS_EmptySet
    <3>4. Kept(u)' \in {0, 1} /\ Usable(u)' \in {0, 1} /\ putBack'[u] \in Nat /\ dropped'[u] \in Nat
      BY <1>8 DEF Kept, Usable, TypeOK
    <3> QED BY <3>3, <3>4 DEF Counts
  <2> QED BY <2>2, <2>3
<1> QED BY <1>8, <1>10, <1>11, <1>12, <1>13, <1>14, <1>sent DEF IInv

\* The clock takes from a claim no more than from the call that made it.
LEMMA PassTimeFacts ==
  ASSUME IInv, PassTime
  PROVE  /\ \A k \in Till :
              /\ till'[k].phase = till[k].phase /\ till'[k].token = till[k].token
              /\ till'[k].store = till[k].store
              /\ till[k].phase \in Holding => till[k].left > 0 /\ till'[k].left = till[k].left - 1
         /\ \A t \in Token :
              /\ claim[t].left > 1 => claim'[t].left = claim[t].left - 1 /\ claim'[t].by = claim[t].by
              /\ claim[t].left <= 1 => claim'[t].left = 0 /\ claim'[t].by = Nobody
              /\ active[t] = 0 => active'[t] = 0
         /\ till' \in [Till -> TillCall] /\ claim' \in [Token -> ClaimKey]
         /\ active' \in [Token -> Nat]
<1>1. \A k \in Till : LET new == [till[k] EXCEPT !.left = CountDown(@)]
        IN  /\ new \in TillCall /\ new.phase = till[k].phase /\ new.token = till[k].token
            /\ new.store = till[k].store /\ (till[k].left > 0 => new.left = till[k].left - 1)
  <2> TAKE k \in Till
  <2>1. till[k] \in TillCall /\ till[k].left \in 0..RequestTimeout
    BY TillTyped DEF IInv
  <2>2. /\ CountDown(till[k].left) \in 0..RequestTimeout
        /\ till[k].left > 0 => CountDown(till[k].left) = till[k].left - 1
    BY <2>1, Constants DEF CountDown
  <2> HIDE DEF CountDown
  <2> QED BY <2>1, <2>2 DEF TillCall
<1>2. \A t \in Token : LET new == [claim[t] EXCEPT !.left = @ - 1]
        IN  claim[t].left > 1 =>
              /\ new \in ClaimKey /\ new.left = claim[t].left - 1 /\ new.by = claim[t].by
  <2> TAKE t \in Token
  <2>1. claim[t] \in ClaimKey /\ claim[t].left \in 0..ClaimTTL
    BY ClaimTyped DEF IInv
  <2>2. claim[t].left > 1 => claim[t].left - 1 \in 0..ClaimTTL
    BY <2>1, Constants
  <2> QED BY <2>1, <2>2 DEF ClaimKey
<1>3. \A k \in Till : till'[k] = [till[k] EXCEPT !.left = CountDown(@)]
  BY DEF PassTime
<1>4. \A t \in Token : claim'[t] = IF claim[t].left > 1 THEN [claim[t] EXCEPT !.left = @ - 1] ELSE NoClaim
  BY DEF PassTime
<1>5. \A t \in Token : active'[t] \in Nat /\ (active[t] = 0 => active'[t] = 0)
  BY ClaimTyped DEF PassTime, CountDown, IInv
<1>6. \A k \in Till : till[k].phase \in Holding => till[k].left > 0
  BY HoldingFacts DEF PassTime, Works
<1>7. till' \in [Till -> TillCall]
  BY <1>1, <1>3 DEF PassTime
<1>8. claim' \in [Token -> ClaimKey]
  BY <1>2, <1>4, RowsTyped DEF PassTime
<1>9. active' \in [Token -> Nat]
  BY <1>5 DEF PassTime
<1>10. \A t \in Token :
         /\ claim[t].left > 1 => claim'[t].left = claim[t].left - 1 /\ claim'[t].by = claim[t].by
         /\ claim[t].left <= 1 => claim'[t].left = 0 /\ claim'[t].by = Nobody
  <2> TAKE t \in Token
  <2>1. claim[t].left \in Nat
    BY ClaimTyped, Constants DEF IInv
  <2>2. CASE claim[t].left > 1
    <3>1. claim'[t] = [claim[t] EXCEPT !.left = @ - 1]
      BY <1>4, <2>2
    <3>2. ~(claim[t].left <= 1)
      BY <2>1, <2>2
    <3> QED BY <1>2, <2>2, <3>1, <3>2
  <2>3. CASE ~(claim[t].left > 1)
    BY <1>4, <2>1, <2>3, RowsTyped
  <2> QED BY <2>1, <2>2, <2>3
<1> QED BY <1>1, <1>3, <1>5, <1>6, <1>7, <1>8, <1>9, <1>10

LEMMA PassTimeIInv ==
  ASSUME IInv, PassTime
  PROVE  IInv'
<1>1. UNCHANGED <<owner, account, client, customer, resolved, issued, sent, late, putBack, dropped, faults>>
  BY DEF PassTime, table, late
<1>2. TypeOK'
  <2>1. issuing' \in [Account -> 0..IssueCooldown] /\ consuming' \in [Principal -> 0..ConsumeCooldown]
    BY Constants DEF PassTime, CountDown, IInv, TypeOK
  <2>2. \A t \in Token : active'[t] = 0 \/ claim'[t].left = 0 \/ putBack'[t] > 0
    <3> TAKE t \in Token
    <3>1. active[t] = 0 \/ claim[t].left = 0 \/ putBack[t] > 0
      BY DEF IInv, TypeOK
    <3>2. claim[t].left = 0 => claim'[t].left = 0
      BY PassTimeFacts
    <3> QED BY <1>1, <3>1, <3>2, PassTimeFacts
  <2> QED BY <1>1, <2>1, <2>2, PassTimeFacts DEF IInv, TypeOK
<1>3. \A k \in Till : Row(k)' = Row(k)
  BY <1>1, PassTimeFacts DEF Row
\* A call that holds the claim of its token still holds it, for as much longer as before.
<1>claims. \A k \in Till : till[k].phase \in Holding /\ claim[till[k].token].by = k =>
        /\ till[k].token \in Token /\ claim'[till[k].token].by = k
        /\ claim'[till[k].token].left + RequestTimeout >= till'[k].left + ClaimTTL
  <2> SUFFICES ASSUME NEW k \in Till, NEW t, t = till[k].token, till[k].phase \in Holding, claim[t].by = k
               PROVE  /\ t \in Token /\ claim'[t].by = k
                      /\ claim'[t].left + RequestTimeout >= till'[k].left + ClaimTTL
    OBVIOUS
  <2>1. till[k].left > 0 /\ till'[k].left = till[k].left - 1
    BY PassTimeFacts
  <2>2. t \in Token /\ Held(k)
    BY HoldingFacts DEF IInv, CallsNameTokens, ClaimsOutliveCalls
  <2>3. claim[t].left \in 0..ClaimTTL /\ till[k].left \in 0..RequestTimeout
    BY <2>2, ClaimTyped, TillTyped DEF IInv
  <2>4. claim[t].left + RequestTimeout >= till[k].left + ClaimTTL
    BY <2>2 DEF Held
  <2>5. claim[t].left > 1
    BY <2>1, <2>3, <2>4, Constants
  <2>6. claim'[t].left = claim[t].left - 1 /\ claim'[t].by = k
    BY <2>2, <2>5, PassTimeFacts
  <2>7. claim'[t].left + RequestTimeout >= till'[k].left + ClaimTTL
    BY <2>1, <2>3, <2>4, <2>6, Constants
  <2> QED BY <2>2, <2>6, <2>7
<1>4. ClaimsOutliveCalls'
  <2> SUFFICES ASSUME NEW k \in Till, till'[k].phase \in Holding PROVE Held(k)'
    BY DEF ClaimsOutliveCalls
  <2>1. /\ till[k].phase \in Holding /\ till'[k].phase = till[k].phase /\ till'[k].token = till[k].token
    BY PassTimeFacts
  <2>2. till[k].token \in Token /\ Held(k)
    BY <2>1, HoldingFacts DEF IInv, CallsNameTokens, ClaimsOutliveCalls
  <2>3. claim'[till[k].token].by = k => claim[till[k].token].by = k
    <3>1. claim[till[k].token].left \in Nat
      <4>1. claim[till[k].token].left \in 0..ClaimTTL
        BY <2>2, ClaimTyped DEF IInv
      <4> QED BY <4>1, Constants
    <3>2. k # Nobody
      BY Constants
    <3>3. claim[till[k].token].left > 1 \/ claim[till[k].token].left <= 1
      BY <3>1
    <3> QED BY <2>2, <3>2, <3>3, PassTimeFacts
  <2>4. till'[k].phase \in {"balance", "finalize success"} => Row(k)' = "linked"
    BY <1>3, <2>1, <2>2 DEF Held
  <2> QED BY <1>claims, <2>1, <2>3, <2>4 DEF Held
<1>5. CallsNameTokens'
  BY <1>1, PassTimeFacts DEF IInv, CallsNameTokens
<1>6. KeysAreIssued'
  <2> SUFFICES ASSUME NEW t \in Token
               PROVE  /\ claim'[t].left = 0 => claim'[t].by = Nobody
                      /\ issued < t => active'[t] = 0 /\ claim'[t].left = 0 /\ owner[t] = Nobody
    BY <1>1 DEF KeysAreIssued
  <2>1. /\ issued < t => active[t] = 0 /\ claim[t].left = 0 /\ owner[t] = Nobody
        /\ claim[t].left \in Nat
    BY ClaimTyped, Constants DEF IInv, KeysAreIssued
  <2> QED BY <2>1, PassTimeFacts
<1>7. ResolvedAreWell' /\ SentAreWell'
  <2>1. \A r \in resolved : /\ r.by \in Till /\ r.token \in Token /\ till[r.by].phase = "answered"
                            /\ till[r.by].token = r.token /\ Row(r.by) = "linked"
    BY DEF IInv, TypeOK, ResolvedAreWell
  <2>2. \A r \in resolved : /\ till'[r.by].phase = "answered" /\ till'[r.by].token = r.token
                            /\ Row(r.by)' = "linked"
    BY <1>3, <2>1, PassTimeFacts
  <2> QED BY <1>1, <2>2 DEF IInv, ResolvedAreWell, SentAreWell
<1>8. UsesAreCounted'
  <2> SUFFICES ASSUME NEW t \in Token PROVE Counts(t)'
    BY DEF UsesAreCounted
  <2>1. Holders(t)' = Holders(t)
    BY PassTimeFacts DEF Holders
  <2>2. Answers(t)' = Answers(t)
    BY <1>1 DEF Answers
  <2>3. Kept(t)' = Kept(t) \/ Kept(t) = 0
    <3>1. CASE active[t] = 0 /\ claim[t].by \in Holders(t)
      <4>1. claim'[t].by = claim[t].by /\ active'[t] = 0
        BY <1>claims, <3>1, PassTimeFacts DEF Holders
      <4> QED BY <2>1, <3>1, <4>1 DEF Kept
    <3>2. CASE ~(active[t] = 0 /\ claim[t].by \in Holders(t))
      BY <3>2 DEF Kept
    <3> QED BY <3>1, <3>2
  <2>4. active[t] = 0 => active'[t] = 0
    BY PassTimeFacts
  <2>5. UNCHANGED late
    BY <1>1
  <2> QED BY <2>1, <2>2, <2>3, <2>4, <2>5, CountsStay
<1> QED BY <1>2, <1>4, <1>5, <1>6, <1>7, <1>8 DEF IInv

-------------------------------------------------------------------------------
LEMMA NextIInv == IInv /\ [Next]_vars => IInv'
<1> SUFFICES ASSUME IInv, [Next]_vars PROVE IInv'
  OBVIOUS
<1>1. CASE \E c \in Customer : StoreToken(c) \/ \E a \in Account : AcquireIssueCooldown(c, a)
  BY <1>1, StoreTokenIInv, AcquireIssueCooldownIInv
<1>2. CASE \E k \in Till, p \in Principal, s \in Store, t \in Token : Arrive(k, p, s, t)
  BY <1>2, ArriveIInv
<1>3. CASE \E k \in Till : ClaimToken(k) \/ Finalize(k) \/ Release(k) \/ Crash(k)
  BY <1>3, ClaimTokenIInv, FinalizeIInv, ReleaseIInv, CrashIInv
<1>4. CASE \E k \in Till : LoadAccount(k) \/ ListClients(k) \/ FindByPhone(k) \/ LoadBalance(k)
  BY <1>4, ReadsIInv
<1>5. CASE \E k \in Till : CreateClient(k) \/ LinkClient(k) \/ StatementFails(k)
  BY <1>5, WritesIInv
<1>6. CASE \E a \in Account : Block(a) \/ \E s \in Store : RegisterClient(s, a)
  BY <1>6, BlockIInv, RegisterClientIInv
<1>7. CASE PassTime
  BY <1>7, PassTimeIInv
<1>8. CASE \E c \in sent : RunsAgain(c)
  BY <1>8, RunsAgainIInv
<1>9. CASE UNCHANGED vars
  <2>1. TypeOK'
    BY <1>9 DEF vars, keys, table, late, IInv, TypeOK
  <2>2. LinksStay
    BY <1>9, NoChange DEF vars, table, IInv
  <2> QED BY <1>9, <2>1, <2>2, RowsIInv DEF vars, keys
<1> QED BY <1>1, <1>2, <1>3, <1>4, <1>5, <1>6, <1>7, <1>8, <1>9 DEF Next

LEMMA QRIInv == Spec => []IInv
  BY InitIInv, NextIInv, PTL DEF Spec

\* A token's two keys, qr:token and qr:claim, exist at once only after a copy of a
\* command put the token back: what qrClaimScript and qrReleaseScript move from one to
\* the other is never left behind in the first.
THEOREM KeysAreApart == Spec => []TypeOK
  BY QRIInv, PTL DEF IInv

\* Whoever works on a token has its claim, although no script asks whose it is, but for
\* those whose claim a copy of a command took: one for each such copy at most.
THEOREM OnlyRepeatedCommandsTakeClaims == Spec => []OnlyRepeatsTakeClaims
<1>1. ASSUME IInv PROVE OnlyRepeatsTakeClaims
  <2> SUFFICES ASSUME NEW t \in Token
               PROVE  Cardinality({k \in Holders(t) : claim[t].by # k}) <= putBack[t] + dropped[t]
    BY DEF OnlyRepeatsTakeClaims
  <2> DEFINE R == {k \in Holders(t) : claim[t].by # k}
  <2>1. /\ IsFiniteSet(Holders(t)) /\ Cardinality(Holders(t)) \in Nat
        /\ putBack[t] \in Nat /\ dropped[t] \in Nat
        /\ Cardinality(Holders(t)) <= Kept(t) + putBack[t] + dropped[t]
    BY <1>1, CountsTyped
  <2>2. CASE claim[t].by \in Holders(t)
    <3>1. Cardinality(R) \in Nat /\ Cardinality(R) + 1 <= Cardinality(Holders(t))
      <4>1. R \subseteq Holders(t) \ {claim[t].by}
        OBVIOUS
      <4> HIDE DEF R
      <4> QED BY <2>1, <2>2, <4>1, Loses
    <3>2. Kept(t) \in {0, 1}
      BY KeptTyped
    <3> HIDE DEF R
    <3>3. Cardinality(R) <= putBack[t] + dropped[t]
      BY <2>1, <3>1, <3>2
    <3> QED BY <3>3 DEF R
  <2>3. CASE claim[t].by \notin Holders(t)
    <3>1. Cardinality(R) \in Nat /\ Cardinality(R) <= Cardinality(Holders(t))
      <4>1. R \subseteq Holders(t)
        OBVIOUS
      <4> HIDE DEF R
      <4> QED BY <2>1, <4>1, Shrinks
    <3>2. Kept(t) = 0
      BY <2>3 DEF Kept
    <3> HIDE DEF R
    <3>3. Cardinality(R) <= putBack[t] + dropped[t]
      BY <2>1, <3>1, <3>2
    <3> QED BY <3>3 DEF R
  <2> QED BY <2>2, <2>3
<1> QED BY <1>1, QRIInv, PTL

\* The calls a code was answered to, those at work on it and the one a usable code stands
\* for are together no more than one, and one more for each copy of a command that put the
\* code back: no failure, expiry, crash or race of tills makes a code serve twice.
THEOREM OnlyRepeatedCommandsReuseCodes == Spec => []OnlyRepeatsReuseCodes
<1>1. ASSUME IInv PROVE OnlyRepeatsReuseCodes
  BY <1>1 DEF IInv, UsesAreCounted, Counts, Usable, OnlyRepeatsReuseCodes
<1> QED BY <1>1, QRIInv, PTL

\* The client ResolveQR answers with is linked to the code's account, whatever sales
\* register in between.
THEOREM ResolvedAreLinked == Spec => []AnswersAreLinked
<1>1. IInv => AnswersAreLinked
  BY DEF IInv, ResolvedAreWell, Row, AnswersAreLinked
<1> QED BY <1>1, QRIInv, PTL
===============================================================================
