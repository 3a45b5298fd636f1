-------------------------- MODULE AtomicLedgerProofs --------------------------
(***************************************************************************)
(* The invariants of the atomic ledger, after facts about the arithmetic   *)
(* of points, for every amount, rule and precision, and about sums, for    *)
(* every finite set of rows.  Every step that posts a row is first reduced *)
(* to what all three operations have in common (StepCases); each invariant *)
(* is then proved of that.                                                 *)
(*                                                                         *)
(* SumFunction is a fold, a recursive function.  That it computes a sum is *)
(* proved by taking a smallest counterexample (SmallestSubset) instead of  *)
(* by an induction rule: the table of partial sums exists and is unique,   *)
(* and any element may be added last.                                      *)
(***************************************************************************)
EXTENDS AtomicLedger, FiniteSets, FiniteSetTheorems, WellFoundedInduction, TLAPS

-------------------------------------------------------------------------------
\* Points

\* Floor division of naturals is a natural.
LEMMA DivIsNat ==
  ASSUME NEW a \in Nat, NEW b \in Nat, b > 0
  PROVE  a \div b \in Nat
<1>1. a \div b \in Int
  OBVIOUS
<1>2. a \div b >= 0
  OBVIOUS
<1> QED BY <1>1, <1>2

\* The product of naturals is a natural.
LEMMA ProductIsNat ==
  ASSUME NEW a \in Nat, NEW b \in Nat
  PROVE  a * b \in Nat
  OBVIOUS

\* What floor division means.
LEMMA DivBounds ==
  ASSUME NEW a \in Nat, NEW b \in Nat, b > 0
  PROVE  b * (a \div b) <= a /\ a < b * ((a \div b) + 1)
  OBVIOUS

\* The largest multiple of b not above a is the quotient's.
LEMMA DivIsUnique ==
  ASSUME NEW a \in Nat, NEW b \in Nat, b > 0, NEW q \in Int,
         b * q <= a, a < b * (q + 1)
  PROVE  a \div b = q
<1> DEFINE d == a \div b
<1>1. d \in Nat /\ b * d <= a /\ a < b * (d + 1)
  BY DivIsNat, DivBounds
<1>2. ~(d < q)
  <2>1. SUFFICES ASSUME d < q PROVE FALSE
    OBVIOUS
  <2>2. b * (d + 1) <= b * q
    BY <1>1, <2>1
  <2> QED BY <1>1, <2>2
<1>3. ~(q < d)
  <2>1. SUFFICES ASSUME q < d PROVE FALSE
    OBVIOUS
  <2>2. b * (q + 1) <= b * d
    BY <1>1, <2>1
  <2> QED BY <1>1, <2>2
<1> QED BY <1>1, <1>2, <1>3

\* Division by a positive number preserves the order.
LEMMA DivIsMonotone ==
  ASSUME NEW a \in Nat, NEW c \in Nat, NEW b \in Nat, b > 0, a <= c
  PROVE  a \div b <= c \div b
<1> DEFINE d == a \div b
           e == c \div b
<1>1. d \in Nat /\ b * d <= a
  BY DivIsNat, DivBounds
<1>2. e \in Nat /\ c < b * (e + 1)
  BY DivIsNat, DivBounds
<1>3. SUFFICES ASSUME e < d PROVE FALSE
  BY <1>1, <1>2
<1>4. b * (e + 1) <= b * d
  BY <1>1, <1>2, <1>3
<1> QED BY <1>1, <1>2, <1>4

-------------------------------------------------------------------------------
\* What a column keeps of an amount is an amount.
LEMMA StoredIsNat ==
  ASSUME NEW a \in Nat
  PROVE  Stored(a) \in Nat
<1>1. Cent \in Nat /\ Cent > 0 /\ 2 * Cent \in Nat /\ 2 * Cent > 0 /\ 2 * a + Cent \in Nat
  BY CentAssumption
<1>2. (2 * a + Cent) \div (2 * Cent) \in Nat
  BY <1>1, DivIsNat
<1> QED BY <1>1, <1>2, ProductIsNat DEF Stored

\* An amount in whole kopecks is stored as it is.
LEMMA WholeIsStored ==
  ASSUME NEW m \in Nat
  PROVE  Stored(m * Cent) = m * Cent
<1> DEFINE a == 2 * (m * Cent) + Cent
           b == 2 * Cent
<1>1. Cent \in Nat /\ Cent > 0 /\ b \in Nat /\ b > 0 /\ m * Cent \in Nat /\ a \in Nat
  BY CentAssumption, ProductIsNat
<1>2. b * m <= a /\ a < b * (m + 1)
  BY <1>1
<1>3. a \div b = m
  BY <1>1, <1>2, DivIsUnique
<1> QED BY <1>3 DEF Stored

\* Points earned are a natural number.
LEMMA EarnedIsNat ==
  ASSUME NEW rule \in Rule, NEW amount \in Nat
  PROVE  Earned(rule, amount) \in Nat
<1>1. rule.percent \in Nat
  BY DEF Rule
<1>2. amount * rule.percent \in Nat
  BY <1>1, ProductIsNat
<1>3. 10000 * Ruble \in Nat /\ 10000 * Ruble > 0
  BY CentAssumption DEF Ruble
<1>4. (amount * rule.percent) \div (10000 * Ruble) \in Nat
  BY <1>2, <1>3, DivIsNat
<1> QED BY <1>4 DEF Earned

\* The cap yields an integer no larger than the points asked for, and capping
\* again changes nothing.
LEMMA CappedIsCapped ==
  ASSUME NEW rule \in Rule, NEW amount \in Nat, NEW points \in Nat
  PROVE  /\ Capped(rule, amount, points) \in Nat
         /\ Capped(rule, amount, points) <= points
         /\ Capped(rule, amount, Capped(rule, amount, points)) = Capped(rule, amount, points)
<1> DEFINE cap == (amount * rule.maxPercent) \div (Ruble * rule.rate)
           limited == rule.maxPercent > 0 /\ rule.rate > 0
<1>1. rule.maxPercent \in Nat /\ rule.rate \in Nat /\ Ruble \in Nat /\ Ruble > 0
  BY CentAssumption DEF Rule, Ruble
<1>2. CASE limited
  <2>1. Ruble * rule.rate \in Nat /\ Ruble * rule.rate > 0
    BY <1>1, <1>2
  <2>2. amount * rule.maxPercent \in Nat
    BY <1>1, ProductIsNat
  <2>3. cap \in Nat
    BY <2>1, <2>2, DivIsNat
  <2> HIDE DEF cap
  <2>4. \A n : Capped(rule, amount, n) = IF limited /\ n > cap THEN cap ELSE n
    BY DEF Capped, cap
  <2> QED BY <1>2, <2>3, <2>4
<1>3. CASE ~limited
  <2>1. \A n : Capped(rule, amount, n) = n
    BY <1>3 DEF Capped
  <2> QED BY <2>1
<1> QED BY <1>2, <1>3

\* A refund's cumulative share lies between none and all of the points.
LEMMA ShareIsNat ==
  ASSUME NEW points \in Nat, NEW total \in Nat, NEW share \in Nat
  PROVE  RefundShare(points, total, share) \in Nat
<1>1. points * share \in Nat
  BY ProductIsNat
<1>2. total > 0 => (points * share) \div total \in Nat
  BY <1>1, DivIsNat
<1> QED BY <1>2 DEF RefundShare

\* A partial share never exceeds the points it is a share of.
LEMMA ShareIsAtMostAll ==
  ASSUME NEW points \in Nat, NEW total \in Nat, NEW share \in Nat, share <= total
  PROVE  RefundShare(points, total, share) <= points
<1>1. CASE share < total
  <2>1. points * share \in Nat /\ points * total \in Nat /\ total > 0
    BY <1>1, ProductIsNat
  <2>2. points * share <= points * total
    BY <1>1
  <2>3. (points * share) \div total <= (points * total) \div total
    BY <2>1, <2>2, DivIsMonotone
  <2>4. (points * total) \div total = points
    <3>1. total * points <= points * total /\ points * total < total * (points + 1)
      BY <2>1
    <3> QED BY <2>1, <3>1, DivIsUnique
  <2> QED BY <1>1, <2>3, <2>4 DEF RefundShare
<1>2. CASE share = total
  BY <1>2 DEF RefundShare
<1> QED BY <1>1, <1>2

\* A later refund never lowers the points already reversed.
LEMMA ShareIsMonotone ==
  ASSUME NEW points \in Nat, NEW total \in Nat, NEW before \in Nat, NEW after \in Nat,
         before <= after, after <= total
  PROVE  RefundShare(points, total, before) <= RefundShare(points, total, after)
<1>1. CASE after = total
  <2>1. RefundShare(points, total, after) = points
    BY <1>1 DEF RefundShare
  <2> QED BY <2>1, ShareIsAtMostAll
<1>2. CASE after < total
  <2>1. points * before \in Nat /\ points * after \in Nat /\ total > 0
    BY <1>2, ProductIsNat
  <2>2. points * before <= points * after
    OBVIOUS
  <2>3. (points * before) \div total <= (points * after) \div total
    BY <2>1, <2>2, DivIsMonotone
  <2> QED BY <1>2, <2>3 DEF RefundShare
<1> QED BY <1>1, <1>2

\* Rounding leaves whole kopecks alone, next to another amount as well.
LEMMA StoredIsWhole ==
  ASSUME NEW a \in Nat
  PROVE  \E m \in Nat : Stored(a) = m * Cent
<1>1. 2 * a + Cent \in Nat /\ 2 * Cent \in Nat /\ 2 * Cent > 0
  BY CentAssumption
<1> QED BY <1>1, DivIsNat DEF Stored

LEMMA StoredAddsUp ==
  ASSUME NEW a \in Nat, NEW m \in Nat
  PROVE  Stored(m * Cent + a) = m * Cent + Stored(a)
<1> DEFINE b == 2 * Cent
           x == 2 * a + Cent
           q == x \div b
<1>1. b \in Nat /\ b > 0 /\ x \in Nat /\ Cent \in Nat /\ m * Cent \in Nat
  BY CentAssumption, ProductIsNat
<1>2. q \in Nat /\ b * q <= x /\ x < b * (q + 1)
  BY <1>1, DivIsNat, DivBounds
<1>3. 2 * (m * Cent + a) + Cent = b * m + x /\ b * m \in Nat
  BY <1>1
<1> HIDE DEF b, x, q
<1>4. b * (m + q) = b * m + b * q /\ b * (m + q + 1) = b * m + b * (q + 1)
  BY <1>1, <1>2
<1>5. b * (m + q) <= b * m + x /\ b * m + x < b * (m + q + 1)
  BY <1>1, <1>2, <1>3, <1>4
<1>6. (b * m + x) \div b = m + q
  BY <1>1, <1>2, <1>3, <1>5, DivIsUnique
<1>7. (m + q) * Cent = m * Cent + q * Cent
  BY <1>1, <1>2
<1> QED BY <1>3, <1>6, <1>7 DEF Stored, b, x, q

LEMMA StoredIsAtMost ==
  ASSUME NEW a \in Nat, NEW m \in Nat, a <= m * Cent
  PROVE  Stored(a) <= m * Cent
<1> DEFINE b == 2 * Cent
           x == 2 * a + Cent
           q == x \div b
<1>1. b \in Nat /\ b > 0 /\ x \in Nat /\ Cent \in Nat /\ Cent > 0 /\ m * Cent \in Nat
  BY CentAssumption, ProductIsNat
<1>2. q \in Nat /\ b * q <= x
  BY <1>1, DivIsNat, DivBounds
<1>3. x < b * (m + 1)
  BY <1>1
<1> HIDE DEF x, q
<1>4. ~(q > m)
  <2> SUFFICES ASSUME q >= m + 1
               PROVE  FALSE
    BY <1>2
  <2> DEFINE n == m + 1
  <2>1. n \in Nat /\ q >= n
    OBVIOUS
  <2> HIDE DEF n, b
  <2>2. b * n <= b * q
    BY <1>1, <1>2, <2>1
  <2> QED BY <1>1, <1>2, <1>3, <2>1, <2>2 DEF n
<1>5. q * Cent <= m * Cent
  BY <1>1, <1>2, <1>4
<1> QED BY <1>5 DEF Stored, b, x, q

LEMMA NegatedZero == \A n \in Int : n <= 0 /\ n >= 0 => -n = 0
OBVIOUS

-------------------------------------------------------------------------------
\* Sums

\* The order in which a fold takes the elements of a set, and the fold's function:
\* the sum over every subset of w's domain.
Pick(s) == CHOOSE x \in s : TRUE

Partial(w) ==
  CHOOSE sum : sum = [s \in SUBSET DOMAIN w |->
                        IF s = {} THEN 0 ELSE w[Pick(s)] + sum[s \ {Pick(s)}]]

\* sum is a table of the sums of w over the subsets of S.
SumsOver(sum, w, S) ==
  /\ sum \in [SUBSET S -> Int]
  /\ \A s \in SUBSET S : sum[s] = IF s = {} THEN 0 ELSE w[Pick(s)] + sum[s \ {Pick(s)}]

\* The equation alone, as the fold states it.
Equation(g, w, S) ==
  g = [s \in SUBSET S |-> IF s = {} THEN 0 ELSE w[Pick(s)] + g[s \ {Pick(s)}]]

LEMMA PickIsMember ==
  ASSUME NEW s, s # {}
  PROVE  Pick(s) \in s
BY DEF Pick

LEMMA SumIsPartial ==
  ASSUME NEW w
  PROVE  SumFunction(w) = Partial(w)[DOMAIN w]
BY DEF SumFunction, SumFunctionOnSet, FoldFunctionOnSet, MapThenFoldSet, Partial, Pick

\* Induction over the subsets of a finite set: a class of them has a smallest one.
LEMMA SmallestSubset ==
  ASSUME NEW S, IsFiniteSet(S), NEW C \in SUBSET SUBSET S, C # {}
  PROVE  \E T \in C : \A U \in SUBSET T : U # T => U \notin C
<1>1. C \subseteq FiniteSubsetsOf(S)
  BY FS_Subset DEF FiniteSubsetsOf
<1>2. PICK T \in C : \A U \in C : <<U, T>> \notin StrictSubsetOrdering(S)
  BY <1>1, FS_StrictSubsetOrderingWellFounded, WFMin
<1>3. ASSUME NEW U \in SUBSET T, U # T
      PROVE  U \notin C
  BY <1>2, <1>3 DEF StrictSubsetOrdering
<1> QED BY <1>2, <1>3

\* A table of sums is determined by its equation.
LEMMA SumsAreUnique ==
  ASSUME NEW S, IsFiniteSet(S), NEW w, NEW f, SumsOver(f, w, S),
         NEW g, Equation(g, w, S)
  PROVE  g = f
<1> DEFINE C == {s \in SUBSET S : g[s] # f[s]}
<1>1. SUFFICES ASSUME C # {}
               PROVE  FALSE
  <2>1. f = [s \in SUBSET S |-> f[s]]
    BY DEF SumsOver
  <2>2. g = [s \in SUBSET S |-> g[s]]
    BY Zenon DEF Equation
  <2> SUFFICES ASSUME C = {} PROVE g = f
    OBVIOUS
  <2>3. \A s \in SUBSET S : g[s] = f[s]
    OBVIOUS
  <2> HIDE DEF C
  <2> QED BY <2>1, <2>2, <2>3
<1>2. PICK T \in C : \A U \in SUBSET T : U # T => U \notin C
  <2> HIDE DEF C
  <2>1. C \in SUBSET SUBSET S
    BY DEF C
  <2> QED BY <1>1, <2>1, SmallestSubset
<1>3. T # {}
  BY <1>2 DEF SumsOver, Equation
<1>4. Pick(T) \in T
  BY <1>3, PickIsMember
<1>5. g[T \ {Pick(T)}] = f[T \ {Pick(T)}]
  BY <1>2, <1>4
<1>6. g[T] = w[Pick(T)] + g[T \ {Pick(T)}]
  BY <1>2, <1>3 DEF Equation
<1>7. f[T] = w[Pick(T)] + f[T \ {Pick(T)}]
  BY <1>2, <1>3 DEF SumsOver
<1> QED BY <1>2, <1>5, <1>6, <1>7

LEMMA SumsOfSubset ==
  ASSUME NEW S, NEW w, NEW f, SumsOver(f, w, S), NEW T \in SUBSET S
  PROVE  SumsOver([s \in SUBSET T |-> f[s]], w, T)
<1> DEFINE g == [s \in SUBSET T |-> f[s]]
<1>1. g \in [SUBSET T -> Int]
  BY DEF SumsOver
<1>2. ASSUME NEW s \in SUBSET T
      PROVE  g[s] = IF s = {} THEN 0 ELSE w[Pick(s)] + g[s \ {Pick(s)}]
  <2>1. s \in SUBSET S /\ s \ {Pick(s)} \in SUBSET T
    OBVIOUS
  <2>2. g[s] = f[s] /\ g[s \ {Pick(s)}] = f[s \ {Pick(s)}]
    BY <2>1
  <2> QED BY <2>1, <2>2 DEF SumsOver
<1> QED BY <1>1, <1>2 DEF SumsOver

LEMMA SumsAgree ==
  ASSUME NEW S, IsFiniteSet(S), NEW w, NEW f, SumsOver(f, w, S), NEW g, SumsOver(g, w, S)
  PROVE  g = f
<1>1. Equation(g, w, S)
  BY DEF SumsOver, Equation
<1> QED BY <1>1, SumsAreUnique

LEMMA SumsExist ==
  ASSUME NEW S, IsFiniteSet(S), NEW w \in [S -> Int]
  PROVE  \E f : SumsOver(f, w, S)
<1> DEFINE C == {T \in SUBSET S : ~ \E f : SumsOver(f, w, T)}
<1>1. SUFFICES ASSUME C # {}
               PROVE  FALSE
  OBVIOUS
<1>2. PICK T \in C : \A U \in SUBSET T : U # T => U \notin C
  <2> HIDE DEF C
  <2>1. C \in SUBSET SUBSET S
    BY DEF C
  <2> QED BY <1>1, <2>1, SmallestSubset
<1>3. T \in SUBSET S /\ IsFiniteSet(T)
  BY <1>2, FS_Subset
<1> DEFINE F(U) == CHOOSE f : SumsOver(f, w, U)
           p == Pick(T)
           g == [s \in SUBSET T |->
                  IF s = {} THEN 0
                  ELSE IF s = T THEN w[p] + F(T \ {p})[T \ {p}] ELSE F(s)[s]]
<1>4. ASSUME NEW U \in SUBSET T, U # T
      PROVE  SumsOver(F(U), w, U)
  <2>1. U \in SUBSET S /\ U \notin C
    BY <1>2, <1>3, <1>4
  <2>2. \E f : SumsOver(f, w, U)
    BY <2>1
  <2> QED BY <2>2
<1> HIDE DEF F
<1>5. ASSUME NEW U \in SUBSET T, U # T, NEW s \in SUBSET U
      PROVE  F(U)[s] = F(s)[s]
  <2>1. SumsOver(F(U), w, U)
    BY <1>4, <1>5
  <2>2. SumsOver([v \in SUBSET s |-> F(U)[v]], w, s)
    <3> DEFINE h == F(U)
    <3> HIDE DEF h
    <3>1. SumsOver(h, w, U)
      BY <2>1 DEF h
    <3>2. SumsOver([v \in SUBSET s |-> h[v]], w, s)
      BY <3>1, SumsOfSubset
    <3> QED BY <3>2 DEF h
  <2>3. s \in SUBSET T /\ s # T /\ IsFiniteSet(s)
    BY <1>3, <1>5, FS_Subset
  <2>4. SumsOver(F(s), w, s)
    BY <1>4, <2>3
  <2>5. F(s) = [v \in SUBSET s |-> F(U)[v]]
    BY <2>2, <2>3, <2>4, SumsAgree
  <2>6. s \in SUBSET s
    OBVIOUS
  <2> QED BY <2>5, <2>6
<1>6. ASSUME NEW s \in SUBSET T, s # {}
      PROVE  /\ Pick(s) \in s /\ w[Pick(s)] \in Int
             /\ s \ {Pick(s)} \in SUBSET T /\ s \ {Pick(s)} # T
             /\ F(s \ {Pick(s)})[s \ {Pick(s)}] \in Int
  <2>1. Pick(s) \in s
    BY <1>6, PickIsMember
  <2>2. s \ {Pick(s)} \in SUBSET T /\ s \ {Pick(s)} # T
    BY <2>1
  <2>3. SumsOver(F(s \ {Pick(s)}), w, s \ {Pick(s)})
    BY <2>2, <1>4
  <2>4. s \ {Pick(s)} \in SUBSET (s \ {Pick(s)})
    OBVIOUS
  <2> QED BY <1>3, <2>1, <2>2, <2>3, <2>4 DEF SumsOver
<1>7. ASSUME NEW s \in SUBSET T, s # T
      PROVE  g[s] = F(s)[s] /\ g[s] \in Int
  <2>1. SumsOver(F(s), w, s)
    BY <1>4, <1>7
  <2>2. s \in SUBSET s
    OBVIOUS
  <2>3. F(s)[s] \in Int /\ (s = {} => F(s)[s] = 0)
    BY <2>1, <2>2 DEF SumsOver
  <2> QED BY <2>3, <1>7
<1>8. ASSUME NEW s \in SUBSET T, s # {}
      PROVE  g[s] = w[Pick(s)] + g[s \ {Pick(s)}] /\ g[s] \in Int
  <2>1. g[s \ {Pick(s)}] = F(s \ {Pick(s)})[s \ {Pick(s)}]
    BY <1>6, <1>7, <1>8
  <2>2. CASE s = T
    BY <2>1, <2>2, <1>6, <1>8
  <2>3. CASE s # T
    <3>1. SumsOver(F(s), w, s)
      BY <1>4, <2>3
    <3>2. s \in SUBSET s /\ s \ {Pick(s)} \in SUBSET s
      OBVIOUS
    <3>3. F(s)[s] = w[Pick(s)] + F(s)[s \ {Pick(s)}]
      BY <3>1, <3>2, <1>8 DEF SumsOver
    <3>4. F(s)[s \ {Pick(s)}] = F(s \ {Pick(s)})[s \ {Pick(s)}]
      BY <1>5, <2>3, <3>2
    <3>5. g[s] = F(s)[s]
      BY <1>7, <2>3
    <3> QED BY <2>1, <3>3, <3>4, <3>5, <1>6, <1>8
  <2> QED BY <2>2, <2>3
<1>9. g[{}] = 0
  OBVIOUS
<1>10. g \in [SUBSET T -> Int]
  <2> DEFINE value(s) == IF s = {} THEN 0
                         ELSE IF s = T THEN w[p] + F(T \ {p})[T \ {p}] ELSE F(s)[s]
  <2>1. g = [s \in SUBSET T |-> value(s)]
    OBVIOUS
  <2>2. \A s \in SUBSET T : value(s) = g[s]
    OBVIOUS
  <2> HIDE DEF value, g
  <2>3. ASSUME NEW s \in SUBSET T
        PROVE  value(s) \in Int
    <3>1. CASE s = {}
      BY <3>1, <2>2, <1>9
    <3>2. CASE s # {}
      BY <3>2, <2>2, <1>8
    <3> QED BY <3>1, <3>2
  <2> QED BY <2>1, <2>3
<1> HIDE DEF g
<1>11. SumsOver(g, w, T)
  BY <1>8, <1>9, <1>10 DEF SumsOver
<1> QED BY <1>2, <1>11

LEMMA PartialSums ==
  ASSUME NEW S, IsFiniteSet(S), NEW w \in [S -> Int]
  PROVE  SumsOver(Partial(w), w, S)
<1>1. PICK f : SumsOver(f, w, S)
  BY SumsExist
<1>2. Equation(f, w, S)
  BY <1>1 DEF SumsOver, Equation
<1>3. DOMAIN w = S
  OBVIOUS
<1>4. Equation(Partial(w), w, S)
  BY <1>2, <1>3 DEF Partial, Equation
<1> QED BY <1>1, <1>4, SumsAreUnique

\* In a table of sums, any element may be taken out first.
LEMMA AnyElementFirst ==
  ASSUME NEW S, IsFiniteSet(S), NEW w \in [S -> Int], NEW f, SumsOver(f, w, S),
         NEW t \in SUBSET S, NEW x \in t
  PROVE  f[t] = w[x] + f[t \ {x}]
<1> DEFINE C == {s \in SUBSET S : \E y \in s : f[s] # w[y] + f[s \ {y}]}
<1>1. SUFFICES ASSUME C # {}
               PROVE  FALSE
  OBVIOUS
<1>2. PICK T \in C : \A U \in SUBSET T : U # T => U \notin C
  <2> HIDE DEF C
  <2>1. C \in SUBSET SUBSET S
    BY DEF C
  <2> QED BY <1>1, <2>1, SmallestSubset
<1>3. PICK y \in T : f[T] # w[y] + f[T \ {y}]
  BY <1>2
<1> DEFINE p == Pick(T)
<1>4. p \in T /\ T \in SUBSET S /\ y \in S /\ p \in S /\ T # {}
  BY <1>2, <1>3, PickIsMember
<1> HIDE DEF p
<1>5. f[T] = w[p] + f[T \ {p}]
  BY <1>4 DEF SumsOver, p
<1>6. p # y
  BY <1>3, <1>5
<1>7. f[T \ {p}] = w[y] + f[(T \ {p}) \ {y}]
  <2>1. T \ {p} \in SUBSET T /\ T \ {p} # T /\ y \in T \ {p} /\ T \ {p} \in SUBSET S
    BY <1>4, <1>6
  <2> QED BY <1>2, <2>1
<1>8. f[T \ {y}] = w[p] + f[(T \ {y}) \ {p}]
  <2>1. T \ {y} \in SUBSET T /\ T \ {y} # T /\ p \in T \ {y} /\ T \ {y} \in SUBSET S
    BY <1>4, <1>6
  <2> QED BY <1>2, <2>1
<1>9. (T \ {p}) \ {y} = (T \ {y}) \ {p} /\ (T \ {p}) \ {y} \in SUBSET S
  BY <1>4
<1>10. w[p] \in Int /\ w[y] \in Int /\ f[(T \ {p}) \ {y}] \in Int
  BY <1>4, <1>9 DEF SumsOver
<1>11. \A a, b, c \in Int : a + (b + c) = b + (a + c)
  OBVIOUS
<1>12. f[T] = w[p] + (w[y] + f[(T \ {p}) \ {y}])
  BY <1>5, <1>7
<1>13. w[y] + f[T \ {y}] = w[y] + (w[p] + f[(T \ {p}) \ {y}])
  BY <1>8, <1>9
<1> QED BY <1>3, <1>10, <1>11, <1>12, <1>13

\* The sum over a part is an entry of the table of the whole.
LEMMA SumOfPart ==
  ASSUME NEW S, IsFiniteSet(S), NEW w \in [S -> Int], NEW T \in SUBSET S
  PROVE  /\ SumFunction([x \in T |-> w[x]]) = Partial(w)[T]
         /\ Partial(w)[T] \in Int
<1> DEFINE v == [x \in T |-> w[x]]
           f == [s \in SUBSET T |-> Partial(w)[s]]
<1>1. IsFiniteSet(T) /\ v \in [T -> Int] /\ DOMAIN v = T
  BY FS_Subset
<1>2. SumsOver(f, w, T) /\ Partial(w)[T] \in Int
  <2>1. SumsOver(Partial(w), w, S)
    BY PartialSums
  <2> QED BY <2>1, SumsOfSubset DEF SumsOver
<1>3. SumsOver(f, v, T)
  <2> HIDE DEF f
  <2>1. ASSUME NEW s \in SUBSET T, s # {}
        PROVE  v[Pick(s)] = w[Pick(s)]
    BY <2>1, PickIsMember
  <2> HIDE DEF v
  <2> QED BY <1>2, <2>1 DEF SumsOver
<1>4. SumsOver(Partial(v), v, T)
  <2> HIDE DEF v
  <2> QED BY <1>1, PartialSums
<1>5. Partial(v) = f
  <2> HIDE DEF v, f
  <2> QED BY <1>1, <1>3, <1>4, SumsAgree
<1>6. SumFunction(v) = Partial(v)[T]
  <2> HIDE DEF v
  <2> QED BY <1>1, SumIsPartial
<1>7. f[T] = Partial(w)[T]
  OBVIOUS
<1> QED BY <1>2, <1>5, <1>6, <1>7

\* A sum is an integer, that over nothing is 0, and any element can be taken out of it.
LEMMA SumIsInt ==
  ASSUME NEW S, IsFiniteSet(S), NEW w \in [S -> Int]
  PROVE  SumFunction(w) \in Int
<1>1. w = [x \in S |-> w[x]] /\ S \in SUBSET S
  OBVIOUS
<1> QED BY <1>1, SumOfPart

LEMMA SumOverNone ==
  ASSUME NEW w, DOMAIN w = {}
  PROVE  SumFunction(w) = 0
<1> DEFINE v == [x \in {} |-> 0]
           f == [s \in SUBSET {} |-> 0]
<1>1. Equation(f, w, {})
  BY DEF Equation
<1>2. Equation(Partial(w), w, {})
  BY <1>1 DEF Partial, Equation
<1>3. Partial(w)[{}] = 0
  BY <1>2 DEF Equation
<1> QED BY <1>3, SumIsPartial

LEMMA SumWithElement ==
  ASSUME NEW S, IsFiniteSet(S), NEW w \in [S -> Int], NEW x \in S
  PROVE  /\ SumFunction(w) = w[x] + SumFunction([y \in S \ {x} |-> w[y]])
         /\ SumFunction([y \in S \ {x} |-> w[y]]) \in Int
<1>1. S \in SUBSET S /\ S \ {x} \in SUBSET S /\ w = [y \in S |-> w[y]]
  OBVIOUS
<1>2. SumFunction(w) = Partial(w)[S]
  BY <1>1, SumOfPart
<1>3. /\ SumFunction([y \in S \ {x} |-> w[y]]) = Partial(w)[S \ {x}]
      /\ Partial(w)[S \ {x}] \in Int
  BY <1>1, SumOfPart
<1>4. Partial(w)[S] = w[x] + Partial(w)[S \ {x}]
  BY <1>1, PartialSums, AnyElementFirst
<1> QED BY <1>2, <1>3, <1>4

\* Without negative terms, a part does not exceed the whole.
LEMMA SumOfPartIsLess ==
  ASSUME NEW S, IsFiniteSet(S), NEW w \in [S -> Nat], NEW T \in SUBSET S
  PROVE  SumFunction([x \in T |-> w[x]]) <= SumFunction(w)
<1> DEFINE f == Partial(w)
           C == {s \in SUBSET S : T \subseteq s /\ ~(f[T] <= f[s])}
<1>1. w \in [S -> Int] /\ w = [x \in S |-> w[x]] /\ S \in SUBSET S
  OBVIOUS
<1>2. SumsOver(f, w, S)
  BY <1>1, PartialSums
<1>3. \A s \in SUBSET S : f[s] \in Int
  BY <1>2 DEF SumsOver
<1>4. SumFunction([x \in T |-> w[x]]) = f[T] /\ SumFunction(w) = f[S]
  BY <1>1, SumOfPart
<1> HIDE DEF f
<1>5. SUFFICES ASSUME C # {}
               PROVE  FALSE
  BY <1>1, <1>4
<1>6. PICK s \in C : \A U \in SUBSET s : U # s => U \notin C
  <2> HIDE DEF C
  <2>1. C \in SUBSET SUBSET S
    BY DEF C
  <2> QED BY <1>5, <2>1, SmallestSubset
<1>7. s # T /\ s \in SUBSET S /\ T \subseteq s
  BY <1>3, <1>6
<1>8. PICK y \in s : y \notin T
  BY <1>7
<1>9. s \ {y} \in SUBSET S /\ s \ {y} \in SUBSET s /\ s \ {y} # s /\ T \subseteq s \ {y}
  BY <1>7, <1>8
<1>10. f[T] <= f[s \ {y}]
  BY <1>6, <1>9
<1>11. f[s] = w[y] + f[s \ {y}]
  BY <1>1, <1>2, <1>7, AnyElementFirst
<1>12. w[y] \in Nat /\ f[s] \in Int /\ f[T] \in Int /\ f[s \ {y}] \in Int
  BY <1>3, <1>7, <1>9
<1>13. f[T] <= f[s]
  BY <1>10, <1>11, <1>12
<1> QED BY <1>6, <1>13

\* One more element adds its term.
LEMMA SumOfMore ==
  ASSUME NEW S, IsFiniteSet(S), NEW x, x \notin S, NEW w \in [S \cup {x} -> Int]
  PROVE  /\ SumFunction(w) = w[x] + SumFunction([y \in S |-> w[y]])
         /\ SumFunction([y \in S |-> w[y]]) \in Int
<1>1. IsFiniteSet(S \cup {x}) /\ x \in S \cup {x} /\ (S \cup {x}) \ {x} = S
  BY FS_AddElement
<1> QED BY <1>1, SumWithElement

-------------------------------------------------------------------------------
\* What is known of a row when it is committed under key k
Postable(k, w) ==
  /\ k \in Key /\ ~Posted(k) /\ w \in Row
  /\ w.after = balance[w.client] + w.delta /\ w.at \in 0..now
  /\ KindOf(k) # "refund" => w.orig = None
  /\ KindOf(k) = "accrual" => w.after >= 0
  /\ KindOf(k) = "redeem" =>
       /\ w.rule \in 1..Len(rules[k[1]])
       /\ balance[w.client] >= rules[k[1]][w.rule].minBalance
       /\ w.delta < 0 /\ w.after >= 0
       /\ -w.delta = Capped(rules[k[1]][w.rule], w.amount, -w.delta)
       /\ WithinDailyLimit(w.client, w.at, -w.delta)
  /\ KindOf(k) = "refund" =>
       /\ w.orig \in Key /\ Posted(w.orig) /\ KindOf(w.orig) # "refund"
       /\ w.client = txs[w.orig].client
       /\ w.cum = refunded[w.orig].amount + w.amount /\ w.cum <= txs[w.orig].amount
       /\ w.delta = RefundDelta(w.orig, w.cum)
       /\ KindOf(w.orig) = "redeem" => w.after >= 0

\* The row was asked for by one of the requests, with its amount.
Requested(w) == \E r \in Requests : w.amount = r.amount

\* It goes out with its own notice and perhaps an app invite.
Noticed(k, w, notices) ==
  \E invited \in BOOLEAN : notices = NoticesFor(k, w.delta) \cup InvitesFor(w.client, invited)

\* A key is a triple of the store, the kind and the number of its request.
LEMMA KeyOfRequest ==
  ASSUME NEW r \in Requests
  PROVE  /\ r \in Request /\ KeyOf(r) \in Key /\ KindOf(KeyOf(r)) = r.kind
         /\ KeyOf(r)[1] = r.store /\ r.amount \in Nat /\ r.amount > 0
  BY TablesAssumption DEF Request, KeyOf, Key, KindOf, Kind

\* A recorded key has a row.
LEMMA PostedRow ==
  ASSUME TablesTypeOK, NEW k \in Key, Posted(k)
  PROVE  txs[k] \in Row
  BY TablesAssumption DEF TablesTypeOK, Posted

\* The rows a request first fills in are rows.
LEMMA DraftIsRow ==
  ASSUME NEW r \in Requests
  PROVE  /\ Draft(r) \in Row /\ Draft(r).amount = r.amount /\ Draft(r).client = r.client
         /\ Draft(r).orig = None
<1>1. r \in Request /\ r.client \in Client /\ r.amount \in Nat /\ r.points \in Nat
      /\ r.kind \in Kind
  BY KeyOfRequest DEF Request
<1>2. Stored(r.amount) \in Nat
  BY <1>1, StoredIsNat
<1>3. Fingerprint(r, None) \in (Client \cup Key \cup {None}) \X Nat \X Nat
  BY <1>1, <1>2 DEF Fingerprint, Kind
<1> QED BY <1>1, <1>3 DEF Draft, Row

\* The points reversed of a recorded row are a natural number.
LEMMA ReversedIsNat ==
  ASSUME TablesTypeOK, NEW k \in Key, Posted(k), NEW cum \in Nat
  PROVE  /\ Magnitude(txs[k].delta) \in Nat /\ ReversedAt(k, cum) \in Nat
         /\ RefundDelta(k, cum) \in Int
<1>1. txs[k] \in Row /\ txs[k].delta \in Int /\ txs[k].amount \in Nat
  BY PostedRow DEF Row
<1>2. Magnitude(txs[k].delta) \in Nat
  BY <1>1 DEF Magnitude
<1>3. ReversedAt(k, cum) \in Nat
  BY <1>1, <1>2, ShareIsNat DEF ReversedAt
<1>4. refunded[k].points \in Int
  BY DEF TablesTypeOK
<1> QED BY <1>2, <1>3, <1>4 DEF RefundDelta

\* Each operation posts one row.
LEMMA AccruePosts ==
  ASSUME TablesTypeOK, NEW r \in Requests, Accrue(r)
  PROVE  \E w, notices :
           /\ w \in Row
           /\ Postable(KeyOf(r), w) /\ Requested(w) /\ Noticed(KeyOf(r), w, notices)
           /\ Commit(KeyOf(r), w, notices)
<1>1. PICK n \in 0..Len(rules[r.store]), at \in 0..now, invited \in BOOLEAN :
        LET points == IF n = 0 THEN 0 ELSE Earned(rules[r.store][n], r.amount)
            after  == balance[r.client] + points
            w      == [Draft(r) EXCEPT !.delta = points, !.after = after, !.at = at, !.rule = n]
        IN  /\ after >= 0
            /\ Commit(KeyOf(r), w, NoticesFor(KeyOf(r), points) \cup InvitesFor(r.client, invited))
  BY DEF Accrue
<1> DEFINE points == IF n = 0 THEN 0 ELSE Earned(rules[r.store][n], r.amount)
           after == balance[r.client] + points
           d == Draft(r)
           w == [d EXCEPT !.delta = points, !.after = after, !.at = at, !.rule = n]
<1>2. r.kind = "accrual" /\ ~Posted(KeyOf(r)) /\ r.store \in Store /\ r.client \in Client
      /\ KeyOf(r) \in Key /\ KindOf(KeyOf(r)) = "accrual" /\ r.amount \in Nat
  BY KeyOfRequest DEF Accrue, Request
<1>3. points \in Nat
  <2>1. rules[r.store] \in Seq(Rule)
    BY <1>2 DEF TablesTypeOK
  <2>2. n # 0 => rules[r.store][n] \in Rule
    BY <2>1
  <2> QED BY <1>2, <2>2, EarnedIsNat
<1>4. balance[r.client] \in Int /\ now \in Nat /\ n \in Nat /\ at \in Nat
  <2>1. Len(rules[r.store]) \in Nat
    BY <1>2 DEF TablesTypeOK
  <2> QED BY <1>2, <2>1 DEF TablesTypeOK
<1>5. /\ d \in Row /\ d.amount = r.amount /\ d.client = r.client /\ d.orig = None
      /\ after \in Int /\ points \in Int /\ n \in Nat /\ at \in Nat
  BY <1>3, <1>4, DraftIsRow
<1>6. Commit(KeyOf(r), w, NoticesFor(KeyOf(r), points) \cup InvitesFor(r.client, invited))
      /\ after >= 0
  BY <1>1
<1>7. after = balance[r.client] + points
  OBVIOUS
<1> HIDE DEF points, after, d
<1>8. /\ w \in Row /\ w.delta = points /\ w.after = after /\ w.at = at
      /\ w.client = d.client /\ w.orig = d.orig /\ w.amount = d.amount
  BY <1>5 DEF Row
<1> HIDE DEF w
<1>9. Postable(KeyOf(r), w)
  <2>1. w.at \in 0..now
    BY <1>8
  <2> QED BY <1>2, <1>5, <1>6, <1>7, <1>8, <2>1 DEF Postable
<1>10. Requested(w) /\ Noticed(KeyOf(r), w, NoticesFor(KeyOf(r), points) \cup InvitesFor(r.client, invited))
  BY <1>5, <1>8 DEF Requested, Noticed
<1> QED BY <1>6, <1>8, <1>9, <1>10

\* A redemption is a posting too: its row is priced by the stored rules.
LEMMA RedeemPosts ==
  ASSUME TablesTypeOK, NEW r \in Requests, Redeem(r)
  PROVE  \E w, notices :
           /\ w \in Row
           /\ Postable(KeyOf(r), w) /\ Requested(w) /\ Noticed(KeyOf(r), w, notices)
           /\ Commit(KeyOf(r), w, notices)
<1>1. PICK n \in 1..Len(rules[r.store]), at \in 0..now :
        LET rule   == rules[r.store][n]
            points == Capped(rule, r.amount, r.points)
            after  == balance[r.client] - points
            w      == [Draft(r) EXCEPT !.delta = -points, !.after = after, !.at = at, !.rule = n]
        IN  /\ points > 0 /\ after >= 0
            /\ balance[r.client] >= rule.minBalance
            /\ WithinDailyLimit(r.client, at, points)
            /\ Commit(KeyOf(r), w, NoticesFor(KeyOf(r), w.delta))
  BY DEF Redeem
<1> DEFINE rule == rules[r.store][n]
           points == Capped(rule, r.amount, r.points)
           after == balance[r.client] - points
           d == Draft(r)
           w == [d EXCEPT !.delta = -points, !.after = after, !.at = at, !.rule = n]
<1>2. r.kind = "redeem" /\ ~Posted(KeyOf(r)) /\ r.store \in Store /\ r.client \in Client
      /\ KeyOf(r) \in Key /\ KindOf(KeyOf(r)) = "redeem" /\ KeyOf(r)[1] = r.store
      /\ r.amount \in Nat /\ r.points \in Nat
  BY KeyOfRequest DEF Redeem, Request
<1>3. rule \in Rule /\ n \in Nat /\ at \in Nat /\ balance[r.client] \in Int
  BY <1>2 DEF TablesTypeOK
<1>4. points \in Nat /\ Capped(rule, r.amount, points) = points
  BY <1>2, <1>3, CappedIsCapped
<1>5. /\ d \in Row /\ d.amount = r.amount /\ d.client = r.client /\ d.orig = None
      /\ after \in Int /\ -points \in Int /\ -(-points) = points
  BY <1>3, <1>4, DraftIsRow
<1>6. /\ Commit(KeyOf(r), w, NoticesFor(KeyOf(r), w.delta))
      /\ points > 0 /\ after >= 0 /\ balance[r.client] >= rule.minBalance
      /\ WithinDailyLimit(r.client, at, points)
  BY <1>1
<1>7. after = balance[r.client] + (-points) /\ rule = rules[r.store][n] /\ -points < 0
  BY <1>3, <1>4, <1>6
<1> HIDE DEF points, after, d, rule
<1>8. /\ w \in Row /\ w.delta = -points /\ w.after = after /\ w.rule = n /\ w.at = at
      /\ w.client = d.client /\ w.orig = d.orig /\ w.amount = d.amount
  BY <1>3, <1>5 DEF Row
<1> HIDE DEF w
<1>9. Postable(KeyOf(r), w)
  <2>1. w.at \in 0..now /\ WithinDailyLimit(w.client, w.at, -w.delta)
    BY <1>5, <1>6, <1>8
  <2> QED BY <1>2, <1>4, <1>5, <1>6, <1>7, <1>8, <2>1 DEF Postable
<1>10. Requested(w) /\ Noticed(KeyOf(r), w, NoticesFor(KeyOf(r), w.delta))
  BY <1>5, <1>8 DEF Requested, Noticed, InvitesFor
<1> QED BY <1>6, <1>8, <1>9, <1>10

\* So is a refund: its row reverses a share of a posted original.
LEMMA RefundPosts ==
  ASSUME TablesTypeOK, NEW r \in Requests, Refund(r)
  PROVE  \E w, notices :
           /\ w \in Row
           /\ Postable(KeyOf(r), w) /\ Requested(w) /\ Noticed(KeyOf(r), w, notices)
           /\ Commit(KeyOf(r), w, notices)
<1>1. PICK orig \in Originals(r), at \in 0..now :
        LET cum   == refunded[orig].amount + r.amount
            delta == RefundDelta(orig, cum)
            after == balance[txs[orig].client] + delta
            w     == [Draft(r) EXCEPT !.client = txs[orig].client, !.delta = delta,
                        !.after = after, !.fingerprint = Fingerprint(r, orig), !.at = at,
                        !.orig = orig, !.cum = cum, !.full = (cum = txs[orig].amount)]
        IN  /\ Posted(orig) /\ cum <= txs[orig].amount
            /\ KindOf(orig) = "redeem" => after >= 0
            /\ Commit(KeyOf(r), w, NoticesFor(KeyOf(r), w.delta))
  BY DEF Refund
<1> DEFINE cum == refunded[orig].amount + r.amount
           delta == RefundDelta(orig, cum)
           c == txs[orig].client
           after == balance[c] + delta
           f == Fingerprint(r, orig)
           full == cum = txs[orig].amount
           d == Draft(r)
           w == [d EXCEPT !.client = c, !.delta = delta, !.after = after, !.fingerprint = f,
                          !.at = at, !.orig = orig, !.cum = cum, !.full = full]
<1>2. r.kind = "refund" /\ ~Posted(KeyOf(r)) /\ KeyOf(r) \in Key /\ KindOf(KeyOf(r)) = "refund"
      /\ r.amount \in Nat /\ Posted(orig)
  BY <1>1, KeyOfRequest DEF Refund
<1>3. orig \in Key /\ KindOf(orig) # "refund"
  <2>1. PICK t \in {"accrual", "redeem"} : orig = <<r.store, t, r.origExt>>
    BY KeyOfRequest DEF Originals, Request
  <2> QED BY <2>1, KeyOfRequest DEF Request, Key, Kind, KindOf
<1>4. txs[orig] \in Row /\ txs[orig].client \in Client /\ refunded[orig].amount \in Nat
  BY <1>2, <1>3, PostedRow DEF TablesTypeOK, Row
<1>5. cum \in Nat
  BY <1>2, <1>4
<1>6. delta \in Int
  BY <1>2, <1>3, <1>5, ReversedIsNat
<1>7. Fingerprint(r, orig) \in (Client \cup Key \cup {None}) \X Nat \X Nat
  BY <1>2, <1>3, StoredIsNat DEF Fingerprint
<1>8. balance[txs[orig].client] \in Int /\ at \in Nat
  BY <1>4 DEF TablesTypeOK
<1>9. /\ d \in Row /\ d.amount = r.amount
      /\ c \in Client /\ after \in Int /\ at \in Nat /\ full \in BOOLEAN
      /\ f \in (Client \cup Key \cup {None}) \X Nat \X Nat
  BY <1>4, <1>6, <1>7, <1>8, DraftIsRow
<1>10. /\ Commit(KeyOf(r), w, NoticesFor(KeyOf(r), w.delta))
       /\ cum <= txs[orig].amount
       /\ KindOf(orig) = "redeem" => after >= 0
  BY <1>1
<1>11. /\ c = txs[orig].client /\ after = balance[c] + delta
       /\ cum = refunded[orig].amount + r.amount /\ delta = RefundDelta(orig, cum)
  OBVIOUS
<1> HIDE DEF cum, delta, c, after, f, full, d
<1>12. /\ w \in Row /\ w.client = c /\ w.delta = delta /\ w.after = after
       /\ w.amount = d.amount /\ w.orig = orig /\ w.cum = cum /\ w.at = at
  BY <1>3, <1>5, <1>6, <1>9 DEF Row
<1> HIDE DEF w
<1>13. Postable(KeyOf(r), w)
  <2>1. w.at \in 0..now
    BY <1>12
  <2> QED BY <1>2, <1>3, <1>9, <1>10, <1>11, <1>12, <2>1 DEF Postable
<1>14. Requested(w) /\ Noticed(KeyOf(r), w, NoticesFor(KeyOf(r), w.delta))
  BY <1>9, <1>12 DEF Requested, Noticed, InvitesFor
<1> QED BY <1>10, <1>12, <1>13, <1>14

Posting ==
  \E k, w, notices :
    /\ k \in Key /\ w \in Row
    /\ Postable(k, w) /\ Requested(w) /\ Noticed(k, w, notices) /\ Commit(k, w, notices)

\* A step posts one row or changes neither rows nor balances.
LEMMA StepCases ==
  ASSUME TablesTypeOK, AtomicNext
  PROVE  \/ Posting
         \/ \E c \in Client : Register(c)
         \/ \E s \in Store, rule \in Rules : SaveRule(s, rule)
         \/ Tick
<1>1. CASE \E r \in Requests : Accrue(r) \/ Redeem(r) \/ Refund(r)
  <2>1. PICK r \in Requests : Accrue(r) \/ Redeem(r) \/ Refund(r)
    BY <1>1
  <2>2. KeyOf(r) \in Key
    BY KeyOfRequest
  <2>3. \E w, notices :
          /\ w \in Row
          /\ Postable(KeyOf(r), w) /\ Requested(w) /\ Noticed(KeyOf(r), w, notices)
          /\ Commit(KeyOf(r), w, notices)
    BY <2>1, AccruePosts, RedeemPosts, RefundPosts
  <2> QED BY <2>2, <2>3 DEF Posting
<1> QED BY <1>1 DEF AtomicNext

\* What Commit leaves in the tables
LEMMA CommitEffect ==
  ASSUME TablesTypeOK, NEW k \in Key, NEW w \in Row, NEW notices,
         Postable(k, w), Commit(k, w, notices)
  PROVE  /\ txs' \in [Key -> Row \cup {None}]
         /\ \A j \in Key : Posted(j)' <=> Posted(j) \/ j = k
         /\ \A j \in Key : j # k => txs'[j] = txs[j]
         /\ txs'[k] \in Row /\ txs'[k].client = w.client /\ txs'[k].delta = w.delta
         /\ txs'[k].after = w.after /\ txs'[k].rule = w.rule /\ txs'[k].orig = w.orig
         /\ txs'[k].amount = Stored(w.amount) /\ txs'[k].at = w.at
<1>1. ~Posted(k) /\ txs[k] = None /\ None \notin Row
  BY TablesAssumption DEF Postable, Posted
<1> DEFINE s == [w EXCEPT !.amount = Stored(w.amount), !.cum = Stored(w.cum)]
<1>2. Stored(w.amount) \in Nat /\ Stored(w.cum) \in Nat
  BY StoredIsNat DEF Row
<1>3. /\ s \in Row /\ s.client = w.client /\ s.delta = w.delta /\ s.after = w.after
      /\ s.rule = w.rule /\ s.orig = w.orig /\ s.amount = Stored(w.amount) /\ s.at = w.at
  BY <1>2 DEF Row
<1>4. txs' = [txs EXCEPT ![k] = s]
  BY DEF Commit
<1> HIDE DEF s
<1>5. txs \in [Key -> Row \cup {None}]
  BY DEF TablesTypeOK
<1>6. txs'[k] = s /\ \A j \in Key : j # k => txs'[j] = txs[j]
  BY <1>4, <1>5
<1>7. s # None
  BY <1>1, <1>3
<1>8. \A j \in Key : Posted(j)' <=> Posted(j) \/ j = k
  BY <1>6, <1>7 DEF Posted
<1>9. txs' \in [Key -> Row \cup {None}]
  BY <1>3, <1>4, <1>5
<1> QED BY <1>3, <1>6, <1>8, <1>9

\* What Commit leaves in the accounts of its clients
LEMMA CommitAccounts ==
  ASSUME TablesTypeOK, NEW k \in Key, NEW w \in Row, NEW notices, Commit(k, w, notices)
  PROVE  /\ journal' \in [Client -> Seq(Key)]
         /\ balance' \in [Client -> Int]
         /\ \A c \in Client : c # w.client =>
              journal'[c] = journal[c] /\ balance'[c] = balance[c]
         /\ Len(journal'[w.client]) = Len(journal[w.client]) + 1
         /\ journal'[w.client][Len(journal[w.client]) + 1] = k
         /\ \A i \in 1..Len(journal[w.client]) : journal'[w.client][i] = journal[w.client][i]
         /\ balance'[w.client] = w.after
<1>1. w.client \in Client /\ w.after \in Int
  BY DEF Row
<1>2. journal[w.client] \in Seq(Key) /\ journal \in [Client -> Seq(Key)]
      /\ balance \in [Client -> Int]
  BY <1>1 DEF TablesTypeOK
<1>3. journal' = [journal EXCEPT ![w.client] = Append(@, k)]
      /\ balance' = [balance EXCEPT ![w.client] = w.after]
  BY DEF Commit
<1>4. Append(journal[w.client], k) \in Seq(Key)
  BY <1>2
<1>5. journal'[w.client] = Append(journal[w.client], k)
  BY <1>1, <1>2, <1>3
<1> QED BY <1>1, <1>2, <1>3, <1>4, <1>5

\* The notices of an operation are outbox entries.
LEMMA NoticesAreEntries ==
  ASSUME NEW k \in Key, NEW w \in Row, NEW notices, Noticed(k, w, notices)
  PROVE  notices \subseteq Entry
<1>1. NoticeOf(k) \in Entry /\ InviteOf(w.client) \in Entry
  BY TablesAssumption DEF NoticeOf, InviteOf, Entry, Row
<1> QED BY <1>1 DEF Noticed, NoticesFor, InvitesFor

\* A posting keeps the tables well typed.
LEMMA PostingKeepsTypes ==
  ASSUME TablesTypeOK, Posting
  PROVE  TablesTypeOK'
<1>1. PICK k, w, notices :
        /\ k \in Key /\ w \in Row
        /\ Postable(k, w) /\ Requested(w) /\ Noticed(k, w, notices) /\ Commit(k, w, notices)
  BY DEF Posting
<1>2. clients' = clients /\ rules' = rules /\ now' = now /\ outbox' = outbox \cup notices
  BY <1>1 DEF Commit
<1>3. refunded' \in [Key -> [amount: Nat, points: Nat]]
  <2>1. CASE KindOf(k) # "refund"
    BY <1>1, <2>1 DEF Commit, TablesTypeOK
  <2>2. CASE KindOf(k) = "refund"
    <3>1. w.orig \in Key /\ Posted(w.orig) /\ w.cum \in Nat
      BY <1>1, <2>2 DEF Postable, Row
    <3>2. Stored(w.cum) \in Nat /\ ReversedAt(w.orig, w.cum) \in Nat
      BY <3>1, StoredIsNat, ReversedIsNat
    <3>3. refunded' = [refunded EXCEPT ![w.orig] =
                         [amount |-> Stored(w.cum), points |-> ReversedAt(w.orig, w.cum)]]
      BY <1>1, <2>2 DEF Commit
    <3> QED BY <3>1, <3>2, <3>3 DEF TablesTypeOK
  <2> QED BY <2>1, <2>2
<1> QED BY <1>1, <1>2, <1>3, CommitEffect, CommitAccounts, NoticesAreEntries DEF TablesTypeOK

\* Every step does.
LEMMA StepKeepsTypes ==
  ASSUME TablesTypeOK, [AtomicNext]_tables
  PROVE  TablesTypeOK'
<1>1. CASE Posting
  BY <1>1, PostingKeepsTypes
<1>2. CASE \E c \in Client : Register(c)
  BY <1>2 DEF Register, TablesTypeOK
<1>3. CASE \E s \in Store, rule \in Rules : SaveRule(s, rule)
  <2>1. PICK s \in Store, rule \in Rules : SaveRule(s, rule)
    BY <1>3
  <2>2. rule \in Rule /\ rules[s] \in Seq(Rule) /\ Append(rules[s], rule) \in Seq(Rule)
    BY TablesAssumption DEF TablesTypeOK
  <2> QED BY <2>1, <2>2 DEF SaveRule, TablesTypeOK
<1>4. CASE Tick
  BY <1>4 DEF Tick, TablesTypeOK
<1>5. CASE UNCHANGED tables
  BY <1>5 DEF tables, TablesTypeOK
<1> QED BY <1>1, <1>2, <1>3, <1>4, <1>5, StepCases

\* The tables stay well typed: LedgerRepository and LoyaltyConfigRepository write
\* only values of their columns' types.
THEOREM AtomicTypeCorrect == AtomicSpec => []TablesTypeOK
<1>1. TablesInit => TablesTypeOK
  BY DEF TablesInit, TablesTypeOK
<1> QED BY <1>1, StepKeepsTypes, PTL DEF AtomicSpec

-------------------------------------------------------------------------------
\* Accounts: every client's rows form an unbroken chain of balances, and every
\* recorded key stands in exactly one place of one account.

Accounts == TablesTypeOK /\ AccountsBalance /\ PostedOnce

\* The keys of an account are recorded.
LEMMA JournalIsPosted ==
  ASSUME Accounts, NEW c \in Client, NEW i \in 1..Len(journal[c])
  PROVE  journal[c][i] \in Key /\ Posted(journal[c][i])
<1>1. journal[c] \in Seq(Key) /\ journal[c][i] \in Key
  BY DEF Accounts, TablesTypeOK
<1> QED BY <1>1 DEF Accounts, PostedOnce

\* Before(c, i) reads the row before the i-th.
LEMMA BeforeIsInt ==
  ASSUME Accounts, NEW c \in Client, NEW i \in 1..(Len(journal[c]) + 1)
  PROVE  Before(c, i) \in Int
<1>1. CASE i = 1
  BY <1>1 DEF Before
<1>2. CASE i # 1
  <2>1. Len(journal[c]) \in Nat
    BY DEF Accounts, TablesTypeOK
  <2>2. i - 1 \in 1..Len(journal[c])
    BY <1>2, <2>1
  <2>3. journal[c][i - 1] \in Key /\ Posted(journal[c][i - 1])
    BY <2>2, JournalIsPosted
  <2>4. txs[journal[c][i - 1]] \in Row
    BY <2>3, PostedRow DEF Accounts
  <2> QED BY <1>2, <2>4 DEF Before, Row
<1> QED BY <1>1, <1>2

\* Committing a row adds it to the end of its client's account and leaves every
\* earlier row, and the balance before it, as they were.
LEMMA CommitKeepsBefore ==
  ASSUME Accounts, NEW k \in Key, NEW w \in Row, NEW notices,
         Postable(k, w), Commit(k, w, notices),
         NEW c \in Client
  PROVE  /\ \A i \in 1..Len(journal[c]) :
              journal'[c][i] = journal[c][i] /\ txs'[journal[c][i]] = txs[journal[c][i]]
         /\ \A i \in 1..(Len(journal[c]) + 1) : Before(c, i)' = Before(c, i)
<1>1. TablesTypeOK /\ Len(journal[c]) \in Nat
  BY DEF Accounts, TablesTypeOK
<1>2. \A i \in 1..Len(journal[c]) : journal'[c][i] = journal[c][i]
  BY <1>1, CommitAccounts
<1>3. \A i \in 1..Len(journal[c]) : journal[c][i] \in Key /\ journal[c][i] # k
  BY JournalIsPosted DEF Postable
<1>4. \A i \in 1..Len(journal[c]) : txs'[journal[c][i]] = txs[journal[c][i]]
  BY <1>1, <1>3, CommitEffect
<1>5. ASSUME NEW i \in 1..(Len(journal[c]) + 1) PROVE Before(c, i)' = Before(c, i)
  <2>1. CASE i = 1
    BY <2>1 DEF Before
  <2>2. CASE i # 1
    <3>1. i - 1 \in 1..Len(journal[c])
      BY <1>1, <2>2
    <3> QED BY <2>2, <3>1, <1>2, <1>4 DEF Before
  <2> QED BY <2>1, <2>2
<1> QED BY <1>2, <1>4, <1>5

\* A posting keeps the chain of balances.
LEMMA PostingKeepsBalance ==
  ASSUME Accounts, Posting
  PROVE  AccountsBalance'
<1>1. PICK k, w, notices :
        /\ k \in Key /\ w \in Row
        /\ Postable(k, w) /\ Requested(w) /\ Noticed(k, w, notices) /\ Commit(k, w, notices)
  BY DEF Posting
<1>2. TablesTypeOK /\ AccountsBalance
  BY DEF Accounts
<1> SUFFICES ASSUME NEW c \in Client
             PROVE  /\ \A i \in 1..Len(journal'[c]) :
                         /\ txs'[journal'[c][i]].client = c
                         /\ txs'[journal'[c][i]].after = Before(c, i)' + txs'[journal'[c][i]].delta
                    /\ balance'[c] = Before(c, Len(journal[c]) + 1)'
  BY DEF AccountsBalance
<1>3. PICK n \in Nat : n = Len(journal[c])
  BY <1>2 DEF TablesTypeOK
<1>4. \A i \in 1..n :
        /\ txs[journal[c][i]].client = c
        /\ txs[journal[c][i]].after = Before(c, i) + txs[journal[c][i]].delta
  BY <1>2, <1>3 DEF AccountsBalance
<1>5. balance[c] = Before(c, n + 1)
  BY <1>2, <1>3 DEF AccountsBalance
<1>6. \A i \in 1..n :
        /\ txs'[journal'[c][i]].client = c
        /\ txs'[journal'[c][i]].after = Before(c, i)' + txs'[journal'[c][i]].delta
  <2>1. \A i \in 1..n : i \in 1..(n + 1)
    BY <1>3
  <2> QED BY <1>1, <1>3, <1>4, <2>1, CommitKeepsBefore
<1>7. Before(c, n + 1)' = Before(c, n + 1)
  <2>1. n + 1 \in 1..(Len(journal[c]) + 1)
    BY <1>3
  <2> QED BY <1>1, <2>1, CommitKeepsBefore
<1>8. CASE c # w.client
  <2>1. Len(journal'[c]) = n /\ balance'[c] = balance[c]
    BY <1>1, <1>2, <1>3, <1>8, CommitAccounts
  <2> QED BY <1>5, <1>6, <1>7, <2>1
<1>9. CASE c = w.client
  <2>1. Len(journal'[c]) = n + 1 /\ journal'[c][n + 1] = k /\ balance'[c] = w.after
    BY <1>1, <1>2, <1>3, <1>9, CommitAccounts
  <2>2. txs'[k].client = c /\ txs'[k].delta = w.delta /\ txs'[k].after = w.after
    BY <1>1, <1>2, <1>9, CommitEffect
  <2>3. w.after = balance[c] + w.delta
    BY <1>1, <1>9 DEF Postable
  <2>4. txs'[k].after = Before(c, n + 1)' + txs'[k].delta
    BY <1>5, <1>7, <2>2, <2>3
  <2>5. Before(c, n + 2)' = txs'[k].after
    BY <1>3, <2>1 DEF Before
  <2>6. \A i \in 1..(n + 1) : i \in 1..n \/ i = n + 1
    BY <1>3
  <2>7. \A i \in 1..Len(journal'[c]) :
          /\ txs'[journal'[c][i]].client = c
          /\ txs'[journal'[c][i]].after = Before(c, i)' + txs'[journal'[c][i]].delta
    BY <1>6, <2>1, <2>2, <2>4, <2>6
  <2>8. balance'[c] = Before(c, Len(journal[c]) + 1)'
    <3>1. Len(journal'[c]) + 1 = n + 2
      BY <1>3, <2>1
    <3> QED BY <2>1, <2>2, <2>5, <3>1
  <2> QED BY <2>7, <2>8
<1> QED BY <1>8, <1>9

\* A posting puts its key at the end of one account.
LEMMA PostingKeepsPostedOnce ==
  ASSUME Accounts, Posting
  PROVE  PostedOnce'
<1>1. PICK k, w, notices :
        /\ k \in Key /\ w \in Row
        /\ Postable(k, w) /\ Requested(w) /\ Noticed(k, w, notices) /\ Commit(k, w, notices)
  BY DEF Posting
<1>2. TablesTypeOK /\ PostedOnce /\ w.client \in Client
  BY <1>1 DEF Accounts, Row
<1>3. ~Posted(k)
  BY <1>1 DEF Postable
<1>4. \A j \in Key : Posted(j)' <=> Posted(j) \/ j = k
  BY <1>1, <1>2, CommitEffect
<1>5. /\ \A c \in Client : c # w.client => journal'[c] = journal[c]
      /\ Len(journal'[w.client]) = Len(journal[w.client]) + 1
      /\ journal'[w.client][Len(journal[w.client]) + 1] = k
      /\ \A i \in 1..Len(journal[w.client]) : journal'[w.client][i] = journal[w.client][i]
  BY <1>1, <1>2, CommitAccounts
<1>6. \A c \in Client : Len(journal[c]) \in Nat
  BY <1>2 DEF TablesTypeOK
<1>7. \A c \in Client : \A i \in 1..Len(journal[c]) : journal[c][i] # k
  BY <1>3, JournalIsPosted
<1>8. ASSUME NEW c \in Client, NEW i \in 1..Len(journal'[c]), NEW j \in 1..Len(journal'[c]),
             journal'[c][i] = journal'[c][j]
      PROVE  i = j
  <2>1. CASE c # w.client
    BY <1>2, <1>5, <1>8, <2>1 DEF PostedOnce
  <2>2. CASE c = w.client
    <3>1. i \in 1..Len(journal[c]) \/ i = Len(journal[c]) + 1
      BY <1>5, <1>6, <2>2
    <3>2. j \in 1..Len(journal[c]) \/ j = Len(journal[c]) + 1
      BY <1>5, <1>6, <2>2
    <3> DEFINE n == Len(journal[c])
    <3>3. /\ journal'[c][n + 1] = k /\ c \in Client
          /\ \A m \in 1..n : journal'[c][m] = journal[c][m] /\ journal[c][m] # k
          /\ \A l, m \in 1..n : journal[c][l] = journal[c][m] => l = m
      BY <1>2, <1>5, <1>7, <2>2 DEF PostedOnce
    <3> HIDE DEF n
    <3> QED BY <1>8, <3>1, <3>2, <3>3 DEF n
  <2> QED BY <2>1, <2>2
<1>9. ASSUME NEW j \in Key
      PROVE  Posted(j)' <=> \E c \in Client : \E i \in 1..Len(journal'[c]) : journal'[c][i] = j
  <2>1. ASSUME Posted(j)' PROVE \E c \in Client : \E i \in 1..Len(journal'[c]) : journal'[c][i] = j
    <3>1. CASE j = k
      <4>1. Len(journal[w.client]) + 1 \in 1..Len(journal'[w.client])
        BY <1>2, <1>5, <1>6
      <4> QED BY <1>2, <1>5, <3>1, <4>1
    <3>2. CASE j # k
      <4>1. PICK c \in Client : \E i \in 1..Len(journal[c]) : journal[c][i] = j
        BY <1>2, <1>4, <2>1, <3>2 DEF PostedOnce
      <4> PICK i \in 1..Len(journal[c]) : journal[c][i] = j
        BY <4>1
      <4>2. i \in 1..Len(journal'[c]) /\ journal'[c][i] = j
        BY <1>5, <1>6, <4>1
      <4> QED BY <4>2
    <3> QED BY <3>1, <3>2
  <2>2. ASSUME NEW c \in Client, NEW i \in 1..Len(journal'[c]), journal'[c][i] = j PROVE Posted(j)'
    <3>1. i \in 1..Len(journal[c]) \/ (c = w.client /\ i = Len(journal[c]) + 1)
      BY <1>5, <1>6
    <3>2. CASE i \in 1..Len(journal[c])
      <4>1. journal[c][i] = j
        BY <1>5, <2>2, <3>2
      <4> QED BY <1>4, <3>2, <4>1, JournalIsPosted
    <3>3. CASE c = w.client /\ i = Len(journal[c]) + 1
      BY <1>4, <1>5, <2>2, <3>3
    <3> QED BY <3>1, <3>2, <3>3
  <2> QED BY <2>1, <2>2
<1> QED BY <1>8, <1>9 DEF PostedOnce

\* Every client's points are accounted for row by row and every operation counts
\* once: what LedgerRepository gains by writing the row and the balance in one
\* transaction.
THEOREM AtomicAccounts == AtomicSpec => [](AccountsBalance /\ PostedOnce)
<1>1. TablesInit => AccountsBalance /\ PostedOnce
  BY DEF TablesInit, AccountsBalance, PostedOnce, Before, Posted
<1>2. ASSUME TablesTypeOK, AccountsBalance /\ PostedOnce, [AtomicNext]_tables
      PROVE  (AccountsBalance /\ PostedOnce)'
  <2>1. CASE Posting
    BY <1>2, <2>1, PostingKeepsBalance, PostingKeepsPostedOnce DEF Accounts
  <2>2. CASE UNCHANGED <<txs, journal, balance>>
    <3>1. \A c, i : Before(c, i)' = Before(c, i)
      BY <2>2 DEF Before
    <3> QED BY <1>2, <2>2, <3>1 DEF AccountsBalance, PostedOnce, Posted
  <2>3. Posting \/ UNCHANGED <<txs, journal, balance>>
    BY <1>2, StepCases DEF Register, SaveRule, Tick, tables
  <2> QED BY <2>1, <2>2, <2>3
<1> QED BY <1>1, <1>2, AtomicTypeCorrect, PTL DEF AtomicSpec

\* A step that is no posting leaves the rows, the accounts and their notices alone;
\* versions of the rules are only ever added.
LEMMA OtherSteps ==
  ASSUME TablesTypeOK, [AtomicNext]_tables, ~Posting
  PROVE  /\ UNCHANGED <<balance, txs, refunded, journal, outbox>>
         /\ \A s \in Store : /\ Len(rules[s]) <= Len(rules'[s])
                             /\ \A n \in 1..Len(rules[s]) : rules'[s][n] = rules[s][n]
<1>1. CASE \E s \in Store, rule \in Rules : SaveRule(s, rule)
  <2>1. PICK s \in Store, rule \in Rules : SaveRule(s, rule)
    BY <1>1
  <2>2. rules' = [rules EXCEPT ![s] = Append(@, rule)] /\ rules \in [Store -> Seq(Rule)]
        /\ rule \in Rule
    BY <2>1, TablesAssumption DEF SaveRule, TablesTypeOK
  <2>3. ASSUME NEW t \in Store
        PROVE  /\ Len(rules[t]) <= Len(rules'[t])
               /\ \A n \in 1..Len(rules[t]) : rules'[t][n] = rules[t][n]
    <3>1. rules[t] \in Seq(Rule) /\ rules'[t] = IF t = s THEN Append(rules[t], rule) ELSE rules[t]
      BY <2>2
    <3> QED BY <2>2, <3>1
  <2> QED BY <2>1, <2>3 DEF SaveRule
<1>2. CASE UNCHANGED <<rules, balance, txs, refunded, journal, outbox>>
  <2>1. \A s \in Store : Len(rules[s]) \in Nat
    BY DEF TablesTypeOK
  <2> QED BY <1>2, <2>1
<1> QED BY <1>1, <1>2, StepCases DEF Register, Tick, tables

\* A notification is queued if and only if its operation is recorded: the outbox
\* entry is inserted in the posting transaction.
THEOREM AtomicNotices == AtomicSpec => []NotifiedIffPosted
<1>1. TablesInit => NotifiedIffPosted
  BY DEF TablesInit, NotifiedIffPosted, Posted
<1>2. ASSUME TablesTypeOK, NotifiedIffPosted, [AtomicNext]_tables
      PROVE  NotifiedIffPosted'
  <2>1. CASE Posting
    <3>1. PICK k, w, notices :
            /\ k \in Key /\ w \in Row
            /\ Postable(k, w) /\ Requested(w) /\ Noticed(k, w, notices) /\ Commit(k, w, notices)
      BY <2>1 DEF Posting
    <3> SUFFICES ASSUME NEW j \in Key
                 PROVE  NoticeOf(j) \in outbox' <=>
                          Posted(j)' /\ NoticesFor(j, txs'[j].delta) # {}
      BY DEF NotifiedIffPosted, NoticeOf, NoticesFor, KindOf
    <3>2. outbox' = outbox \cup notices
      BY <3>1 DEF Commit
    <3>3. NoticeOf(j) \in notices <=> j = k /\ NoticesFor(k, w.delta) # {}
      BY <3>1 DEF Noticed, NoticesFor, InvitesFor, NoticeOf, InviteOf
    <3>4. NoticeOf(j) \in outbox <=> Posted(j) /\ NoticesFor(j, txs[j].delta) # {}
      BY <1>2 DEF NotifiedIffPosted
    <3>5. ~Posted(k) /\ txs'[k].delta = w.delta /\ (j # k => txs'[j] = txs[j])
          /\ (Posted(j)' <=> Posted(j) \/ j = k)
      BY <1>2, <3>1, CommitEffect DEF Postable
    <3> QED BY <3>2, <3>3, <3>4, <3>5
  <2>2. CASE ~Posting
    BY <1>2, <2>2, OtherSteps DEF NotifiedIffPosted, Posted
  <2> QED BY <2>1, <2>2
<1> QED BY <1>1, <1>2, AtomicTypeCorrect, PTL DEF AtomicSpec

\* The last row of an account in debt
LEMMA DebtHasLastRow ==
  ASSUME Accounts, NEW c \in Client, balance[c] < 0
  PROVE  Len(journal[c]) \in 1..Len(journal[c])
<1>1. balance[c] = Before(c, Len(journal[c]) + 1) /\ Len(journal[c]) \in Nat
  BY DEF Accounts, AccountsBalance, TablesTypeOK
<1>2. Len(journal[c]) # 0
  BY <1>1 DEF Before
<1> QED BY <1>1, <1>2

\* Only the refund of an accrual leaves a debt: every other posting updates the
\* balance under the guard points + delta >= 0.
THEOREM AtomicDebt == AtomicSpec => []DebtComesFromRefund
<1>1. TablesInit => DebtComesFromRefund
  BY DEF TablesInit, DebtComesFromRefund
<1>2. ASSUME Accounts, DebtComesFromRefund, [AtomicNext]_tables
      PROVE  DebtComesFromRefund'
  <2>1. TablesTypeOK
    BY <1>2 DEF Accounts
  <2>2. CASE Posting
    <3>1. PICK k, w, notices :
            /\ k \in Key /\ w \in Row
            /\ Postable(k, w) /\ Requested(w) /\ Noticed(k, w, notices) /\ Commit(k, w, notices)
      BY <2>2 DEF Posting
    <3> SUFFICES ASSUME NEW c \in Client, balance'[c] < 0
                 PROVE  LET last == journal'[c][Len(journal'[c])]
                        IN  KindOf(last) = "refund" /\ KindOf(txs'[last].orig) = "accrual"
      BY DEF DebtComesFromRefund, KindOf
    <3>2. CASE c = w.client
      <4>1. journal'[c][Len(journal'[c])] = k /\ w.after < 0 /\ txs'[k].orig = w.orig
        BY <2>1, <3>1, <3>2, CommitAccounts, CommitEffect
      <4>2. KindOf(k) = "refund" /\ w.orig \in Key /\ KindOf(w.orig) \notin {"refund", "redeem"}
        <5>1. KindOf(k) \in Kind /\ w.after \in Int
          BY <3>1 DEF Key, KindOf, Row
        <5> QED BY <3>1, <4>1, <5>1 DEF Postable, Kind
      <4>3. KindOf(w.orig) \in Kind
        BY <4>2 DEF Key, KindOf
      <4> QED BY <4>1, <4>2, <4>3 DEF Kind
    <3>3. CASE c # w.client
      <4>1. journal'[c] = journal[c] /\ balance'[c] = balance[c]
        BY <2>1, <3>1, <3>3, CommitAccounts
      <4>2. Len(journal[c]) \in 1..Len(journal[c])
        BY <1>2, <4>1, DebtHasLastRow
      <4>3. txs'[journal[c][Len(journal[c])]] = txs[journal[c][Len(journal[c])]]
        BY <1>2, <3>1, <4>2, CommitKeepsBefore
      <4> QED BY <1>2, <4>1, <4>3 DEF DebtComesFromRefund
    <3> QED BY <3>2, <3>3
  <2>3. CASE ~Posting
    BY <1>2, <2>1, <2>3, OtherSteps DEF DebtComesFromRefund
  <2> QED BY <2>2, <2>3
<1>3. AtomicSpec => []Accounts
  BY AtomicTypeCorrect, AtomicAccounts, PTL DEF Accounts
<1> QED BY <1>1, <1>2, <1>3, PTL DEF AtomicSpec

-------------------------------------------------------------------------------
\* What holds when every request names an amount in whole kopecks, so that no
\* column rounds what the code has compared.

WholeKopecks == \A r \in Requests : \E m \in Nat : r.amount = m * Cent

\* An amount that was asked for is stored as it is.
LEMMA RequestedIsWhole ==
  ASSUME WholeKopecks, NEW w \in Row, Requested(w)
  PROVE  (\E m \in Nat : w.amount = m * Cent) /\ Stored(w.amount) = w.amount /\ w.amount > 0
<1>1. PICK r \in Requests : w.amount = r.amount
  BY DEF Requested
<1>2. PICK m \in Nat : r.amount = m * Cent
  BY DEF WholeKopecks
<1> QED BY <1>1, <1>2, WholeIsStored, KeyOfRequest

\* A redemption's row names a version of the rules that is kept.
RulesAreKept ==
  \A k \in Key : Posted(k) /\ KindOf(k) = "redeem" => txs[k].rule \in 1..Len(rules[k[1]])

\* A redemption found the minimum balance of its rules, took points within their
\* cap and left no debt: PostRedeemChecked checks all of it under the lock of the
\* balance it changes.
THEOREM AtomicRedeems ==
  ASSUME WholeKopecks PROVE AtomicSpec => []RedeemsWithinRules
<1> DEFINE Inv == RulesAreKept /\ RedeemsWithinRules
<1>1. TablesInit => Inv
  BY DEF TablesInit, RedeemsWithinRules, RulesAreKept, Posted
<1>2. ASSUME Accounts, Inv, [AtomicNext]_tables
      PROVE  Inv'
  <2>1. TablesTypeOK
    BY <1>2 DEF Accounts
  <2>2. CASE Posting
    <3>1. PICK k, w, notices :
            /\ k \in Key /\ w \in Row
            /\ Postable(k, w) /\ Requested(w) /\ Noticed(k, w, notices) /\ Commit(k, w, notices)
      BY <2>2 DEF Posting
    <3>2. rules' = rules
      BY <3>1 DEF Commit
    <3>3. /\ \A j \in Key : Posted(j)' <=> Posted(j) \/ j = k
          /\ \A j \in Key : j # k => txs'[j] = txs[j]
          /\ txs'[k].rule = w.rule /\ txs'[k].amount = w.amount
          /\ txs'[k].delta = w.delta /\ txs'[k].after = w.after
      BY <2>1, <3>1, CommitEffect, RequestedIsWhole
    <3>4. RulesAreKept'
      BY <1>2, <3>1, <3>2, <3>3 DEF RulesAreKept, Postable
    <3>5. ASSUME NEW c \in Client, NEW i \in 1..Len(journal'[c]), KindOf(journal'[c][i]) = "redeem"
          PROVE  LET j == journal'[c][i]
                     rule == rules'[j[1]][txs'[j].rule]
                 IN  /\ Before(c, i)' >= rule.minBalance
                     /\ txs'[j].delta < 0 /\ txs'[j].after >= 0
                     /\ -txs'[j].delta = Capped(rule, txs'[j].amount, -txs'[j].delta)
      <4>1. Len(journal[c]) \in Nat
        BY <2>1 DEF TablesTypeOK
      <4>2. i \in 1..Len(journal[c]) \/ (c = w.client /\ i = Len(journal[c]) + 1)
        BY <2>1, <3>1, <4>1, CommitAccounts
      <4>3. CASE i \in 1..Len(journal[c])
        <5>1. i \in 1..(Len(journal[c]) + 1)
          BY <4>1, <4>3
        <5>2. journal'[c][i] = journal[c][i] /\ txs'[journal[c][i]] = txs[journal[c][i]]
              /\ Before(c, i)' = Before(c, i)
          BY <1>2, <3>1, <4>3, <5>1, CommitKeepsBefore
        <5> QED BY <1>2, <3>2, <3>5, <4>3, <5>2 DEF RedeemsWithinRules
      <4>4. CASE c = w.client /\ i = Len(journal[c]) + 1
        <5>1. journal'[c][i] = k
          BY <2>1, <3>1, <4>4, CommitAccounts
        <5>2. Before(c, i)' = Before(c, i)
          <6>1. i \in 1..(Len(journal[c]) + 1)
            BY <4>1, <4>4
          <6> QED BY <1>2, <3>1, <6>1, CommitKeepsBefore
        <5>3. Before(c, i) = balance[c]
          BY <1>2, <4>4 DEF Accounts, AccountsBalance
        <5> QED BY <3>1, <3>2, <3>3, <3>5, <4>4, <5>1, <5>2, <5>3 DEF Postable
      <4> QED BY <4>2, <4>3, <4>4
    <3>6. RedeemsWithinRules'
      BY <3>5 DEF RedeemsWithinRules, KindOf
    <3> QED BY <3>4, <3>6
  <2>3. CASE ~Posting
    <3>1. /\ UNCHANGED <<balance, txs, refunded, journal, outbox>>
          /\ \A s \in Store : /\ Len(rules[s]) <= Len(rules'[s])
                              /\ \A n \in 1..Len(rules[s]) : rules'[s][n] = rules[s][n]
      BY <1>2, <2>1, <2>3, OtherSteps
    <3>2. \A s \in Store : Len(rules[s]) \in Nat
      BY <2>1 DEF TablesTypeOK
    <3>3. \A k \in Key : k[1] \in Store
      BY DEF Key
    <3>4. ASSUME NEW k \in Key, Posted(k), KindOf(k) = "redeem"
          PROVE  txs'[k].rule \in 1..Len(rules'[k[1]])
                 /\ rules'[k[1]][txs'[k].rule] = rules[k[1]][txs[k].rule]
      <4>1. txs[k].rule \in 1..Len(rules[k[1]]) /\ Len(rules[k[1]]) <= Len(rules'[k[1]])
            /\ Len(rules[k[1]]) \in Nat
        BY <1>2, <3>1, <3>2, <3>3, <3>4 DEF RulesAreKept
      <4>2. Len(rules'[k[1]]) \in Nat
        BY <1>2, <2>1, <3>3, StepKeepsTypes DEF TablesTypeOK
      <4> QED BY <3>1, <3>3, <4>1, <4>2
    <3>5. RulesAreKept'
      BY <3>1, <3>4 DEF RulesAreKept, Posted
    <3>6. \A c, i : Before(c, i)' = Before(c, i)
      BY <3>1 DEF Before
    <3>7. \A c \in Client : \A i \in 1..Len(journal[c]) :
            journal[c][i] \in Key /\ Posted(journal[c][i])
      BY <1>2, JournalIsPosted
    <3>8. RedeemsWithinRules'
      BY <1>2, <3>1, <3>4, <3>6, <3>7 DEF RedeemsWithinRules
    <3> QED BY <3>5, <3>8
  <2> QED BY <2>2, <2>3
<1>3. AtomicSpec => []Accounts
  BY AtomicTypeCorrect, AtomicAccounts, PTL DEF Accounts
<1>4. Inv => RedeemsWithinRules
  OBVIOUS
<1> HIDE DEF Inv
<1> QED BY <1>1, <1>2, <1>3, <1>4, PTL DEF AtomicSpec

\* Refunded totals are in whole kopecks, start from nothing, and belong to rows
\* of a positive amount.
TotalsAreWhole ==
  \A k \in Key :
    /\ \E m \in Nat : refunded[k].amount = m * Cent
    /\ ~Posted(k) => refunded[k].amount = 0 /\ refunded[k].points = 0
    /\ Posted(k) => txs[k].amount > 0

\* The original's totals after a refund: the amount is the sum, the points are its
\* share, and neither falls.
LEMMA RefundEffect ==
  ASSUME WholeKopecks, TablesTypeOK, TotalsAreWhole, RefundsProportional,
         NEW k \in Key, NEW w \in Row, NEW notices,
         Postable(k, w), Requested(w), Commit(k, w, notices), KindOf(k) = "refund"
  PROVE  /\ w.orig \in Key /\ Posted(w.orig) /\ w.orig # k
         /\ refunded'[w.orig].amount = w.cum /\ w.cum <= txs[w.orig].amount
         /\ \E m \in Nat : w.cum = m * Cent
         /\ refunded'[w.orig].points = ReversedAt(w.orig, w.cum)
         /\ refunded[w.orig].amount <= w.cum
         /\ refunded[w.orig].points <= ReversedAt(w.orig, w.cum)
         /\ \A j \in Key : j # w.orig => refunded'[j] = refunded[j]
<1>1. w.orig \in Key /\ Posted(w.orig) /\ KindOf(w.orig) # "refund" /\ ~Posted(k)
      /\ w.cum = refunded[w.orig].amount + w.amount /\ w.cum <= txs[w.orig].amount
  BY DEF Postable
<1>2. PICK m \in Nat : refunded[w.orig].amount = m * Cent
  BY <1>1 DEF TotalsAreWhole
<1>3. PICK n \in Nat : w.amount = n * Cent
  BY RequestedIsWhole
<1>4. w.cum = (m + n) * Cent /\ m + n \in Nat
  BY <1>1, <1>2, <1>3, CentAssumption
<1>5. Stored(w.cum) = w.cum
  BY <1>4, WholeIsStored
<1>6. refunded' = [refunded EXCEPT ![w.orig] =
                     [amount |-> Stored(w.cum), points |-> ReversedAt(w.orig, w.cum)]]
  BY DEF Commit
<1>7. refunded \in [Key -> [amount: Nat, points: Nat]]
  BY DEF TablesTypeOK
<1>8. refunded'[w.orig] = [amount |-> w.cum, points |-> ReversedAt(w.orig, w.cum)]
      /\ \A j \in Key : j # w.orig => refunded'[j] = refunded[j]
  BY <1>1, <1>5, <1>6, <1>7
<1>9. refunded[w.orig].amount \in Nat /\ w.amount \in Nat /\ w.cum \in Nat
      /\ refunded[w.orig].amount <= w.cum
  BY <1>1, <1>7 DEF Row
<1>10. refunded[w.orig].points = ReversedAt(w.orig, refunded[w.orig].amount)
  BY <1>1 DEF RefundsProportional
<1>11. Magnitude(txs[w.orig].delta) \in Nat /\ txs[w.orig].amount \in Nat
  BY <1>1, <1>9, PostedRow, ReversedIsNat DEF Row
<1>12. refunded[w.orig].points <= ReversedAt(w.orig, w.cum)
  BY <1>1, <1>9, <1>10, <1>11, ShareIsMonotone DEF ReversedAt
<1> QED BY <1>1, <1>4, <1>8, <1>9, <1>12

\* What a posting does to the refunded totals keeps them proportional.
LEMMA PostingKeepsTotals ==
  ASSUME WholeKopecks, TablesTypeOK, TotalsAreWhole, RefundsProportional, Posting
  PROVE  TotalsAreWhole' /\ RefundsProportional'
<1>1. PICK k, w, notices :
        /\ k \in Key /\ w \in Row
        /\ Postable(k, w) /\ Requested(w) /\ Noticed(k, w, notices) /\ Commit(k, w, notices)
  BY DEF Posting
<1>2. /\ ~Posted(k)
      /\ \A j \in Key : Posted(j)' <=> Posted(j) \/ j = k
      /\ \A j \in Key : j # k => txs'[j] = txs[j]
      /\ txs'[k].amount = w.amount /\ w.amount > 0
  BY <1>1, CommitEffect, RequestedIsWhole DEF Postable
<1>3. \A j \in Key : j # k => \A cum : ReversedAt(j, cum)' = ReversedAt(j, cum)
  BY <1>2 DEF ReversedAt
<1>4. CASE KindOf(k) # "refund"
  <2>1. refunded' = refunded
    BY <1>1, <1>4 DEF Commit
  <2>2. TotalsAreWhole'
    BY <1>2, <2>1 DEF TotalsAreWhole
  <2>3. ReversedAt(k, 0)' = 0
    <3>1. txs'[k].delta \in Int /\ w.delta \in Int /\ txs'[k].delta = w.delta /\ w.amount \in Nat
      BY <1>1, CommitEffect DEF Row
    <3>2. Magnitude(txs'[k].delta) \in Nat
      BY <3>1 DEF Magnitude
    <3>3. (Magnitude(txs'[k].delta) * 0) \div w.amount = 0
      BY <1>2, <3>1, <3>2
    <3> QED BY <1>2, <3>1, <3>3 DEF ReversedAt, RefundShare
  <2>4. refunded[k].amount = 0 /\ refunded[k].points = 0 /\ w.amount \in Nat
    BY <1>1, <1>2 DEF TotalsAreWhole, Row
  <2>5. ASSUME NEW j \in Key, Posted(j)', KindOf(j) # "refund"
        PROVE  /\ refunded'[j].amount <= txs'[j].amount
               /\ refunded'[j].points = ReversedAt(j, refunded[j].amount)'
    <3>1. CASE j = k
      BY <1>2, <2>1, <2>3, <2>4, <3>1
    <3>2. CASE j # k
      BY <1>2, <1>3, <2>1, <2>5, <3>2 DEF RefundsProportional
    <3> QED BY <3>1, <3>2
  <2> QED BY <2>2, <2>5 DEF RefundsProportional, KindOf
<1>5. CASE KindOf(k) = "refund"
  <2>1. /\ w.orig \in Key /\ Posted(w.orig) /\ w.orig # k
        /\ refunded'[w.orig].amount = w.cum /\ w.cum <= txs[w.orig].amount
        /\ \E m \in Nat : w.cum = m * Cent
        /\ refunded'[w.orig].points = ReversedAt(w.orig, w.cum)
        /\ \A j \in Key : j # w.orig => refunded'[j] = refunded[j]
    BY <1>1, <1>5, RefundEffect
  <2>2. TotalsAreWhole'
    BY <1>2, <2>1 DEF TotalsAreWhole
  <2>3. ASSUME NEW j \in Key, Posted(j)', KindOf(j) # "refund"
        PROVE  /\ refunded'[j].amount <= txs'[j].amount
               /\ refunded'[j].points = ReversedAt(j, refunded[j].amount)'
    <3>1. j # k /\ Posted(j)
      BY <1>2, <1>5, <2>3
    <3>2. CASE j = w.orig
      BY <1>2, <1>3, <2>1, <3>1, <3>2
    <3>3. CASE j # w.orig
      BY <1>2, <1>3, <2>1, <2>3, <3>1, <3>3 DEF RefundsProportional
    <3> QED BY <3>2, <3>3
  <2> QED BY <2>2, <2>3 DEF RefundsProportional, KindOf
<1> QED BY <1>4, <1>5

\* An operation is never refunded beyond its amount and its points are reversed in
\* proportion, all of them once it is refunded in full: PostRefund adds the
\* refund to the totals it read under the lock of the original.
THEOREM AtomicRefunds ==
  ASSUME WholeKopecks PROVE AtomicSpec => [](TotalsAreWhole /\ RefundsProportional)
<1>1. TablesInit => TotalsAreWhole /\ RefundsProportional
  <2>1. 0 = 0 * Cent
    BY CentAssumption
  <2> QED BY <2>1 DEF TablesInit, TotalsAreWhole, RefundsProportional, Posted
<1>2. ASSUME TablesTypeOK, TotalsAreWhole /\ RefundsProportional, [AtomicNext]_tables
      PROVE  (TotalsAreWhole /\ RefundsProportional)'
  <2>1. CASE Posting
    BY <1>2, <2>1, PostingKeepsTotals
  <2>2. CASE ~Posting
    <3>1. UNCHANGED <<txs, refunded>>
      BY <1>2, <2>2, OtherSteps
    <3> QED BY <1>2, <3>1 DEF TotalsAreWhole, RefundsProportional, Posted, ReversedAt
  <2> QED BY <2>1, <2>2
<1> QED BY <1>1, <1>2, AtomicTypeCorrect, PTL DEF AtomicSpec

\* A recorded row never changes and what is refunded of it only grows.
THEOREM AtomicHistory ==
  ASSUME WholeKopecks PROVE AtomicSpec => HistoryIsFinal
<1> DEFINE Final == \A k \in Key : Posted(k) =>
                      /\ txs'[k] = txs[k]
                      /\ refunded'[k].amount >= refunded[k].amount
                      /\ refunded'[k].points >= refunded[k].points
<1>1. ASSUME TablesTypeOK, TotalsAreWhole /\ RefundsProportional, [AtomicNext]_tables
      PROVE  Final
  <2>1. \A k \in Key : refunded[k].amount \in Nat /\ refunded[k].points \in Nat
    BY <1>1 DEF TablesTypeOK
  <2>2. CASE Posting
    <3>1. PICK k, w, notices :
            /\ k \in Key /\ w \in Row
            /\ Postable(k, w) /\ Requested(w) /\ Noticed(k, w, notices) /\ Commit(k, w, notices)
      BY <2>2 DEF Posting
    <3>2. ASSUME NEW j \in Key, Posted(j) PROVE txs'[j] = txs[j]
      BY <1>1, <3>1, <3>2, CommitEffect DEF Postable
    <3>3. CASE KindOf(k) = "refund"
      <4>1. /\ w.orig \in Key
            /\ refunded'[w.orig].amount = w.cum
            /\ refunded'[w.orig].points = ReversedAt(w.orig, w.cum)
            /\ refunded[w.orig].amount <= w.cum
            /\ refunded[w.orig].points <= ReversedAt(w.orig, w.cum)
            /\ \A j \in Key : j # w.orig => refunded'[j] = refunded[j]
        BY <1>1, <3>1, <3>3, RefundEffect
      <4>2. w.cum \in Nat /\ ReversedAt(w.orig, w.cum) \in Nat
        <5>1. Posted(w.orig) /\ w.cum \in Nat
          BY <3>1, <3>3 DEF Postable, Row
        <5> QED BY <1>1, <4>1, <5>1, ReversedIsNat
      <4> QED BY <2>1, <3>2, <4>1, <4>2
    <3>4. CASE KindOf(k) # "refund"
      <4>1. refunded' = refunded
        BY <3>1, <3>4 DEF Commit
      <4> QED BY <2>1, <3>2, <4>1
    <3> QED BY <3>3, <3>4
  <2>3. CASE ~Posting
    <3>1. UNCHANGED <<txs, refunded>>
      BY <1>1, <2>3, OtherSteps
    <3> QED BY <2>1, <3>1
  <2> QED BY <2>2, <2>3
<1> QED BY <1>1, AtomicTypeCorrect, AtomicRefunds, PTL DEF AtomicSpec, HistoryIsFinal

-------------------------------------------------------------------------------
\* Sums over rows.  They are finite because only finitely many rows are recorded.

PostedKeys == {k \in Key : Posted(k)}

LEMMA PostingAddsKey ==
  ASSUME TablesTypeOK, NEW k \in Key, NEW w \in Row, NEW notices,
         Postable(k, w), Commit(k, w, notices)
  PROVE  PostedKeys' = PostedKeys \cup {k} /\ k \notin PostedKeys
BY CommitEffect DEF PostedKeys, Postable

\* Every operation records one row.
THEOREM AtomicIsFinite == AtomicSpec => []IsFiniteSet(PostedKeys)
<1>1. TablesInit => IsFiniteSet(PostedKeys)
  <2>1. TablesInit => PostedKeys = {}
    BY DEF TablesInit, PostedKeys, Posted
  <2> QED BY <2>1, FS_EmptySet
<1>2. ASSUME TablesTypeOK, IsFiniteSet(PostedKeys), [AtomicNext]_tables
      PROVE  IsFiniteSet(PostedKeys')
  <2>1. CASE Posting
    <3>1. PICK k, w, notices :
            /\ k \in Key /\ w \in Row
            /\ Postable(k, w) /\ Requested(w) /\ Noticed(k, w, notices) /\ Commit(k, w, notices)
      BY <2>1 DEF Posting
    <3>2. PostedKeys' = PostedKeys \cup {k}
      BY <1>2, <3>1, PostingAddsKey
    <3> QED BY <1>2, <3>2, FS_AddElement
  <2>2. CASE ~Posting
    <3>1. PostedKeys' = PostedKeys
      BY <1>2, <2>2, OtherSteps DEF PostedKeys, Posted
    <3> QED BY <1>2, <3>1
  <2> QED BY <2>1, <2>2
<1>3. ASSUME TablesTypeOK, IsFiniteSet(PostedKeys), [AtomicNext]_tables
      PROVE  IsFiniteSet(PostedKeys)'
  BY <1>2, <1>3
<1> QED BY <1>1, <1>3, AtomicTypeCorrect, PTL DEF AtomicSpec

\* What the refund rows of an original add up to, and the totals the original keeps:
\* the refund of a sale takes points back.
AmountsOf(k) == SumFunction([f \in RefundsOf(k) |-> txs[f].amount])
PointsOf(k) == SumFunction([f \in RefundsOf(k) |-> txs[f].delta])

KeptPoints(k) == IF KindOf(k) = "accrual" THEN -refunded[k].points ELSE refunded[k].points

RefundTotals ==
  \A k \in Key :
    /\ refunded[k].amount = AmountsOf(k) /\ KeptPoints(k) = PointsOf(k)
    /\ Stored(refunded[k].amount) = refunded[k].amount
    /\ Posted(k) => /\ refunded[k].amount <= txs[k].amount
                    /\ Stored(txs[k].amount) = txs[k].amount
    /\ ~Posted(k) => RefundsOf(k) = {}

LEMMA RefundRows ==
  ASSUME TablesTypeOK, IsFiniteSet(PostedKeys), NEW k \in Key
  PROVE  /\ IsFiniteSet(RefundsOf(k)) /\ RefundsOf(k) \subseteq PostedKeys
         /\ \A f \in RefundsOf(k) : txs[f].amount \in Int /\ txs[f].delta \in Int
         /\ AmountsOf(k) \in Int /\ PointsOf(k) \in Int
<1>1. RefundsOf(k) \subseteq PostedKeys
  BY DEF RefundsOf, PostedKeys
<1>2. IsFiniteSet(RefundsOf(k))
  BY <1>1, FS_Subset
<1>3. ASSUME NEW f \in RefundsOf(k)
      PROVE  txs[f].amount \in Int /\ txs[f].delta \in Int
  <2>1. txs[f] \in Row
    BY PostedRow DEF RefundsOf
  <2> QED BY <2>1 DEF Row
<1>4. /\ [f \in RefundsOf(k) |-> txs[f].amount] \in [RefundsOf(k) -> Int]
      /\ [f \in RefundsOf(k) |-> txs[f].delta] \in [RefundsOf(k) -> Int]
  BY <1>3
<1> QED BY <1>1, <1>2, <1>3, <1>4, SumIsInt DEF AmountsOf, PointsOf

\* A posting leaves the refunds of every key but its original's alone.
LEMMA OtherRefundsStay ==
  ASSUME TablesTypeOK, IsFiniteSet(PostedKeys), NEW k \in Key, NEW w \in Row, NEW notices,
         Postable(k, w), Commit(k, w, notices), NEW o \in Key, w.orig # o
  PROVE  RefundsOf(o)' = RefundsOf(o) /\ AmountsOf(o)' = AmountsOf(o) /\ PointsOf(o)' = PointsOf(o)
<1>1. RefundsOf(o)' = RefundsOf(o) /\ \A f \in RefundsOf(o) : txs'[f] = txs[f]
  BY CommitEffect DEF RefundsOf, Postable
<1>2. /\ [f \in RefundsOf(o)' |-> txs'[f].amount] = [f \in RefundsOf(o) |-> txs[f].amount]
      /\ [f \in RefundsOf(o)' |-> txs'[f].delta] = [f \in RefundsOf(o) |-> txs[f].delta]
  BY <1>1
<1> QED BY <1>1, <1>2 DEF AmountsOf, PointsOf

\* It adds a refund to those of its original.
LEMMA RefundIsAdded ==
  ASSUME TablesTypeOK, IsFiniteSet(PostedKeys), NEW k \in Key, NEW w \in Row, NEW notices,
         Postable(k, w), Commit(k, w, notices), w.orig \in Key
  PROVE  /\ AmountsOf(w.orig)' = AmountsOf(w.orig) + Stored(w.amount)
         /\ PointsOf(w.orig)' = PointsOf(w.orig) + w.delta
<1> DEFINE o == w.orig
           S == RefundsOf(o)
<1>1. /\ IsFiniteSet(S) /\ k \notin S
      /\ \A f \in S : txs[f].amount \in Int /\ txs[f].delta \in Int
  BY RefundRows DEF RefundsOf, Postable
<1>2. /\ RefundsOf(o)' = S \cup {k}
      /\ \A f \in S : txs'[f] = txs[f]
      /\ txs'[k].amount = Stored(w.amount) /\ txs'[k].delta = w.delta
  BY CommitEffect DEF RefundsOf, Postable
<1>3. Stored(w.amount) \in Int /\ w.delta \in Int
  BY StoredIsNat DEF Row
<1> DEFINE a == [f \in S \cup {k} |-> txs'[f].amount]
           d == [f \in S \cup {k} |-> txs'[f].delta]
<1>4. /\ a \in [S \cup {k} -> Int] /\ a[k] = Stored(w.amount)
      /\ d \in [S \cup {k} -> Int] /\ d[k] = w.delta
      /\ [f \in S |-> a[f]] = [f \in S |-> txs[f].amount]
      /\ [f \in S |-> d[f]] = [f \in S |-> txs[f].delta]
  <2> HIDE DEF S
  <2> QED BY <1>1, <1>2, <1>3
<1>5. AmountsOf(o) = SumFunction([f \in S |-> txs[f].amount])
      /\ PointsOf(o) = SumFunction([f \in S |-> txs[f].delta])
  BY DEF AmountsOf, PointsOf
<1>6. AmountsOf(o)' = SumFunction(a) /\ PointsOf(o)' = SumFunction(d)
  BY <1>2 DEF AmountsOf, PointsOf
<1> HIDE DEF S, a, d
<1>7. /\ SumFunction(a) = a[k] + SumFunction([f \in S |-> a[f]])
      /\ SumFunction([f \in S |-> a[f]]) \in Int
  BY <1>1, <1>4, SumOfMore
<1>8. /\ SumFunction(d) = d[k] + SumFunction([f \in S |-> d[f]])
      /\ SumFunction([f \in S |-> d[f]]) \in Int
  BY <1>1, <1>4, SumOfMore
<1>9. AmountsOf(o)' = Stored(w.amount) + AmountsOf(o) /\ AmountsOf(o) \in Int
  BY <1>4, <1>5, <1>6, <1>7
<1>10. PointsOf(o)' = w.delta + PointsOf(o) /\ PointsOf(o) \in Int
  BY <1>4, <1>5, <1>6, <1>8
<1> QED BY <1>3, <1>9, <1>10

\* A posted original has no row yet that refunds it, and the totals of a refund's
\* original move by what the refund's row says.
LEMMA PostingKeepsSums ==
  ASSUME TablesTypeOK, IsFiniteSet(PostedKeys), RefundTotals, Posting
  PROVE  RefundTotals'
<1>1. PICK k, w, notices :
        /\ k \in Key /\ w \in Row
        /\ Postable(k, w) /\ Requested(w) /\ Noticed(k, w, notices) /\ Commit(k, w, notices)
  BY DEF Posting
<1>2. /\ ~Posted(k) /\ w.amount \in Nat /\ w.delta \in Int
      /\ \A j \in Key : Posted(j)' <=> Posted(j) \/ j = k
      /\ \A j \in Key : j # k => txs'[j] = txs[j]
      /\ txs'[k].amount = Stored(w.amount)
  BY <1>1, CommitEffect DEF Postable, Row
<1>3. \A j \in Key : refunded[j].amount \in Nat /\ refunded[j].points \in Nat
  BY DEF TablesTypeOK
<1>4. PICK m \in Nat : Stored(w.amount) = m * Cent
  BY <1>2, StoredIsWhole
<1>5. Stored(Stored(w.amount)) = Stored(w.amount) /\ Stored(w.amount) \in Nat
  BY <1>2, <1>4, WholeIsStored, StoredIsNat
\* A row that is no refund of j leaves j's totals; a row that is one stands elsewhere.
<1>6. ASSUME NEW j \in Key, w.orig # j, refunded'[j] = refunded[j]
      PROVE  /\ refunded'[j].amount = AmountsOf(j)' /\ KeptPoints(j)' = PointsOf(j)'
             /\ Stored(refunded'[j].amount) = refunded'[j].amount
             /\ Posted(j)' => /\ refunded'[j].amount <= txs'[j].amount
                              /\ Stored(txs'[j].amount) = txs'[j].amount
             /\ ~Posted(j)' => RefundsOf(j)' = {}
  <2>1. RefundsOf(j)' = RefundsOf(j) /\ AmountsOf(j)' = AmountsOf(j) /\ PointsOf(j)' = PointsOf(j)
    BY <1>1, <1>6, OtherRefundsStay
  <2>2. KeptPoints(j)' = KeptPoints(j)
    BY <1>6 DEF KeptPoints, KindOf
  <2>3. CASE j = k
    <3>1. RefundsOf(k) = {} /\ refunded[k].amount = AmountsOf(k)
      BY <1>1, <1>2 DEF RefundTotals
    <3>2. AmountsOf(k) = 0
      BY <3>1, SumOverNone DEF AmountsOf
    <3> QED BY <1>2, <1>5, <1>6, <2>1, <2>2, <2>3, <3>1, <3>2 DEF RefundTotals
  <2>4. CASE j # k
    BY <1>2, <1>6, <2>1, <2>2, <2>4 DEF RefundTotals
  <2> QED BY <2>3, <2>4
<1>7. CASE KindOf(k) # "refund"
  <2>1. refunded' = refunded /\ \A j \in Key : w.orig # j
    BY <1>1, <1>7, TablesAssumption DEF Commit, Postable
  <2> QED BY <1>6, <2>1 DEF RefundTotals
<1>8. CASE KindOf(k) = "refund"
  <2> DEFINE o == w.orig
  <2>1. /\ o \in Key /\ Posted(o) /\ KindOf(o) # "refund" /\ o # k
        /\ w.cum = refunded[o].amount + w.amount /\ w.cum <= txs[o].amount
        /\ w.delta = RefundDelta(o, w.cum)
    BY <1>1, <1>2, <1>8 DEF Postable
  <2>2. refunded' = [refunded EXCEPT ![o] =
                       [amount |-> Stored(w.cum), points |-> ReversedAt(o, w.cum)]]
    BY <1>1, <1>8 DEF Commit
  <2>3. /\ refunded'[o].amount = Stored(w.cum) /\ refunded'[o].points = ReversedAt(o, w.cum)
        /\ \A j \in Key : j # o => refunded'[j] = refunded[j]
    BY <2>1, <2>2 DEF TablesTypeOK
  <2>4. w.cum \in Nat /\ txs[o].amount \in Nat /\ ReversedAt(o, w.cum) \in Nat
    BY <1>1, <2>1, PostedRow, ReversedIsNat DEF Row
  <2>5. AmountsOf(o)' = AmountsOf(o) + Stored(w.amount) /\ PointsOf(o)' = PointsOf(o) + w.delta
    BY <1>1, <2>1, RefundIsAdded
  <2>6. refunded[o].amount = AmountsOf(o) /\ KeptPoints(o) = PointsOf(o)
    BY <2>1 DEF RefundTotals
  <2>7. PICK n \in Nat : refunded[o].amount = n * Cent
    <3>1. Stored(refunded[o].amount) = refunded[o].amount
      BY <2>1 DEF RefundTotals
    <3> QED BY <1>3, <2>1, <3>1, StoredIsWhole
  <2>8. Stored(w.cum) = refunded[o].amount + Stored(w.amount)
    BY <1>2, <2>1, <2>7, StoredAddsUp
  <2>9. refunded'[o].amount = AmountsOf(o)'
    BY <2>3, <2>5, <2>6, <2>8
  <2>10. KeptPoints(o)' = PointsOf(o)'
    <3> DEFINE share == ReversedAt(o, w.cum)
    <3>1. share \in Nat /\ refunded[o].points \in Nat /\ refunded'[o].points = share
      BY <1>3, <2>1, <2>3, <2>4
    <3>2. w.delta = IF KindOf(o) = "accrual" THEN -(share - refunded[o].points)
                                              ELSE share - refunded[o].points
      BY <2>1 DEF RefundDelta
    <3>3. KeptPoints(o)' = IF KindOf(o) = "accrual" THEN -share ELSE share
      BY <3>1 DEF KeptPoints, KindOf
    <3> HIDE DEF share
    <3>4. KeptPoints(o)' = KeptPoints(o) + w.delta
      <4>1. CASE KindOf(o) = "accrual"
        BY <3>1, <3>2, <3>3, <4>1 DEF KeptPoints
      <4>2. CASE KindOf(o) # "accrual"
        BY <3>1, <3>2, <3>3, <4>2 DEF KeptPoints
      <4> QED BY <4>1, <4>2
    <3> QED BY <2>5, <2>6, <3>4
  <2>11. Stored(refunded'[o].amount) = refunded'[o].amount
    <3>1. PICK i \in Nat : Stored(w.cum) = i * Cent
      BY <2>4, StoredIsWhole
    <3> QED BY <2>3, <3>1, WholeIsStored
  <2>12. Stored(txs[o].amount) = txs[o].amount
    BY <2>1 DEF RefundTotals
  <2>13. refunded'[o].amount <= txs[o].amount
    <3>1. PICK i \in Nat : Stored(txs[o].amount) = i * Cent
      BY <2>4, StoredIsWhole
    <3>2. w.cum <= i * Cent
      BY <2>1, <2>12, <3>1
    <3>3. Stored(w.cum) <= i * Cent
      BY <2>4, <3>2, StoredIsAtMost
    <3> QED BY <2>3, <2>12, <3>1, <3>3
  <2>14. Posted(o)' /\ txs'[o] = txs[o]
    BY <1>2, <2>1
  <2> QED BY <1>6, <2>1, <2>3, <2>9, <2>10, <2>11, <2>12, <2>13, <2>14 DEF RefundTotals
<1> QED BY <1>7, <1>8

\* The totals of an original are the sums over its refund rows, amounts the column
\* rounds included: PostRefund adds under the lock of the original, so no partial
\* refund is lost or counted twice and together they stay within the original.
THEOREM AtomicSums == AtomicSpec => [](RefundTotals /\ RefundsAddUp)
<1>1. TablesInit => RefundTotals
  <2> SUFFICES ASSUME TablesInit, NEW k \in Key
               PROVE  /\ refunded[k].amount = AmountsOf(k) /\ KeptPoints(k) = PointsOf(k)
                      /\ Stored(refunded[k].amount) = refunded[k].amount
                      /\ ~Posted(k) /\ RefundsOf(k) = {}
    BY DEF RefundTotals
  <2>1. /\ refunded[k].amount = 0 /\ refunded[k].points = 0 /\ ~Posted(k)
        /\ RefundsOf(k) = {}
    BY DEF TablesInit, Posted, RefundsOf
  <2>2. AmountsOf(k) = 0 /\ PointsOf(k) = 0
    BY <2>1, SumOverNone DEF AmountsOf, PointsOf
  <2>3. 0 = 0 * Cent
    BY CentAssumption
  <2>4. Stored(0) = 0
    BY <2>3, WholeIsStored
  <2>5. KeptPoints(k) = 0
    <3> DEFINE n == refunded[k].points
    <3>1. n \in Int /\ n <= 0 /\ n >= 0 /\ n = 0
      BY <2>1
    <3> HIDE DEF n
    <3>2. -n = 0
      BY <3>1, NegatedZero
    <3>3. KeptPoints(k) \in {n, -n}
      BY DEF KeptPoints, n
    <3> QED BY <3>1, <3>2, <3>3
  <2> QED BY <2>1, <2>2, <2>4, <2>5
<1>2. ASSUME TablesTypeOK, IsFiniteSet(PostedKeys), RefundTotals, [AtomicNext]_tables
      PROVE  RefundTotals'
  <2>1. CASE Posting
    BY <1>2, <2>1, PostingKeepsSums
  <2>2. CASE ~Posting
    <3>1. txs' = txs /\ refunded' = refunded
      BY <1>2, <2>2, OtherSteps
    <3>2. \A k : /\ RefundsOf(k)' = RefundsOf(k) /\ KeptPoints(k)' = KeptPoints(k)
                 /\ AmountsOf(k)' = AmountsOf(k) /\ PointsOf(k)' = PointsOf(k)
      BY <3>1 DEF AmountsOf, PointsOf, KeptPoints, RefundsOf, Posted, KindOf
    <3> QED BY <1>2, <3>1, <3>2 DEF RefundTotals, Posted
  <2> QED BY <2>1, <2>2
<1>3. ASSUME TablesTypeOK, RefundTotals
      PROVE  RefundsAddUp
  <2> SUFFICES ASSUME NEW k \in Key, Posted(k)
               PROVE  /\ refunded[k].amount = AmountsOf(k)
                      /\ refunded[k].points = Magnitude(PointsOf(k))
                      /\ refunded[k].amount <= txs[k].amount
    BY DEF RefundsAddUp, AmountsOf, PointsOf
  <2>1. refunded[k].points \in Nat
    BY <1>3 DEF TablesTypeOK
  <2>2. PointsOf(k) \in {refunded[k].points, -refunded[k].points}
    BY <1>3 DEF RefundTotals, KeptPoints
  <2>3. refunded[k].points = Magnitude(PointsOf(k))
    BY <2>1, <2>2 DEF Magnitude
  <2> QED BY <1>3, <2>3 DEF RefundTotals
<1> QED BY <1>1, <1>2, <1>3, AtomicTypeCorrect, AtomicIsFinite, PTL DEF AtomicSpec

-------------------------------------------------------------------------------
\* The daily limit

\* Redemptions of c in the window that ends at t, those since then, and their points
Inside(c, t) ==
  {k \in Key : /\ Posted(k) /\ KindOf(k) = "redeem" /\ txs[k].client = c
               /\ txs[k].at > t - Window /\ txs[k].at <= t}
Since(c, t) ==
  {k \in Key : /\ Posted(k) /\ KindOf(k) = "redeem"
               /\ txs[k].client = c /\ txs[k].at > t - Window}
Redeemed(keys) == SumFunction([k \in keys |-> -txs[k].delta])

RowsArePast ==
  \A k \in Key : Posted(k) => txs[k].at <= now /\ (KindOf(k) = "redeem" => txs[k].delta < 0)

WindowsHold == \A c \in Client, t \in Nat : t <= now => Redeemed(Inside(c, t)) <= DailyLimit

LEMMA TimeRules ==
  /\ \A a, t, d \in Int, w \in Nat : a > t - w /\ d <= t => a > d - w
  /\ \A a, t, d \in Int : a <= t /\ t <= d => a <= d
  /\ \A a, t \in Int, w \in Nat : a > (t + 1) - w => a > t - w
  /\ \A d \in Int : d < 0 => -d \in Nat
  /\ \A a, b, c, d \in Int : a <= b /\ d + b <= c => d + a <= c
  /\ \A t, n \in Nat : t <= n + 1 => t <= n \/ t = n + 1
OBVIOUS

\* Less time or fewer clients hold no more points.
LEMMA RedeemedInPart ==
  ASSUME TablesTypeOK, IsFiniteSet(PostedKeys), RowsArePast,
         NEW c \in Client, NEW t \in Int, NEW S \in SUBSET Since(c, t)
  PROVE  /\ Redeemed(S) <= Redeemed(Since(c, t))
         /\ Redeemed(S) \in Int /\ Redeemed(Since(c, t)) \in Int
         /\ IsFiniteSet(S) /\ \A k \in S : txs[k].delta \in Int /\ -txs[k].delta \in Int
<1> DEFINE T == Since(c, t)
           v == [k \in T |-> -txs[k].delta]
<1>1. IsFiniteSet(T)
  <2>1. T \subseteq PostedKeys
    BY DEF Since, PostedKeys
  <2> QED BY <2>1, FS_Subset
<1>2. ASSUME NEW k \in T
      PROVE  txs[k].delta \in Int /\ -txs[k].delta \in Nat
  <2>1. k \in Key /\ Posted(k) /\ KindOf(k) = "redeem"
    BY DEF Since
  <2>2. txs[k] \in Row /\ txs[k].delta < 0
    BY <2>1, PostedRow DEF RowsArePast
  <2>3. txs[k].delta \in Int
    BY <2>2 DEF Row
  <2> QED BY <2>2, <2>3, TimeRules
<1>3. v \in [T -> Nat] /\ v \in [T -> Int] /\ [k \in S |-> v[k]] = [k \in S |-> -txs[k].delta]
  <2> HIDE DEF T
  <2>1. S \subseteq T
    BY DEF T
  <2>2. \A k \in T : v[k] = -txs[k].delta /\ -txs[k].delta \in Nat
    BY <1>2
  <2> QED BY <2>1, <2>2
<1>4. S \in SUBSET T /\ IsFiniteSet(S)
  BY <1>1, FS_Subset
<1>5. [k \in S |-> -txs[k].delta] \in [S -> Int]
  BY <1>2
<1>6. Redeemed(T) = SumFunction(v) /\ Redeemed(S) = SumFunction([k \in S |-> -txs[k].delta])
  BY DEF Redeemed
<1>7. ASSUME NEW k \in S
      PROVE  txs[k].delta \in Int /\ -txs[k].delta \in Int
  BY <1>2
<1> HIDE DEF T, v
<1>8. SumFunction([k \in S |-> v[k]]) <= SumFunction(v)
  BY <1>1, <1>3, <1>4, SumOfPartIsLess
<1>9. Redeemed(T) \in Int
  BY <1>1, <1>3, <1>6, SumIsInt
<1>10. Redeemed(S) \in Int
  BY <1>4, <1>5, <1>6, SumIsInt
<1> QED BY <1>3, <1>4, <1>6, <1>7, <1>8, <1>9, <1>10 DEF T

LEMMA InsideIsSince ==
  ASSUME TablesTypeOK, NEW c, NEW t \in Int, NEW d \in Int, d <= t
  PROVE  Inside(c, t) \subseteq Since(c, d)
<1> SUFFICES ASSUME NEW k \in Inside(c, t)
             PROVE  k \in Since(c, d)
  OBVIOUS
<1>1. k \in Key /\ Posted(k)
  BY DEF Inside
<1>2. txs[k].at \in Int
  BY <1>1, PostedRow DEF Row
<1>3. txs[k].at > d - Window
  <2>1. txs[k].at > t - Window
    BY DEF Inside
  <2> QED BY <1>2, <2>1, TablesAssumption, TimeRules
<1> QED BY <1>3 DEF Inside, Since

\* Rows are written in the past and redemptions take points.
LEMMA RowsStayPast ==
  ASSUME TablesTypeOK, RowsArePast, [AtomicNext]_tables
  PROVE  RowsArePast'
<1>1. now \in Nat
  BY DEF TablesTypeOK
<1>2. CASE Posting
  <2>1. PICK k, w, notices :
          /\ k \in Key /\ w \in Row
          /\ Postable(k, w) /\ Requested(w) /\ Noticed(k, w, notices) /\ Commit(k, w, notices)
    BY <1>2 DEF Posting
  <2>2. /\ now' = now
        /\ \A j \in Key : Posted(j)' <=> Posted(j) \/ j = k
        /\ \A j \in Key : j # k => txs'[j] = txs[j]
        /\ txs'[k].delta = w.delta /\ txs'[k].at = w.at
    BY <2>1, CommitEffect DEF Commit
  <2>3. w.at <= now /\ (KindOf(k) = "redeem" => w.delta < 0)
    BY <2>1 DEF Postable
  <2> QED BY <2>2, <2>3 DEF RowsArePast, KindOf
<1>3. CASE now' \in {now, now + 1} /\ txs' = txs
  <2> SUFFICES ASSUME NEW k \in Key, Posted(k)'
               PROVE  txs'[k].at <= now' /\ (KindOf(k)' = "redeem" => txs'[k].delta < 0)
    BY DEF RowsArePast
  <2>1. Posted(k) /\ txs[k].at \in Nat
    BY <1>3, PostedRow DEF Posted, Row
  <2>2. txs[k].at <= now /\ (KindOf(k) = "redeem" => txs[k].delta < 0)
    BY <2>1 DEF RowsArePast
  <2>3. txs[k].at <= now + 1
    BY <1>1, <2>1, <2>2
  <2> QED BY <1>3, <2>2, <2>3 DEF KindOf
<1>4. Posting \/ (now' \in {now, now + 1} /\ txs' = txs)
  BY StepCases DEF Register, SaveRule, Tick, tables
<1> QED BY <1>2, <1>3, <1>4

\* A redemption in the window was checked with all of the window's before it.
LEMMA PostingKeepsWindows ==
  ASSUME TablesTypeOK, IsFiniteSet(PostedKeys), RowsArePast, DailyLimit > 0, WindowsHold, Posting
  PROVE  WindowsHold'
<1>1. PICK k, w, notices :
        /\ k \in Key /\ w \in Row
        /\ Postable(k, w) /\ Requested(w) /\ Noticed(k, w, notices) /\ Commit(k, w, notices)
  BY DEF Posting
<1>2. /\ ~Posted(k) /\ now' = now
      /\ \A j \in Key : Posted(j)' <=> Posted(j) \/ j = k
      /\ \A j \in Key : j # k => txs'[j] = txs[j]
      /\ txs'[k].client = w.client /\ txs'[k].delta = w.delta /\ txs'[k].at = w.at
  BY <1>1, CommitEffect DEF Commit, Postable
<1>3. w.at \in Nat /\ w.at <= now /\ w.delta \in Int /\ w.client \in Client
  BY <1>1 DEF Postable, Row
<1> SUFFICES ASSUME NEW c \in Client, NEW t \in Nat, t <= now
             PROVE  Redeemed(Inside(c, t))' <= DailyLimit
  BY <1>2 DEF WindowsHold
<1> DEFINE S == Inside(c, t)
<1>4. \A j \in S : j \in Key /\ j # k /\ txs'[j] = txs[j]
  BY <1>2 DEF Inside
<1>5. Redeemed(S) <= DailyLimit
  BY DEF WindowsHold
<1>6. CASE k \in S'
  <2>1. S' = S \cup {k} /\ k \notin S
    BY <1>1, <1>2, <1>6 DEF Inside, KindOf
  <2>2. /\ KindOf(k) = "redeem" /\ c = w.client /\ w.at <= t
    BY <1>2, <1>6 DEF Inside, KindOf
  <2>3. S \in SUBSET Since(c, w.at)
    BY <1>3, <2>2, InsideIsSince
  <2>4. /\ Redeemed(S) <= Redeemed(Since(c, w.at))
        /\ Redeemed(S) \in Int /\ Redeemed(Since(c, w.at)) \in Int
        /\ IsFiniteSet(S) /\ \A j \in S : txs[j].delta \in Int /\ -txs[j].delta \in Int
    <3> HIDE DEF S
    <3>1. w.at \in Int
      BY <1>3
    <3> QED BY <2>3, <3>1, RedeemedInPart
  <2>5. Redeemed(Since(c, w.at)) + (-w.delta) <= DailyLimit
    <3>1. WithinDailyLimit(c, w.at, -w.delta)
      BY <1>1, <2>2 DEF Postable
    <3> QED BY <3>1 DEF WithinDailyLimit, RedeemedSince, Redeemed, Since
  <2> DEFINE v == [j \in S \cup {k} |-> -txs'[j].delta]
  <2>6. /\ v \in [S \cup {k} -> Int] /\ v[k] = -w.delta
        /\ [j \in S |-> v[j]] = [j \in S |-> -txs[j].delta]
    <3>1. -w.delta \in Int
      BY <1>3
    <3>2. \A j \in S : -txs'[j].delta = -txs[j].delta /\ -txs[j].delta \in Int
      BY <1>4, <2>4
    <3>3. -txs'[k].delta = -w.delta
      BY <1>2
    <3> HIDE DEF S
    <3> QED BY <3>1, <3>2, <3>3
  <2>7. Redeemed(S)' = SumFunction(v) /\ Redeemed(S) = SumFunction([j \in S |-> -txs[j].delta])
    BY <2>1 DEF Redeemed
  <2> HIDE DEF S, v
  <2>8. SumFunction(v) = v[k] + SumFunction([j \in S |-> v[j]])
    BY <2>1, <2>4, <2>6, SumOfMore
  <2>9. Redeemed(S)' = (-w.delta) + Redeemed(S)
    BY <2>6, <2>7, <2>8
  <2>10. (-w.delta) + Redeemed(Since(c, w.at)) <= DailyLimit /\ -w.delta \in Int
         /\ DailyLimit \in Int
    BY <1>3, <2>4, <2>5, TablesAssumption
  <2>11. (-w.delta) + Redeemed(S) <= DailyLimit
    BY <2>4, <2>10, TimeRules
  <2>12. Redeemed(S)' <= DailyLimit
    BY <2>9, <2>11
  <2> QED BY <2>12 DEF S
<1>7. CASE k \notin S'
  <2>1. S' = S
    BY <1>2, <1>7 DEF Inside, KindOf
  <2>2. [j \in S' |-> -txs'[j].delta] = [j \in S |-> -txs[j].delta]
    BY <1>4, <2>1
  <2>3. Redeemed(S)' = Redeemed(S)
    BY <2>2 DEF Redeemed
  <2> QED BY <1>5, <2>3
<1> QED BY <1>6, <1>7

\* A window that time adds ends later than every row and holds no more than the last.
LEMMA TickKeepsWindows ==
  ASSUME TablesTypeOK, IsFiniteSet(PostedKeys), RowsArePast, WindowsHold, Tick
  PROVE  WindowsHold'
<1>1. now \in Nat /\ now' = now + 1 /\ txs' = txs
  BY DEF Tick, TablesTypeOK
<1> SUFFICES ASSUME NEW c \in Client, NEW t \in Nat, t <= now + 1
             PROVE  Redeemed(Inside(c, t))' <= DailyLimit
  BY <1>1 DEF WindowsHold
<1>2. Inside(c, t)' = Inside(c, t) /\ Redeemed(Inside(c, t))' = Redeemed(Inside(c, t))
  BY <1>1 DEF Inside, Redeemed, Posted, KindOf
<1>3. CASE t <= now
  BY <1>2, <1>3 DEF WindowsHold
<1>4. CASE t = now + 1
  <2>1. \A k \in Inside(c, t) : k \in Key /\ Posted(k) /\ txs[k].at \in Int /\ txs[k].at <= now
    <3> SUFFICES ASSUME NEW k \in Inside(c, t)
                 PROVE  k \in Key /\ Posted(k) /\ txs[k].at \in Int /\ txs[k].at <= now
      OBVIOUS
    <3>1. k \in Key /\ Posted(k)
      BY DEF Inside
    <3> QED BY <3>1, PostedRow DEF Row, RowsArePast
  <2>2. Inside(c, t) \subseteq Since(c, now)
    <3>1. now \in Int /\ now <= t
      BY <1>1, <1>4
    <3> QED BY <3>1, InsideIsSince
  <2>3. Inside(c, now) = Since(c, now)
    BY DEF Inside, Since, RowsArePast
  <2>4. Redeemed(Inside(c, now)) <= DailyLimit
    BY <1>1 DEF WindowsHold
  <2>5. /\ Redeemed(Inside(c, t)) <= Redeemed(Since(c, now))
        /\ Redeemed(Inside(c, t)) \in Int /\ Redeemed(Since(c, now)) \in Int
    BY <1>1, <2>2, RedeemedInPart
  <2>6. DailyLimit \in Int
    BY TablesAssumption
  <2> QED BY <1>2, <2>3, <2>4, <2>5, <2>6
<1>5. t <= now \/ t = now + 1
  BY <1>1, TimeRules
<1> QED BY <1>3, <1>4, <1>5

\* No window of the configured length, wherever it ends, holds more redeemed points
\* of a client than the daily limit: PostRedeemChecked sums the rows since the
\* transaction's start under the lock of the balance, however long it waited for it.
THEOREM AtomicDailyLimit == AtomicSpec => []DailyLimitHolds
<1> DEFINE Inv == RowsArePast /\ (DailyLimit > 0 => WindowsHold)
<1>1. TablesInit => Inv
  <2> SUFFICES ASSUME TablesInit
               PROVE  Inv
    OBVIOUS
  <2>1. \A c, t : Inside(c, t) = {}
    BY DEF TablesInit, Inside, Posted
  <2>2. Redeemed({}) = 0
    BY SumOverNone DEF Redeemed
  <2>3. WindowsHold
    BY <2>1, <2>2, TablesAssumption DEF WindowsHold
  <2> QED BY <2>3 DEF TablesInit, RowsArePast, Posted
<1>2. ASSUME TablesTypeOK, IsFiniteSet(PostedKeys), Inv, [AtomicNext]_tables
      PROVE  Inv'
  <2>1. RowsArePast'
    BY <1>2, RowsStayPast
  <2>2. CASE Posting
    BY <1>2, <2>1, <2>2, PostingKeepsWindows
  <2>3. CASE Tick
    BY <1>2, <2>1, <2>3, TickKeepsWindows
  <2>4. CASE UNCHANGED <<txs, now>>
    <3>1. \A c, t : Inside(c, t)' = Inside(c, t) /\ Redeemed(Inside(c, t))' = Redeemed(Inside(c, t))
      BY <2>4 DEF Inside, Redeemed, Posted, KindOf
    <3> QED BY <1>2, <2>1, <2>4, <3>1 DEF WindowsHold
  <2>5. Posting \/ Tick \/ UNCHANGED <<txs, now>>
    BY <1>2, StepCases DEF Register, SaveRule, tables
  <2> QED BY <2>2, <2>3, <2>4, <2>5
<1>3. ASSUME TablesTypeOK, Inv
      PROVE  DailyLimitHolds
  <2>1. now \in Nat
    BY <1>3 DEF TablesTypeOK
  <2>2. \A t \in 0..now : t \in Nat /\ t <= now
    BY <2>1
  <2> QED BY <1>3, <2>2 DEF DailyLimitHolds, WindowsHold, Redeemed, Inside
<1> HIDE DEF Inv
<1> QED BY <1>1, <1>2, <1>3, AtomicTypeCorrect, AtomicIsFinite, PTL DEF AtomicSpec
===============================================================================
