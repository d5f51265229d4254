---------------------------- MODULE AccountProofs ----------------------------
(***************************************************************************)
(* Proofs about the account, for any strategy, market and corporate        *)
(* actions: every operation of the account keeps it sound.                 *)
(***************************************************************************)
EXTENDS OrderEngine, FunctionSums, SequenceTheorems

-----------------------------------------------------------------------------
(* Numbers.                                                                *)

LEMMA Division ==
  ASSUME NEW n \in Int, NEW d \in Nat \ {0}
  PROVE  /\ n \div d \in Int /\ n % d \in 0..(d - 1)
         /\ n = d * (n \div d) + (n % d)
         /\ n \in Nat => n \div d \in Nat
  OBVIOUS

\* The larger number has the larger quotient.
LEMMA QuotientGrows ==
  ASSUME NEW m \in Int, NEW n \in Int, m <= n, NEW d \in Nat \ {0}
  PROVE  m \div d <= n \div d
<1> DEFINE p == m \div d
           q == n \div d
           r == m % d
           u == n % d
<1>0. p \in Int /\ r \in 0..(d - 1) /\ m = d * p + r
  BY Division
<1>1. q \in Int /\ u \in 0..(d - 1) /\ n = d * q + u
  BY Division
<1> HIDE DEF p, q, r, u
<1>2. ASSUME ~ (p <= q) PROVE FALSE
  <2>1. p = (q + 1) + (p - q - 1) /\ p - q - 1 \in Nat
    BY <1>0, <1>1, <1>2
  <2>2. d * p = d * q + d + d * (p - q - 1)
    BY <1>0, <1>1, <2>1
  <2>3. d * (p - q - 1) >= 0
    BY <2>1
  <2> QED BY <1>0, <1>1, <2>2, <2>3
<1> QED
  BY <1>2 DEF p, q

\* Rounding does not pass a number that the quotient does not pass.
LEMMA HalfEvenBound ==
  ASSUME NEW n \in Nat, NEW d \in Nat \ {0}, NEW g \in Nat, n <= g * d
  PROVE  HalfEven(n, d) \in 0..g
<1> DEFINE q == n \div d
           r == n % d
<1>0. n \in Int /\ q \in Int /\ r \in 0..(d - 1) /\ n = d * q + r
  BY Division
<1>1. q \in Nat /\ r \in 0..(d - 1) /\ n = d * q + r
  BY <1>0, Division
<1>2. HalfEven(n, d) \in {q, q + 1} /\ (r = 0 => HalfEven(n, d) = q)
  BY DEF HalfEven
<1> HIDE DEF q, r
<1>3. q <= g
  <2> SUFFICES ASSUME q >= g + 1 PROVE FALSE
    BY <1>1
  <2>1. q - g - 1 \in Nat /\ q = g + 1 + (q - g - 1)
    BY <1>1
  <2>2. d * q = d * g + d + d * (q - g - 1) /\ d * (q - g - 1) >= 0
    BY <1>1, <2>1
  <2> QED BY <1>1, <2>2
<1>4. q = g => r = 0
  BY <1>1
<1> QED
  BY <1>1, <1>2, <1>3, <1>4

LEMMA HalfEvenInteger ==
  ASSUME NEW n \in Int, NEW d \in Nat \ {0}
  PROVE  HalfEven(n, d) \in Int
  BY Division DEF HalfEven

\* What is released of a cost is a part of it, and all of it with the last share.
LEMMA ReleasedPart ==
  ASSUME NEW cost \in Nat, NEW held \in Nat, NEW sold \in 0..held
  PROVE  /\ held # 0 => ReleasedCost(cost, held, sold) \in 0..cost
         /\ sold = held => ReleasedCost(cost, held, sold) = cost
<1>1. ASSUME held # 0, sold # held PROVE HalfEven(cost * sold, held) \in 0..cost
  <2>1. cost * sold \in Nat /\ cost * held = cost * sold + cost * (held - sold) /\ cost * (held - sold) \in Nat
    BY <1>1
  <2>2. cost * sold <= cost * held
    BY <2>1
  <2> QED BY <1>1, <2>1, <2>2, HalfEvenBound
<1> QED
  BY <1>1 DEF ReleasedCost

\* Amounts are settled in whole cents.
LEMMA SettledInteger ==
  ASSUME NEW n \in Int, NEW d \in Nat \ {0}
  PROVE  Settled(n, d) \in Int
<1>1. d * Cent \in Nat \ {0} /\ Cent \in Nat
  BY AccountShape
<1>2. HalfEven(n, d * Cent) \in Int
  BY <1>1, HalfEvenInteger
<1> HIDE DEF HalfEven
<1> QED
  BY <1>1, <1>2 DEF Settled

LEMMA SettledNatural ==
  ASSUME NEW n \in Nat, NEW d \in Nat \ {0}
  PROVE  Settled(n, d) \in Nat
<1>1. d * Cent \in Nat \ {0} /\ Cent \in Nat
  BY AccountShape
<1>2. n <= n * (d * Cent) /\ n * (d * Cent) \in Nat
  <2>1. d * Cent = 1 + (d * Cent - 1) /\ d * Cent - 1 \in Nat
    BY <1>1
  <2> DEFINE e == d * Cent - 1
  <2>2. n * (1 + e) = n + n * e /\ n * e \in Nat
    BY <2>1
  <2> QED BY <2>1, <2>2
<1>3. HalfEven(n, d * Cent) \in 0..n
  BY <1>1, <1>2, HalfEvenBound
<1> QED
  BY <1>1, <1>3 DEF Settled

\* What is withheld at first of a dividend is not more than the dividend.
LEMMA WithheldFirst ==
  ASSUME NEW n \in Nat, NEW first \in 0..10
  PROVE  /\ Settled(n, 1) \in Nat
         /\ Settled(Settled(n, 1) * first, 10) \in Nat
         /\ Settled(Settled(n, 1) * first, 10) <= Settled(n, 1)
<1>1. Cent \in Nat \ {0}
  BY AccountShape
<1> DEFINE g == HalfEven(n, 1 * Cent)
           i == HalfEven((Cent * g) * first, 10 * Cent)
<1>2. n <= n * (1 * Cent) /\ 1 * Cent \in Nat \ {0}
  <2>1. n * Cent = n + n * (Cent - 1) /\ n * (Cent - 1) \in Nat
    BY <1>1
  <2> QED BY <1>1, <2>1
<1>3. g \in Nat
  BY <1>2, HalfEvenBound
<1>4. Settled(n, 1) = Cent * g /\ Settled(Settled(n, 1) * first, 10) = Cent * i
  BY DEF Settled
<1> HIDE DEF g
<1>5. (Cent * g) * first \in Nat /\ (Cent * g) * first <= g * (10 * Cent)
  <2>1. Cent * g \in Nat
    BY <1>1, <1>3
  <2>2. g * (10 * Cent) = (Cent * g) * 10
    BY <1>1, <1>3
  <2> DEFINE e == Cent * g
  <2>3. e * 10 = e * first + e * (10 - first) /\ e * (10 - first) \in Nat /\ e * first \in Nat
    BY <2>1
  <2> QED BY <2>1, <2>2, <2>3
<1>6. i \in 0..g
  <2> DEFINE n1 == (Cent * g) * first
             d1 == 10 * Cent
  <2>1. n1 \in Nat /\ d1 \in Nat \ {0} /\ n1 <= g * d1
    BY <1>1, <1>5
  <2> HIDE DEF n1, d1
  <2>2. HalfEven(n1, d1) \in 0..g
    BY <1>3, <2>1, HalfEvenBound
  <2> QED BY <2>2 DEF n1, d1
<1> HIDE DEF i
<1>7. Cent * g \in Nat /\ Cent * i \in Nat /\ Cent * i <= Cent * g
  <2>1. Cent * g = Cent * i + Cent * (g - i) /\ Cent * (g - i) \in Nat /\ Cent * i \in Nat
    BY <1>1, <1>3, <1>6
  <2> QED BY <2>1
<1> QED
  BY <1>4, <1>7

\* The commission of an order grows with what it traded.
LEMMA CommissionGrows ==
  ASSUME NEW m \in Nat, NEW n \in Nat, m <= n
  PROVE  Commission(m) \in Nat /\ Commission(n) \in Nat /\ Commission(m) <= Commission(n)
<1>1. FeeUnit \in Nat \ {0} /\ MinFee \in Nat
  BY AccountShape
<1>2. m \div FeeUnit \in Nat /\ n \div FeeUnit \in Nat /\ m \div FeeUnit <= n \div FeeUnit
  BY <1>1, Division, QuotientGrows
<1> QED
  BY <1>1, <1>2 DEF Commission, Greater

-----------------------------------------------------------------------------
(* What is folded: orders end one after the other, orders are matched one  *)
(* after the other, corporate actions take place one after the other,      *)
(* shares leave, and claims are attached, lot by lot.                      *)

Releasing      == [fold |-> "release"]
Matching(bar)  == [fold |-> "match", bar |-> bar]
Acting(phase)  == [fold |-> "act", phase |-> phase]
Selling(lots, day)  == [fold |-> "sell", lots |-> lots, day |-> day]
Attaching(lots, i)  == [fold |-> "attach", lots |-> lots, action |-> i]

OneMore(k, x, v) ==
  IF k.fold = "release" THEN Release(v, x)
  ELSE IF k.fold = "match" THEN MatchOne(v, x, k.bar)
  ELSE IF k.fold = "act" THEN Step(v, x, k.phase)
  ELSE IF k.fold = "sell" THEN TakeLot(v, k.lots[x], k.day)
  ELSE AttachOne(v, k.lots[x], k.action)
Taking(k, s) == IF k.fold = "release" THEN One(s) ELSE Max(s)

\* F folds k over the parts of S.
Folds(F, k, base, S) ==
  F = [s \in SUBSET S |-> IF s = {} THEN base ELSE OneMore(k, Taking(k, s), F[s \ {Taking(k, s)}])]
FoldsUpTo(F, k, base, S, n) ==
  \A s \in SUBSET S : Cardinality(s) <= n =>
    F[s] = IF s = {} THEN base ELSE OneMore(k, Taking(k, s), F[s \ {Taking(k, s)}])
Chooses(k, S) == \A s \in SUBSET S : s # {} => Taking(k, s) \in s

LEMMA MovedOver ==
  ASSUME NEW x \in Int, NEW y \in Int, NEW u \in Int, NEW v \in Int, x - u = y - v
  PROVE  x = y + u - v
OBVIOUS

\* A finite set of numbers has a greatest element.
LEMMA GreatestNumber ==
  ASSUME NEW S, IsFiniteSet(S)
  PROVE  \A t \in SUBSET S : t # {} /\ t \subseteq Int => Max(t) \in t /\ \A y \in t : Max(t) >= y
<1> DEFINE Bad == {t \in SUBSET S : t # {} /\ t \subseteq Int /\ ~ \E x \in t : \A y \in t : x >= y}
<1>1. ASSUME Bad # {} PROVE FALSE
  <2>1. PICK m \in Bad : \A t \in Bad : t \subseteq m => t = m
    <3>1. Bad \subseteq SUBSET S
      OBVIOUS
    <3> HIDE DEF Bad
    <3> QED BY <1>1, <3>1, SmallestSet
  <2>2. PICK x \in m : x \in Int
    OBVIOUS
  <2>3. m \ {x} # {}
    <3> SUFFICES ASSUME m = {x} PROVE FALSE
      BY <2>2
    <3> QED BY <2>2
  <2>4. m \ {x} \in SUBSET S /\ m \ {x} \subseteq Int /\ m \ {x} \notin Bad
    BY <2>1, <2>2
  <2>5. PICK y \in m \ {x} : \A z \in m \ {x} : y >= z
    BY <2>3, <2>4
  <2>6. y \in Int /\ \A z \in m : z \in Int
    OBVIOUS
  <2>7. CASE x >= y
    <3>1. \A z \in m : x >= z
      BY <2>2, <2>5, <2>6, <2>7
    <3> QED BY <2>2, <3>1
  <2>8. CASE ~ (x >= y)
    <3>1. \A z \in m : y >= z
      BY <2>2, <2>5, <2>6, <2>8
    <3> QED BY <2>5, <3>1
  <2> QED BY <2>7, <2>8
<1>2. \A t \in SUBSET S : t # {} /\ t \subseteq Int => \E x \in t : \A y \in t : x >= y
  BY <1>1
<1> QED
  BY <1>2 DEF Max

LEMMA Chosen ==
  ASSUME NEW S, IsFiniteSet(S), S \subseteq Int, NEW k
  PROVE  Chooses(k, S)
<1> SUFFICES ASSUME NEW s \in SUBSET S, s # {} PROVE Taking(k, s) \in s
  BY DEF Chooses
<1>1. One(s) \in s
  BY DEF One
<1>2. Max(s) \in s
  BY FS_Subset, GreatestNumber
<1> QED
  BY <1>1, <1>2 DEF Taking

\* There is such a fold for every size, and so for the whole.
LEMMA FoldsToAnySize ==
  ASSUME NEW S, IsFiniteSet(S), NEW k, NEW base, Chooses(k, S), NEW n \in Nat
  PROVE  \E F : FoldsUpTo(F, k, base, S, n)
<1> DEFINE Bad == {j \in Nat : ~ \E F : FoldsUpTo(F, k, base, S, j)}
<1> SUFFICES ASSUME Bad # {} PROVE FALSE
  OBVIOUS
<1>1. PICK j \in Bad : \A i \in Bad : j <= i
  <2>1. Bad \subseteq Nat
    OBVIOUS
  <2> HIDE DEF Bad
  <2> QED BY <2>1, LeastNumber
<1>2. j # 0
  <2> DEFINE F == [s \in SUBSET S |-> base]
  <2>1. \A s \in SUBSET S : Cardinality(s) <= 0 => s = {}
    BY FS_CardinalityType, FS_Subset, FS_EmptySet
  <2>2. FoldsUpTo(F, k, base, S, 0)
    BY <2>1 DEF FoldsUpTo
  <2> HIDE DEF F
  <2> QED BY <2>2
<1>3. PICK F : FoldsUpTo(F, k, base, S, j - 1)
  <2>1. j - 1 \in Nat /\ j - 1 \notin Bad
    BY <1>1, <1>2
  <2> QED BY <2>1
<1> DEFINE G == [s \in SUBSET S |-> IF s = {} THEN base ELSE OneMore(k, Taking(k, s), F[s \ {Taking(k, s)}])]
<1>4. ASSUME NEW s \in SUBSET S, Cardinality(s) <= j, s # {}
      PROVE  G[s] = OneMore(k, Taking(k, s), G[s \ {Taking(k, s)}])
  <2> DEFINE t == s \ {Taking(k, s)}
  <2>1. t \in SUBSET S /\ Cardinality(t) <= j - 1
    <3>1. Taking(k, s) \in s /\ IsFiniteSet(s)
      BY <1>4, FS_Subset DEF Chooses
    <3>2. Cardinality(t) = Cardinality(s) - 1 /\ Cardinality(s) \in Nat
      BY <3>1, FS_RemoveElement, FS_CardinalityType
    <3> QED BY <1>4, <3>2
  <2>2. F[t] = G[t]
    <3> HIDE DEF t
    <3> QED BY <1>3, <2>1 DEF FoldsUpTo
  <2> QED
    BY <1>4, <2>2
<1>5. FoldsUpTo(G, k, base, S, j)
  <2>1. G[{}] = base
    OBVIOUS
  <2> HIDE DEF G
  <2> QED BY <1>4, <2>1 DEF FoldsUpTo
<1> HIDE DEF G
<1> QED
  BY <1>1, <1>5

LEMMA FoldExists ==
  ASSUME NEW S, IsFiniteSet(S), NEW k, NEW base, Chooses(k, S)
  PROVE  \E F : Folds(F, k, base, S)
<1>1. Cardinality(S) \in Nat
  BY FS_CardinalityType
<1>2. PICK F : FoldsUpTo(F, k, base, S, Cardinality(S))
  BY <1>1, FoldsToAnySize
<1>3. \A s \in SUBSET S : Cardinality(s) <= Cardinality(S)
  BY FS_Subset
<1> DEFINE G == [s \in SUBSET S |-> F[s]]
<1>4. \A s \in SUBSET S : s # {} => s \ {Taking(k, s)} \in SUBSET S
  OBVIOUS
<1>5. \A s \in SUBSET S : G[s] = IF s = {} THEN base ELSE OneMore(k, Taking(k, s), G[s \ {Taking(k, s)}])
  BY <1>2, <1>3, <1>4 DEF FoldsUpTo
<1>6. G = [s \in SUBSET S |-> G[s]]
  OBVIOUS
<1>7. Folds(G, k, base, S)
  <2> HIDE DEF G
  <2> QED BY <1>5, <1>6 DEF Folds
<1> HIDE DEF G
<1> QED
  BY <1>7

LEMMA OrdersFinite == \A S \in SUBSET Orders : IsFiniteSet(S) /\ S \subseteq Int
<1>1. MaxOrders \in Nat
  BY AccountShape
<1>2. IsFiniteSet(1..MaxOrders)
  BY <1>1, FS_Interval
<1>3. 1..MaxOrders \subseteq Int
  BY <1>1
<1> QED
  BY <1>2, <1>3, FS_Subset DEF Orders


\* What holds at 0, and at every number that follows one where it holds, holds
\* at every number up to n: B are the numbers where it holds.
LEMMA CountInduction ==
  ASSUME NEW n \in Nat, NEW B, 0 \in B, \A j \in 1..n : j - 1 \in B => j \in B
  PROVE  \A j \in 0..n : j \in B
<1> DEFINE Bad == {j \in 0..n : j \notin B}
<1> SUFFICES ASSUME Bad # {} PROVE FALSE
  OBVIOUS
<1>1. PICK j \in Bad : \A i \in Bad : j <= i
  <2>1. Bad \subseteq Nat
    OBVIOUS
  <2> HIDE DEF Bad
  <2> QED BY <2>1, LeastNumber
<1>2. j \in 1..n /\ j - 1 \in 0..n
  OBVIOUS
<1>3. j - 1 \notin Bad
  BY <1>1, <1>2
<1> QED
  BY <1>2, <1>3

\* A fold along a sequence: what it is after each element.
LEMMA FoldAlong ==
  ASSUME NEW n \in Nat, NEW k, k.fold # "release", NEW base, NEW F, Folds(F, k, base, 1..n)
  PROVE  \E G : /\ G[0] = base /\ G[n] = F[1..n]
                /\ \A j \in 1..n : G[j] = OneMore(k, j, G[j - 1])
<1> DEFINE G == [j \in 0..n |-> F[1..j]]
<1>1. \A j \in 1..n : Max(1..j) = j /\ (1..j) \ {j} = 1..(j - 1) /\ 1..j # {}
  <2> SUFFICES ASSUME NEW j \in 1..n PROVE Max(1..j) = j /\ (1..j) \ {j} = 1..(j - 1) /\ 1..j # {}
    OBVIOUS
  <2>0. j \in Int /\ 1 \in Int
    OBVIOUS
  <2>3. IsFiniteSet(1..j)
    BY <2>0, FS_Interval
  <2>1. IsFiniteSet(1..j) /\ 1..j \in SUBSET (1..j) /\ 1..j # {} /\ 1..j \subseteq Int
    BY <2>3
  <2>2. Max(1..j) \in 1..j /\ \A y \in 1..j : Max(1..j) >= y
    BY <2>1, GreatestNumber
  <2> QED BY <2>1, <2>2
<1>2. \A s \in SUBSET (1..n) : F[s] = IF s = {} THEN base ELSE OneMore(k, Max(s), F[s \ {Max(s)}])
  BY DEF Folds, Taking
<1>3. G[0] = base
  <2>1. 1..0 = {} /\ 0 \in 0..n /\ 1..0 \in SUBSET (1..n)
    OBVIOUS
  <2>2. F[1..0] = base
    BY <1>2, <2>1
  <2> QED BY <2>1, <2>2
<1>4. ASSUME NEW j \in 1..n PROVE G[j] = OneMore(k, j, G[j - 1])
  <2>1. 1..j \in SUBSET (1..n) /\ j \in 0..n /\ j - 1 \in 0..n
    OBVIOUS
  <2>2. F[1..j] = OneMore(k, Max(1..j), F[(1..j) \ {Max(1..j)}])
    BY <1>1, <1>2, <2>1
  <2> QED BY <1>1, <2>1, <2>2
<1>5. G[n] = F[1..n]
  OBVIOUS
<1> HIDE DEF G
<1> QED
  BY <1>3, <1>4, <1>5

-----------------------------------------------------------------------------
(* Ranks.                                                                  *)

\* If below orders the elements of S, exactly one has a given rank.
Ranks(below, S) ==
  /\ below \in [S -> SUBSET S]
  /\ \A x \in S : x \notin below[x]
  /\ \A x, y \in S : x \in below[y] => below[x] \subseteq below[y]
  /\ \A x, y \in S : x = y \/ x \in below[y] \/ y \in below[x]
LEMMA RankIsOneToOne ==
  ASSUME NEW S, IsFiniteSet(S), NEW below, Ranks(below, S)
  PROVE  /\ Cardinality(S) \in Nat
         /\ \A x \in S : Cardinality(below[x]) + 1 \in 1..Cardinality(S)
         /\ \A i \in 1..Cardinality(S) : \E x \in S : Cardinality(below[x]) = i - 1
         /\ \A x, y \in S : Cardinality(below[x]) = Cardinality(below[y]) => x = y
<1> DEFINE N == Cardinality(S)
           f == [x \in S |-> Cardinality(below[x]) + 1]
<1>0. /\ below \in [S -> SUBSET S]
      /\ \A x \in S : x \notin below[x]
      /\ \A x, y \in S : x \in below[y] => below[x] \subseteq below[y]
      /\ \A x, y \in S : x = y \/ x \in below[y] \/ y \in below[x]
  BY DEF Ranks
<1>1. N \in Nat
  BY FS_CardinalityType
<1>2. \A x \in S : IsFiniteSet(below[x]) /\ Cardinality(below[x]) \in Nat /\ Cardinality(below[x]) < N
  <2> SUFFICES ASSUME NEW x \in S
               PROVE IsFiniteSet(below[x]) /\ Cardinality(below[x]) \in Nat /\ Cardinality(below[x]) < N
    OBVIOUS
  <2> DEFINE b == below[x]
  <2>1. b \in SUBSET S /\ b # S
    BY <1>0
  <2> HIDE DEF b
  <2>2. IsFiniteSet(b) /\ Cardinality(b) <= N /\ N # Cardinality(b)
    BY <2>1, FS_Subset
  <2>3. Cardinality(b) \in Nat
    BY <2>2, FS_CardinalityType
  <2> QED BY <1>1, <2>2, <2>3 DEF b
<1>3. \A x, y \in S : x \in below[y] => f[x] < f[y]
  <2> SUFFICES ASSUME NEW x \in S, NEW y \in S, x \in below[y]
               PROVE Cardinality(below[x]) < Cardinality(below[y])
    <3>1. \A x, y \in S : x \in below[y] => Cardinality(below[x]) < Cardinality(below[y])
      OBVIOUS
    <3>2. \A x \in S : Cardinality(below[x]) \in Nat /\ f[x] = Cardinality(below[x]) + 1
      BY <1>2
    <3> HIDE DEF f
    <3> QED BY <3>1, <3>2
  <2> DEFINE b == below[x]
             c == below[y]
  <2>1. /\ b \in SUBSET c /\ b # c /\ IsFiniteSet(c)
        /\ Cardinality(b) \in Nat /\ Cardinality(c) \in Nat
    BY <1>0, <1>2
  <2> HIDE DEF b, c
  <2>2. Cardinality(b) <= Cardinality(c) /\ Cardinality(c) # Cardinality(b)
    BY <2>1, FS_Subset
  <2>3. Cardinality(b) < Cardinality(c)
    BY <2>1, <2>2
  <2> QED BY <2>3 DEF b, c
<1>4. f \in [S -> 1..N]
  <2>1. \A x \in S : Cardinality(below[x]) + 1 \in 1..N
    BY <1>1, <1>2
  <2> QED BY <2>1
<1>5. \A x, y \in S : f[x] = f[y] => x = y
  <2>1. \A x, y \in S : f[x] \in Int /\ (x = y \/ x \in below[y] \/ y \in below[x])
    BY <1>0, <1>1, <1>4
  <2> HIDE DEF f
  <2> QED BY <1>3, <2>1
<1>6. f \in Injection(S, 1..N)
  <2> HIDE DEF f
  <2> QED BY <1>4, <1>5 DEF Injection, IsInjective
<1>7. f \in Surjection(S, 1..N)
  <2>1. IsFiniteSet(1..N) /\ Cardinality(1..N) = N
    BY <1>1, FS_Interval
  <2> HIDE DEF f
  <2> QED BY <1>6, <2>1, FS_Injection
<1>8. \A i \in 1..N : \E x \in S : f[x] = i
  <2> HIDE DEF f
  <2> QED BY <1>7 DEF Surjection
<1>9. \A x \in S : Cardinality(below[x]) \in Nat /\ f[x] = Cardinality(below[x]) + 1
  BY <1>2
<1> HIDE DEF f
<1>10. \A i \in 1..N : \E x \in S : Cardinality(below[x]) = i - 1
  <2> SUFFICES ASSUME NEW i \in 1..N PROVE \E x \in S : Cardinality(below[x]) = i - 1
    OBVIOUS
  <2>1. PICK x \in S : f[x] = i
    BY <1>8
  <2>2. Cardinality(below[x]) = i - 1
    BY <1>9, <2>1
  <2> QED BY <2>2
<1>11. \A x \in S : Cardinality(below[x]) + 1 \in 1..N
  BY <1>4, <1>9
<1> QED
  BY <1>1, <1>5, <1>9, <1>10, <1>11

\* The numbers of a finite set are ranked from the least to the greatest.
LEMMA RankedAll ==
  ASSUME NEW S, IsFiniteSet(S), S \subseteq Int
  PROVE  /\ Cardinality(S) \in Nat
         /\ \A i \in 1..Cardinality(S) : Ranked(S, i) \in S
         /\ \A i, j \in 1..Cardinality(S) : Ranked(S, i) = Ranked(S, j) => i = j
         /\ \A x \in S : \E i \in 1..Cardinality(S) : Ranked(S, i) = x
<1> DEFINE below == [x \in S |-> {y \in S : y < x}]
           N == Cardinality(S)
<1>1. /\ below \in [S -> SUBSET S] /\ \A x \in S : below[x] = {y \in S : y < x}
      /\ \A x \in S : x \notin below[x]
      /\ \A x, y \in S : x = y \/ x \in below[y] \/ y \in below[x]
  BY \A x \in S : x \in Int
<1>2. \A x, y \in S : x \in below[y] => below[x] \subseteq below[y]
  <2> SUFFICES ASSUME NEW x \in S, NEW y \in S, x < y, NEW z \in S, z < x PROVE z < y
    OBVIOUS
  <2> QED BY x \in Int, y \in Int, z \in Int
<1> HIDE DEF below
<1>5. Ranks(below, S)
  BY <1>1, <1>2 DEF Ranks
<1>3. /\ N \in Nat
      /\ \A x \in S : Cardinality(below[x]) + 1 \in 1..N
      /\ \A i \in 1..N : \E x \in S : Cardinality(below[x]) = i - 1
      /\ \A x, y \in S : Cardinality(below[x]) = Cardinality(below[y]) => x = y
  BY <1>1, <1>5, RankIsOneToOne
<1>4. \A i \in 1..N : Ranked(S, i) \in S /\ Cardinality(below[Ranked(S, i)]) = i - 1
  <2> SUFFICES ASSUME NEW i \in 1..N PROVE Ranked(S, i) \in S /\ Cardinality(below[Ranked(S, i)]) = i - 1
    OBVIOUS
  <2>1. \E x \in S : Cardinality({y \in S : y < x}) = i - 1
    BY <1>1, <1>3
  <2>2. Ranked(S, i) \in S /\ Cardinality({y \in S : y < Ranked(S, i)}) = i - 1
    BY <2>1 DEF Ranked
  <2> QED BY <1>1, <2>2
<1>6. \A x \in S : \E i \in 1..N : Ranked(S, i) = x
  <2> SUFFICES ASSUME NEW x \in S PROVE \E i \in 1..N : Ranked(S, i) = x
    OBVIOUS
  <2> DEFINE i == Cardinality(below[x]) + 1
  <2>1. i \in 1..N /\ Cardinality(below[x]) \in Nat
    <3>1. below[x] \in SUBSET S /\ IsFiniteSet(below[x])
      BY <1>1, FS_Subset
    <3> QED BY <1>3, <3>1, FS_CardinalityType
  <2>2. Ranked(S, i) \in S /\ Cardinality(below[Ranked(S, i)]) = i - 1
    BY <1>4, <2>1
  <2>3. Cardinality(below[Ranked(S, i)]) = Cardinality(below[x])
    BY <2>1, <2>2
  <2>4. Ranked(S, i) = x
    <3> HIDE DEF i
    <3> QED BY <1>3, <2>2, <2>3
  <2> QED BY <2>1, <2>4
<1>7. \A i, j \in 1..N : Ranked(S, i) = Ranked(S, j) => i = j
  <2> SUFFICES ASSUME NEW i \in 1..N, NEW j \in 1..N, Ranked(S, i) = Ranked(S, j) PROVE i = j
    OBVIOUS
  <2>1. i - 1 = j - 1
    BY <1>4
  <2> QED BY <1>3, <2>1
<1> QED
  BY <1>3, <1>4, <1>6, <1>7

-----------------------------------------------------------------------------
(* Lots.                                                                   *)

ClaimSet == [quantity : Nat, gross : Nat, initial : Nat]
ClaimMaps == UNION {[D -> ClaimSet] : D \in SUBSET DOMAIN Actions}
LotSet == [acquired : Nat, from : Nat, quantity : Nat \ {0}, claims : ClaimMaps]

\* What a sequence weighs, by the weight of each of its elements.
Weight(f, seq) == SumFunction([k \in DOMAIN seq |-> f[seq[k]]])

\* The shares of a lot, those that may be sold, and what is claimed on them.
Sizes        == [l \in LotSet |-> l.quantity]
Ripe(day)    == [l \in LotSet |-> IF l.from <= day THEN l.quantity ELSE 0]
GrossOf(i)   == [l \in LotSet |-> IF i \in DOMAIN l.claims THEN l.claims[i].gross ELSE 0]
InitialOf(i) == [l \in LotSet |-> IF i \in DOMAIN l.claims THEN l.claims[i].initial ELSE 0]

LEMMA ClaimsShape ==
  ASSUME NEW l \in LotSet
  PROVE  /\ DOMAIN l.claims \in SUBSET DOMAIN Actions
         /\ l.claims = [i \in DOMAIN l.claims |-> l.claims[i]]
         /\ \A i \in DOMAIN l.claims : /\ l.claims[i] \in ClaimSet
                                       /\ l.claims[i].quantity \in Nat
                                       /\ l.claims[i].gross \in Nat /\ l.claims[i].initial \in Nat
<1>1. PICK D \in SUBSET DOMAIN Actions : l.claims \in [D -> ClaimSet]
  BY DEF LotSet, ClaimMaps
<1> QED
  BY <1>1 DEF ClaimSet

LEMMA ClaimsMade ==
  ASSUME NEW D \in SUBSET DOMAIN Actions, NEW f \in [D -> ClaimSet]
  PROVE  f \in ClaimMaps
  BY DEF ClaimMaps

LEMMA NewLot ==
  ASSUME NEW acquired \in Nat, NEW from \in Nat, NEW quantity \in Nat \ {0}
  PROVE  LET l == [acquired |-> acquired, from |-> from, quantity |-> quantity, claims |-> <<>>]
         IN  l \in LotSet /\ DOMAIN l.claims = {}
<1> DEFINE f == <<>>
           D == {}
<1>1. f \in [D -> ClaimSet] /\ D \in SUBSET DOMAIN Actions
  OBVIOUS
<1> HIDE DEF f, D
<1>2. f \in ClaimMaps
  BY <1>1, ClaimsMade
<1>3. <<>> \in ClaimMaps
  BY <1>2 DEF f
<1> QED
  BY <1>3 DEF LotSet

LEMMA Measures ==
  /\ Sizes \in [LotSet -> Nat]
  /\ \A day \in Int : Ripe(day) \in [LotSet -> Nat]
  /\ \A i : GrossOf(i) \in [LotSet -> Nat] /\ InitialOf(i) \in [LotSet -> Nat]
<1>1. Sizes \in [LotSet -> Nat] /\ \A day \in Int : Ripe(day) \in [LotSet -> Nat]
  BY DEF Sizes, Ripe, LotSet
<1>2. ASSUME NEW i, NEW l \in LotSet
      PROVE  /\ (IF i \in DOMAIN l.claims THEN l.claims[i].gross ELSE 0) \in Nat
             /\ (IF i \in DOMAIN l.claims THEN l.claims[i].initial ELSE 0) \in Nat
  BY ClaimsShape
<1>3. ASSUME NEW i PROVE GrossOf(i) \in [LotSet -> Nat] /\ InitialOf(i) \in [LotSet -> Nat]
  BY <1>2 DEF GrossOf, InitialOf
<1> QED
  BY <1>1, <1>3

LEMMA SequenceShape ==
  ASSUME NEW L, NEW seq \in Seq(L)
  PROVE  /\ Len(seq) \in Nat /\ DOMAIN seq = 1..Len(seq) /\ IsFiniteSet(DOMAIN seq) /\ DOMAIN seq \subseteq Int
         /\ \A k \in DOMAIN seq : seq[k] \in L
<1>1. Len(seq) \in Nat /\ DOMAIN seq = 1..Len(seq) /\ \A k \in DOMAIN seq : seq[k] \in L
  BY LenProperties, ElementOfSeq
<1>2. IsFiniteSet(1..Len(seq))
  BY <1>1, FS_Interval
<1> QED
  BY <1>1, <1>2

LEMMA WeightInteger ==
  ASSUME NEW L, NEW f \in [L -> Int], NEW seq \in Seq(L)
  PROVE  /\ Weight(f, seq) \in Int
         /\ [k \in DOMAIN seq |-> f[seq[k]]] \in [DOMAIN seq -> Int]
         /\ seq = <<>> => Weight(f, seq) = 0
<1> DEFINE S == DOMAIN seq
           g == [k \in S |-> f[seq[k]]]
<1>1. IsFiniteSet(S) /\ g \in [S -> Int] /\ (seq = <<>> => S = {})
  BY SequenceShape
<1> HIDE DEF g, S
<1>2. SumFunction(g) \in Int /\ (S = {} => SumFunction(g) = 0)
  BY <1>1, SumInteger
<1> QED
  BY <1>1, <1>2 DEF Weight, g, S

LEMMA WeightNatural ==
  ASSUME NEW L, NEW f \in [L -> Nat], NEW seq \in Seq(L)
  PROVE  Weight(f, seq) \in Nat /\ f \in [L -> Int]
<1> DEFINE S == DOMAIN seq
           g == [k \in S |-> f[seq[k]]]
<1>1. IsFiniteSet(S) /\ g \in [S -> Nat]
  BY SequenceShape
<1> HIDE DEF g, S
<1>2. SumFunction(g) \in Nat
  BY <1>1, SumNatural
<1> QED
  BY <1>2 DEF Weight, g, S

LEMMA WeightAppend ==
  ASSUME NEW L, NEW f \in [L -> Int], NEW seq \in Seq(L), NEW l \in L
  PROVE  /\ Append(seq, l) \in Seq(L)
         /\ Weight(f, Append(seq, l)) = Weight(f, seq) + f[l]
<1> DEFINE more == Append(seq, l)
           n == Len(seq)
           S == DOMAIN more
           g == [k \in S |-> f[more[k]]]
           T == DOMAIN seq
           h == [k \in T |-> f[seq[k]]]
<1>1. /\ more \in Seq(L) /\ Len(more) = n + 1 /\ n \in Nat /\ T = 1..n
      /\ \A k \in 1..n : more[k] = seq[k]
      /\ more[n + 1] = l
  BY AppendProperties, SequenceShape
<1>2. IsFiniteSet(S) /\ S = 1..(n + 1) /\ g \in [S -> Int]
  BY <1>1, SequenceShape
<1>3. n + 1 \in S /\ S \ {n + 1} = T /\ g[n + 1] = f[l] /\ Restrict(g, T) = h
  BY <1>1, <1>2 DEF Restrict
<1>4. Weight(f, seq) = SumFunction(h) /\ Weight(f, more) = SumFunction(g) /\ f[l] \in Int
  BY DEF Weight
<1> HIDE DEF g, h, S, T, more
<1>5. SumFunction(Restrict(g, S \ {n + 1})) \in Int /\ SumFunction(g) = g[n + 1] + SumFunction(Restrict(g, S \ {n + 1}))
  BY <1>2, <1>3, SumWithout
<1>6. Restrict(g, S \ {n + 1}) = h
  BY <1>3
<1>7. SumFunction(g) = SumFunction(h) + f[l]
  BY <1>3, <1>4, <1>5, <1>6
<1> QED
  BY <1>1, <1>4, <1>7 DEF more

\* One element is replaced.
Reweighs(f, new, seq, k, l) == Weight(f, new) = Weight(f, seq) + f[l] - f[seq[k]]
LEMMA WeightReplaced ==
  ASSUME NEW L, NEW f \in [L -> Int], NEW seq \in Seq(L), NEW k \in DOMAIN seq, NEW l \in L,
         NEW new, new = [seq EXCEPT ![k] = l]
  PROVE  new \in Seq(L) /\ Reweighs(f, new, seq, k, l)
<1> DEFINE S == DOMAIN seq
           g == [j \in S |-> f[seq[j]]]
           h == [j \in S |-> f[new[j]]]
<1>1. new \in Seq(L)
  BY ExceptSeq
<1>2. DOMAIN new = S /\ new[k] = l /\ \A j \in S \ {k} : new[j] = seq[j]
  OBVIOUS
<1>3. IsFiniteSet(S) /\ g \in [S -> Int] /\ h \in [S -> Int] /\ k \in S /\ \A j \in S \ {k} : h[j] = g[j]
  BY <1>2, SequenceShape
<1>4. h[k] = f[l] /\ g[k] = f[seq[k]] /\ h[k] \in Int /\ g[k] \in Int
  BY <1>2, <1>3
<1>5. Weight(f, seq) = SumFunction(g) /\ Weight(f, new) = SumFunction(h)
  BY <1>2 DEF Weight
<1> HIDE DEF g, h, S
<1>6. SumFunction(h) - h[k] = SumFunction(g) - g[k]
  <2>1. ChangedAt(S, g, h, k)
    BY <1>3 DEF ChangedAt
  <2> QED BY <2>1, SumChanged
<1>7. SumFunction(h) \in Int /\ SumFunction(g) \in Int
  BY <1>3, SumInteger
<1>8. Weight(f, new) = Weight(f, seq) + f[l] - f[seq[k]]
  <2>1. SumFunction(h) = SumFunction(g) + h[k] - g[k]
    BY <1>4, <1>6, <1>7, MovedOver
  <2> QED BY <1>4, <1>5, <2>1
<1> QED
  BY <1>1, <1>8 DEF Reweighs

\* What is picked weighs what it weighed where it was.
LEMMA PickedAll ==
  ASSUME NEW L, NEW seq \in Seq(L), NEW T \in SUBSET DOMAIN seq
  PROVE  /\ Picked(seq, T) \in Seq(L)
         /\ \A j \in DOMAIN Picked(seq, T) : \E k \in T : Picked(seq, T)[j] = seq[k]
         /\ \A f \in [L -> Int] : Weight(f, Picked(seq, T)) = SumFunction([k \in T |-> f[seq[k]]])
<1> DEFINE N == Cardinality(T)
           p == Picked(seq, T)
           r == [j \in 1..N |-> Ranked(T, j)]
<1>1. IsFiniteSet(T) /\ T \subseteq Int /\ \A k \in T : seq[k] \in L
  BY SequenceShape, FS_Subset
<1>2. /\ N \in Nat
      /\ \A j \in 1..N : Ranked(T, j) \in T
      /\ \A i, j \in 1..N : Ranked(T, i) = Ranked(T, j) => i = j
      /\ \A x \in T : \E j \in 1..N : Ranked(T, j) = x
  BY <1>1, RankedAll
<1>3. p = [j \in 1..N |-> seq[Ranked(T, j)]]
  BY DEF Picked
<1>4. p \in Seq(L) /\ DOMAIN p = 1..N
  <2>1. p \in [1..N -> L]
    BY <1>1, <1>2, <1>3
  <2> HIDE DEF p, N
  <2> QED BY <1>2, <2>1, IsASeq
<1>5. ASSUME NEW f \in [L -> Int] PROVE Weight(f, p) = SumFunction([k \in T |-> f[seq[k]]])
  <2> DEFINE S == 1..N
             h == [j \in S |-> f[p[j]]]
             g == [k \in T |-> f[seq[k]]]
  <2>1. IsFiniteSet(S)
    BY <1>2, FS_Interval
  <2>2. r \in [S -> T] /\ (\A i, j \in S : r[i] = r[j] => i = j) /\ \A x \in T : \E j \in S : r[j] = x
    BY <1>2
  <2>3. \A j \in S : p[j] = seq[r[j]] /\ p[j] \in L
    BY <1>1, <1>2, <1>3
  <2>4. h \in [S -> Int] /\ g \in [T -> Int]
    BY <1>1, <2>3
  <2>5. \A j \in S : h[j] = g[r[j]]
    BY <2>2, <2>3
  <2>6. Weight(f, p) = SumFunction(h)
    BY <1>4 DEF Weight
  <2> HIDE DEF h, g, S, r, p
  <2>10. Renamed(h, g, r, S)
    BY <2>5 DEF Renamed
  <2>9. IsFiniteSet(T)
    BY <1>1
  <2>8. Renames(r, S, T)
    BY <2>2 DEF Renames
  <2>7. SumFunction(h) = SumFunction(g)
    BY <2>1, <2>4, <2>8, <2>9, <2>10, SumRenamed
  <2> QED BY <2>6, <2>7 DEF g
<1>6. \A j \in DOMAIN p : \E k \in T : p[j] = seq[k]
  BY <1>2, <1>3, <1>4
<1> HIDE DEF p
<1> QED
  BY <1>4, <1>5, <1>6 DEF p

\* Lots by age weigh what they weighed.
LEMMA ByAgeAll ==
  ASSUME NEW seq \in Seq(LotSet)
  PROVE  /\ ByAge(seq) \in Seq(LotSet)
         /\ \A j \in DOMAIN ByAge(seq) : \E k \in DOMAIN seq : ByAge(seq)[j] = seq[k]
         /\ \A f \in [LotSet -> Int] : Weight(f, ByAge(seq)) = Weight(f, seq)
<1> DEFINE S == DOMAIN seq
           N == Len(seq)
           below == [k \in S |-> Before(seq, k)]
           At(i) == CHOOSE k \in S : Cardinality(Before(seq, k)) = i - 1
           r == [i \in S |-> At(i)]
           b == ByAge(seq)
<1>1. /\ IsFiniteSet(S) /\ N \in Nat /\ S = 1..N
      /\ \A k \in S : k \in Int /\ seq[k] \in LotSet /\ seq[k].acquired \in Nat
  <2>1. \A l \in LotSet : l.acquired \in Nat
    BY DEF LotSet
  <2> QED BY <2>1, SequenceShape
<1>2. /\ below \in [S -> SUBSET S]
      /\ \A x \in S : x \notin below[x]
      /\ \A x, y \in S : x = y \/ x \in below[y] \/ y \in below[x]
  BY <1>1 DEF Before
<1>3. \A x, y \in S : x \in below[y] => below[x] \subseteq below[y]
  <2> SUFFICES ASSUME NEW x \in S, NEW y \in S, x \in Before(seq, y), NEW z \in Before(seq, x)
               PROVE z \in Before(seq, y)
    OBVIOUS
  <2>1. z \in S
    BY DEF Before
  <2> QED BY <1>1, <2>1 DEF Before
<1>4. Cardinality(S) = N
  BY <1>1, FS_Interval
<1>5. \A k \in S : below[k] = Before(seq, k)
  OBVIOUS
<1> HIDE DEF below
<1>16. IsFiniteSet(S)
  BY <1>1
<1>15. Ranks(below, S)
  BY <1>2, <1>3 DEF Ranks
<1>6. /\ \A x \in S : Cardinality(below[x]) + 1 \in 1..N
      /\ \A i \in 1..N : \E x \in S : Cardinality(below[x]) = i - 1
      /\ \A x, y \in S : Cardinality(below[x]) = Cardinality(below[y]) => x = y
  <2> HIDE DEF S, N
  <2>1. /\ \A x \in S : Cardinality(below[x]) + 1 \in 1..Cardinality(S)
        /\ \A i \in 1..Cardinality(S) : \E x \in S : Cardinality(below[x]) = i - 1
        /\ \A x, y \in S : Cardinality(below[x]) = Cardinality(below[y]) => x = y
    BY <1>16, <1>15, RankIsOneToOne
  <2> QED BY <1>4, <2>1
<1>7. \A i \in S : At(i) \in S /\ Cardinality(below[At(i)]) = i - 1
  <2> SUFFICES ASSUME NEW i \in S PROVE At(i) \in S /\ Cardinality(below[At(i)]) = i - 1
    OBVIOUS
  <2>1. \E k \in S : Cardinality(Before(seq, k)) = i - 1
    BY <1>1, <1>5, <1>6
  <2>2. At(i) \in S /\ Cardinality(Before(seq, At(i))) = i - 1
    BY <2>1
  <2> QED BY <1>5, <2>2
<1>8. r \in [S -> S] /\ \A i \in S : r[i] = At(i)
  BY <1>7
<1>9. \A i, j \in S : r[i] = r[j] => i = j
  <2> SUFFICES ASSUME NEW i \in S, NEW j \in S, At(i) = At(j) PROVE i = j
    BY <1>8
  <2>1. i - 1 = j - 1
    BY <1>7
  <2> QED BY <1>1, <2>1
<1>10. \A x \in S : \E i \in S : r[i] = x
  <2> SUFFICES ASSUME NEW x \in S PROVE \E i \in S : At(i) = x
    BY <1>8
  <2> DEFINE i == Cardinality(below[x]) + 1
  <2>1. i \in S /\ Cardinality(below[x]) \in Nat
    <3>1. below[x] \in SUBSET S /\ IsFiniteSet(below[x])
      BY <1>1, <1>2, FS_Subset
    <3> QED BY <1>1, <1>6, <3>1, FS_CardinalityType
  <2>2. At(i) \in S /\ Cardinality(below[At(i)]) = Cardinality(below[x])
    <3> HIDE DEF At
    <3> QED BY <1>7, <2>1
  <2> HIDE DEF i, At
  <2> QED BY <1>6, <2>1, <2>2
<1>11. b = [i \in S |-> seq[At(i)]]
  BY DEF ByAge
<1> HIDE DEF At, r, b
<1>12. b \in Seq(LotSet) /\ DOMAIN b = S /\ \A i \in S : b[i] = seq[r[i]]
  <2>1. b \in [1..N -> LotSet]
    BY <1>1, <1>7, <1>11
  <2>2. b \in Seq(LotSet)
    <3> HIDE DEF N
    <3> QED BY <1>1, <2>1, IsASeq
  <2> QED BY <1>8, <1>11, <2>2
<1>13. ASSUME NEW f \in [LotSet -> Int] PROVE Weight(f, b) = Weight(f, seq)
  <2> DEFINE h == [i \in S |-> f[b[i]]]
             g == [k \in S |-> f[seq[k]]]
  <2>1. h \in [S -> Int] /\ g \in [S -> Int] /\ \A i \in S : h[i] = g[r[i]]
    BY <1>1, <1>8, <1>12
  <2>2. Weight(f, b) = SumFunction(h) /\ Weight(f, seq) = SumFunction(g)
    BY <1>12 DEF Weight
  <2>5. Renamed(h, g, r, S)
    BY <2>1 DEF Renamed
  <2>4. Renames(r, S, S)
    BY <1>8, <1>9, <1>10 DEF Renames
  <2> HIDE DEF h, g, S
  <2>3. SumFunction(h) = SumFunction(g)
    BY <1>16, <2>1, <2>4, <2>5, SumRenamed
  <2> QED BY <2>2, <2>3
<1>14. \A j \in DOMAIN b : \E k \in S : b[j] = seq[k]
  BY <1>8, <1>12
<1> QED
  BY <1>12, <1>13, <1>14 DEF b

\* A part of the lots counts, and the others count nothing.
LEMMA WeightOfSome ==
  ASSUME NEW f \in [LotSet -> Int], NEW lots \in Seq(LotSet), NEW T \in SUBSET DOMAIN lots,
         NEW g, g = [k \in T |-> f[lots[k]]], \A k \in DOMAIN lots \ T : f[lots[k]] = 0
  PROVE  SumFunction(g) = Weight(f, lots)
<1> DEFINE S == DOMAIN lots
           h == [k \in S |-> f[lots[k]]]
<1>1. IsFiniteSet(S) /\ h \in [S -> Int] /\ T \in SUBSET S /\ \A k \in S \ T : h[k] = 0
  BY SequenceShape
<1>2. Restrict(h, T) = g
  BY DEF Restrict
<1> HIDE DEF h, S
<1>3. SumFunction(h) = SumFunction(Restrict(h, T))
  BY <1>1, SumInside
<1> QED
  BY <1>2, <1>3 DEF Weight, h, S

LEMMA SharesAre ==
  ASSUME NEW lots \in Seq(LotSet)
  PROVE  Shares(lots) = Weight(Sizes, lots) /\ Shares(lots) \in Nat
<1>1. \A k \in DOMAIN lots : lots[k] \in LotSet
  BY SequenceShape
<1>2. [k \in DOMAIN lots |-> lots[k].quantity] = [k \in DOMAIN lots |-> Sizes[lots[k]]]
  BY <1>1 DEF Sizes
<1>3. Weight(Sizes, lots) \in Nat
  BY Measures, WeightNatural
<1> QED
  BY <1>2, <1>3 DEF Shares, Total, Weight

LEMMA EligibleAre ==
  ASSUME NEW a, NEW s, a.position[s].lots \in Seq(LotSet), a.day \in Nat
  PROVE  /\ Eligible(a, s) = Weight(Ripe(a.day), a.position[s].lots)
         /\ Eligible(a, s) \in Nat /\ Eligible(a, s) <= Shares(a.position[s].lots)
<1> DEFINE lots == a.position[s].lots
           day == a.day
           T == {k \in DOMAIN lots : lots[k].from <= day}
           g == [k \in T |-> lots[k].quantity]
           f == Ripe(day)
           S == DOMAIN lots
           v == [k \in S |-> f[lots[k]]]
           w == [k \in S |-> Sizes[lots[k]]]
<1>11. day \in Int
  OBVIOUS
<1>12. Sizes \in [LotSet -> Nat] /\ f \in [LotSet -> Nat]
  <2> HIDE DEF day
  <2> QED BY <1>11, Measures
<1>1. /\ Sizes \in [LotSet -> Nat] /\ f \in [LotSet -> Nat] /\ f \in [LotSet -> Int] /\ Sizes \in [LotSet -> Int]
  <2> HIDE DEF f, day
  <2> QED BY <1>12, \A h \in [LotSet -> Nat] : h \in [LotSet -> Int]
<1>2. \A l \in LotSet : Sizes[l] = l.quantity /\ f[l] = (IF l.from <= day THEN l.quantity ELSE 0) /\ f[l] <= Sizes[l]
  <2>1. \A l \in LotSet : l.quantity \in Nat
    BY DEF LotSet
  <2> QED BY <2>1 DEF Sizes, Ripe
<1>3. lots \in Seq(LotSet) /\ IsFiniteSet(S) /\ \A k \in DOMAIN lots : lots[k] \in LotSet
  BY SequenceShape
<1>4. Eligible(a, s) = SumFunction(g)
  BY DEF Eligible, Total
<1>5. v \in [S -> Int] /\ w \in [S -> Int] /\ \A k \in S : v[k] <= w[k]
  BY <1>1, <1>2, <1>3
<1>6. Weight(f, lots) = SumFunction(v) /\ Weight(Sizes, lots) = SumFunction(w)
  BY DEF Weight
<1>7. g = [k \in T |-> f[lots[k]]] /\ T \in SUBSET DOMAIN lots /\ \A k \in DOMAIN lots \ T : f[lots[k]] = 0
  BY <1>2, <1>3
<1> HIDE DEF lots, day, T, g, f, S, v, w
<1>8. SumFunction(g) = Weight(f, lots)
  BY <1>1, <1>3, <1>7, WeightOfSome
<1>9. SumFunction(v) <= SumFunction(w)
  BY <1>3, <1>5, SumOfLarger
<1>10. Weight(f, lots) \in Nat /\ Shares(lots) = Weight(Sizes, lots)
  BY <1>1, <1>3, WeightNatural, SharesAre
<1> QED
  BY <1>4, <1>6, <1>8, <1>9, <1>10 DEF lots, f, day

\* The claims of the lots are what the lots weigh in claims.
LEMMA ClaimsAre ==
  ASSUME NEW lots \in Seq(LotSet), NEW i
  PROVE  /\ Total(LAMBDA k : lots[k].claims[i].gross, ClaimedBy(lots, i)) = Weight(GrossOf(i), lots)
         /\ Total(LAMBDA k : lots[k].claims[i].initial, ClaimedBy(lots, i)) = Weight(InitialOf(i), lots)
         /\ Weight(GrossOf(i), lots) \in Nat /\ Weight(InitialOf(i), lots) \in Nat
<1> DEFINE T == ClaimedBy(lots, i)
           p == [k \in T |-> lots[k].claims[i].gross]
           q == [k \in T |-> lots[k].claims[i].initial]
<1>1. /\ GrossOf(i) \in [LotSet -> Nat] /\ GrossOf(i) \in [LotSet -> Int]
      /\ InitialOf(i) \in [LotSet -> Nat] /\ InitialOf(i) \in [LotSet -> Int]
  BY Measures
<1>2. T \in SUBSET DOMAIN lots /\ \A k \in DOMAIN lots : lots[k] \in LotSet
  BY SequenceShape DEF ClaimedBy
<1>3. /\ p = [k \in T |-> GrossOf(i)[lots[k]]] /\ \A k \in DOMAIN lots \ T : GrossOf(i)[lots[k]] = 0
      /\ q = [k \in T |-> InitialOf(i)[lots[k]]] /\ \A k \in DOMAIN lots \ T : InitialOf(i)[lots[k]] = 0
  BY <1>2 DEF GrossOf, InitialOf, ClaimedBy
<1>4. /\ Total(LAMBDA k : lots[k].claims[i].gross, ClaimedBy(lots, i)) = SumFunction(p)
      /\ Total(LAMBDA k : lots[k].claims[i].initial, ClaimedBy(lots, i)) = SumFunction(q)
  BY DEF Total
<1> HIDE DEF p, q, T
<1>5. SumFunction(p) = Weight(GrossOf(i), lots)
  BY <1>1, <1>2, <1>3, WeightOfSome
<1>6. SumFunction(q) = Weight(InitialOf(i), lots)
  BY <1>1, <1>2, <1>3, WeightOfSome
<1>7. Weight(GrossOf(i), lots) \in Nat /\ Weight(InitialOf(i), lots) \in Nat
  BY <1>1, WeightNatural
<1> QED
  BY <1>4, <1>5, <1>6, <1>7

\* What the first j of a sequence weigh.
Upto(f, seq, j) == SumFunction(Restrict([k \in DOMAIN seq |-> f[seq[k]]], 1..j))

LEMMA UptoGrows ==
  ASSUME NEW L, NEW f \in [L -> Int], NEW seq \in Seq(L)
  PROVE  /\ Upto(f, seq, 0) = 0 /\ Upto(f, seq, Len(seq)) = Weight(f, seq)
         /\ \A j \in 1..Len(seq) : /\ Upto(f, seq, j - 1) \in Int
                                   /\ Upto(f, seq, j) = Upto(f, seq, j - 1) + f[seq[j]]
<1> DEFINE S == DOMAIN seq
           n == Len(seq)
           g == [k \in S |-> f[seq[k]]]
<1>1. n \in Nat /\ S = 1..n /\ IsFiniteSet(S) /\ g \in [S -> Int] /\ \A k \in S : f[seq[k]] \in Int
  BY SequenceShape
<1>2. 1..0 = {}
  OBVIOUS
<1>3. Upto(f, seq, 0) = 0
  BY <1>2, SumNone DEF Upto
<1>4. Upto(f, seq, n) = Weight(f, seq)
  <2>1. Restrict(g, 1..n) = g
    BY <1>1 DEF Restrict
  <2> QED BY <2>1 DEF Upto, Weight
<1>5. \A j \in 1..n : 1..(j - 1) \in SUBSET S /\ j \in S \ (1..(j - 1)) /\ 1..(j - 1) \cup {j} = 1..j /\ g[j] = f[seq[j]]
  BY <1>1
<1>6. \A j \in Int : Upto(f, seq, j) = SumFunction(Restrict(g, 1..j))
  BY DEF Upto
<1>9. IsFiniteSet(S) /\ g \in [S -> Int]
  BY <1>1
<1> HIDE DEF g, S
<1>7. Additive(g, S)
  BY <1>9, SumAdditive
<1>8. \A j \in 1..n : /\ SumFunction(Restrict(g, 1..(j - 1))) \in Int
                      /\ SumFunction(Restrict(g, 1..j)) = g[j] + SumFunction(Restrict(g, 1..(j - 1)))
  <2> SUFFICES ASSUME NEW j \in 1..n
               PROVE  /\ SumFunction(Restrict(g, 1..(j - 1))) \in Int
                      /\ SumFunction(Restrict(g, 1..j)) = g[j] + SumFunction(Restrict(g, 1..(j - 1)))
    OBVIOUS
  <2> DEFINE t == 1..(j - 1)
  <2>1. t \in SUBSET S /\ j \in S \ t /\ t \cup {j} = 1..j
    BY <1>5
  <2> HIDE DEF t
  <2>2. SumFunction(Restrict(g, t)) \in Int /\ SumFunction(Restrict(g, t \cup {j})) = g[j] + SumFunction(Restrict(g, t))
    BY <1>7, <2>1 DEF Additive
  <2> QED BY <2>1, <2>2 DEF t
<1>10. \A j \in 1..n : /\ Upto(f, seq, j - 1) \in Int /\ Upto(f, seq, j) = Upto(f, seq, j - 1) + f[seq[j]]
  <2> SUFFICES ASSUME NEW j \in 1..n
               PROVE  Upto(f, seq, j - 1) \in Int /\ Upto(f, seq, j) = Upto(f, seq, j - 1) + f[seq[j]]
    OBVIOUS
  <2>1. j \in Int /\ j - 1 \in Int
    OBVIOUS
  <2>2. /\ Upto(f, seq, j) = SumFunction(Restrict(g, 1..j))
        /\ Upto(f, seq, j - 1) = SumFunction(Restrict(g, 1..(j - 1)))
    BY <1>6, <2>1
  <2>3. g[j] = f[seq[j]] /\ g[j] \in Int
    BY <1>1, <1>5 DEF g
  <2> QED BY <1>8, <2>2, <2>3
<1> QED
  BY <1>3, <1>4, <1>10

-----------------------------------------------------------------------------
(* Accounts.                                                               *)

ActionSet ==
  [registered : BOOLEAN, ex : BOOLEAN, paid : BOOLEAN, recorded : Seq(LotSet), quantity : Nat, gross : Nat,
   initial : Nat, sold : [1..3 -> Nat], withheld : Nat, extra : Int]
PositionSet == [quantity : Nat, frozen : Nat, cost : Nat, lots : Seq(LotSet)]
ReservationSet ==
  [side : {"none", "buy", "sell"}, s : Securities \cup {NoReservation.s}, left : Nat, estimate : Nat, limit : Nat,
   cash : Nat, notional : Nat, paid : Nat]
AccountSet ==
  [cash : Nat, frozen : Nat, blocked : Nat, locks : [Days -> Nat], day : 0..Sessions, realized : Int,
   receivable : Nat, action : [DOMAIN Actions -> ActionSet], position : [Securities -> PositionSet],
   reserved : [Orders -> ReservationSet]]

SoldOf(x) == Total(LAMBDA b : x.sold[b], 1..3)

\* The right to an action is the same, whatever was sold with it.
SameRight(x, y) ==
  /\ x.registered = y.registered /\ x.ex = y.ex /\ x.paid = y.paid /\ x.recorded = y.recorded
  /\ x.quantity = y.quantity /\ x.gross = y.gross /\ x.initial = y.initial

\* A lot of s that carries claims to the recorded actions R of s only.
FineLot(l, s, day, R) ==
  /\ l \in LotSet /\ l.acquired <= day
  /\ \A i \in DOMAIN l.claims : l.claims[i].quantity = l.quantity /\ Actions[i].s = s /\ i \in R
FineLots(lots, s, day, R) == lots \in Seq(LotSet) /\ \A k \in DOMAIN lots : FineLot(lots[k], s, day, R)

LEMMA FineAppend ==
  ASSUME NEW lots, NEW s, NEW day, NEW R, FineLots(lots, s, day, R), NEW l, FineLot(l, s, day, R)
  PROVE  FineLots(Append(lots, l), s, day, R)
<1>1. lots \in Seq(LotSet) /\ l \in LotSet
  BY DEF FineLots, FineLot
<1>2. Append(lots, l) \in Seq(LotSet) /\ Len(Append(lots, l)) = Len(lots) + 1 /\ Len(lots) \in Nat
      /\ \A k \in 1..Len(lots) : Append(lots, l)[k] = lots[k]
      /\ Append(lots, l)[Len(lots) + 1] = l
  BY <1>1, AppendProperties, SequenceShape
<1>3. DOMAIN Append(lots, l) = 1..(Len(lots) + 1) /\ DOMAIN lots = 1..Len(lots)
  BY <1>1, <1>2, SequenceShape
<1>4. \A k \in DOMAIN Append(lots, l) : FineLot(Append(lots, l)[k], s, day, R)
  BY <1>2, <1>3 DEF FineLots
<1> QED
  BY <1>2, <1>4 DEF FineLots

LEMMA SoldInteger ==
  ASSUME NEW x \in ActionSet
  PROVE  SoldOf(x) \in Nat
<1> DEFINE S == 1..3
           g == [b \in S |-> x.sold[b]]
<1>3. IsFiniteSet(S)
  BY 1 \in Int, 3 \in Int, FS_Interval
<1>1. IsFiniteSet(S) /\ g \in [S -> Nat]
  BY <1>3 DEF ActionSet
<1> HIDE DEF S, g
<1>2. SumFunction(g) \in Nat
  BY <1>1, SumNatural
<1> QED
  BY <1>2 DEF SoldOf, Total, g, S

\* More of a dividend is sold.
MoreSold(x, b, g, w) == [x EXCEPT !.sold[b] = @ + g, !.withheld = @ + w]
LEMMA SoldMore ==
  ASSUME NEW x \in ActionSet, NEW b \in 1..3, NEW g \in Nat, NEW w \in Nat
  PROVE  LET y == MoreSold(x, b, g, w)
         IN  /\ y \in ActionSet /\ SameRight(y, x) /\ y.extra = x.extra
             /\ SoldOf(y) = SoldOf(x) + g /\ y.withheld = x.withheld + w
<1> DEFINE y == MoreSold(x, b, g, w)
           S == 1..3
           p == [c \in S |-> x.sold[c]]
           q == [c \in S |-> y.sold[c]]
<1>0. x.sold \in [1..3 -> Nat] /\ x.withheld \in Nat
  BY DEF ActionSet
<1>9. [x.sold EXCEPT ![b] = @ + g] \in [1..3 -> Nat] /\ x.withheld + w \in Nat
  BY <1>0
<1>10. y = [x EXCEPT !.sold = [x.sold EXCEPT ![b] = @ + g], !.withheld = x.withheld + w]
  BY DEF MoreSold, ActionSet
<1>1. y \in ActionSet /\ SameRight(y, x) /\ y.extra = x.extra /\ y.withheld = x.withheld + w
  <2> DEFINE z == [x.sold EXCEPT ![b] = @ + g]
             v == x.withheld + w
  <2> HIDE DEF z, v, y
  <2> QED BY <1>9, <1>10 DEF ActionSet, SameRight, z, v
<1>2. y.sold = [x.sold EXCEPT ![b] = @ + g] /\ x.sold \in [S -> Nat]
  BY DEF ActionSet, MoreSold
<1>11. IsFiniteSet(S)
  BY 1 \in Int, 3 \in Int, FS_Interval
<1>3. /\ IsFiniteSet(S) /\ p \in [S -> Int] /\ q \in [S -> Int] /\ b \in S
      /\ \A c \in S \ {b} : q[c] = p[c]
  BY <1>2, <1>11
<1>4. q[b] = p[b] + g /\ p[b] \in Int /\ q[b] \in Int
  BY <1>2
<1>5. SoldOf(x) = SumFunction(p) /\ SoldOf(y) = SumFunction(q)
  BY DEF SoldOf, Total
<1> HIDE DEF p, q, S, y
<1>6. SumFunction(q) - q[b] = SumFunction(p) - p[b]
  <2>1. ChangedAt(S, p, q, b)
    BY <1>3 DEF ChangedAt
  <2> QED BY <2>1, SumChanged
<1>7. SumFunction(q) \in Int /\ SumFunction(p) \in Int
  BY <1>3, SumInteger
<1>8. SoldOf(y) = SoldOf(x) + g
  <2> DEFINE u == q[b]
             v == p[b]
             U == SumFunction(q)
             V == SumFunction(p)
  <2>1. U - u = V - v /\ u = v + g /\ u \in Int /\ v \in Int /\ U \in Int /\ V \in Int
    BY <1>4, <1>6, <1>7
  <2> HIDE DEF u, v, U, V
  <2>2. U = V + g
    BY <2>1
  <2> QED BY <1>5, <2>2 DEF U, V
<1> QED
  BY <1>1, <1>8 DEF y

-----------------------------------------------------------------------------
(* Shares leave lot by lot.                                                *)

SellState(n, s, day, R) ==
  /\ n = [left |-> n.left, lots |-> n.lots, action |-> n.action]
  /\ n.left \in Nat /\ FineLots(n.lots, s, day, R) /\ n.action \in [DOMAIN Actions -> ActionSet]

\* What one lot gives.
TookShares(n, lot, day, m) ==
  LET t == n.left - m.left IN
  /\ m.left \in 0..n.left
  /\ t <= Ripe(day)[lot] /\ (m.left > 0 => t = Ripe(day)[lot])
  /\ Weight(Sizes, m.lots) = Weight(Sizes, n.lots) + Sizes[lot] - t
  /\ Weight(Ripe(day), m.lots) = Weight(Ripe(day), n.lots) + Ripe(day)[lot] - t
TookRights(n, m, R) ==
  \A i \in DOMAIN Actions :
    /\ SameRight(m.action[i], n.action[i]) /\ m.action[i].extra = n.action[i].extra
    /\ i \notin R => m.action[i] = n.action[i]
TookClaims(n, lot, m) ==
  \A i \in DOMAIN Actions :
    /\ Weight(GrossOf(i), m.lots) + SoldOf(m.action[i])
         = Weight(GrossOf(i), n.lots) + GrossOf(i)[lot] + SoldOf(n.action[i])
    /\ Weight(InitialOf(i), m.lots) + m.action[i].withheld
         = Weight(InitialOf(i), n.lots) + InitialOf(i)[lot] + n.action[i].withheld

\* A part of the shares of a lot takes a part of its claims.
LEMMA ClaimParts ==
  ASSUME NEW s, NEW day, NEW R, NEW lot, FineLot(lot, s, day, R), NEW taken \in 0..lot.quantity,
         NEW i \in DOMAIN lot.claims
  PROVE  /\ Claimed(lot, i, taken).gross \in 0..lot.claims[i].gross
         /\ Claimed(lot, i, taken).initial \in 0..lot.claims[i].initial
         /\ taken = lot.quantity => /\ Claimed(lot, i, taken).gross = lot.claims[i].gross
                                    /\ Claimed(lot, i, taken).initial = lot.claims[i].initial
         /\ Minus(lot.claims[i], Claimed(lot, i, taken)) \in ClaimSet
         /\ Minus(lot.claims[i], Claimed(lot, i, taken)).quantity = lot.quantity - taken
         /\ Minus(lot.claims[i], Claimed(lot, i, taken)).gross = lot.claims[i].gross - Claimed(lot, i, taken).gross
         /\ Minus(lot.claims[i], Claimed(lot, i, taken)).initial = lot.claims[i].initial - Claimed(lot, i, taken).initial
<1> DEFINE c == lot.claims[i]
           g == ReleasedCost(c.gross, c.quantity, taken)
           j == ReleasedCost(c.initial, c.quantity, taken)
<1>1. lot \in LotSet /\ c.quantity = lot.quantity /\ lot.quantity \in Nat \ {0}
  BY DEF FineLot, LotSet
<1>2. c.gross \in Nat /\ c.initial \in Nat /\ c.quantity \in Nat
  BY <1>1, ClaimsShape
<1> HIDE DEF c
<1>3. /\ g \in 0..c.gross /\ j \in 0..c.initial
      /\ taken = lot.quantity => g = c.gross /\ j = c.initial
  <2>1. taken \in 0..c.quantity /\ c.quantity # 0
    BY <1>1
  <2> QED BY <1>1, <1>2, <2>1, ReleasedPart
<1>4. Claimed(lot, i, taken) = [quantity |-> taken, gross |-> g, initial |-> j]
  BY DEF Claimed, c
<1> HIDE DEF g, j
<1>5. Minus(c, Claimed(lot, i, taken)) = [quantity |-> c.quantity - taken, gross |-> c.gross - g, initial |-> c.initial - j]
  BY <1>4 DEF Minus
<1>6. Minus(c, Claimed(lot, i, taken)) \in ClaimSet
  <2>1. c.quantity - taken \in Nat /\ c.gross - g \in Nat /\ c.initial - j \in Nat
    BY <1>1, <1>2, <1>3
  <2> QED BY <1>5, <2>1 DEF ClaimSet
<1> QED
  BY <1>1, <1>3, <1>4, <1>5, <1>6 DEF c

\* What remains of a lot.
Remainder(lot, taken) ==
  [lot EXCEPT !.quantity = @ - taken, !.claims = [i \in DOMAIN @ |-> Minus(@[i], Claimed(lot, i, taken))]]
RestOf(l, lot, taken, s, day, R) ==
  /\ FineLot(l, s, day, R)
  /\ Sizes[l] = Sizes[lot] - taken
  /\ lot.from <= day => Ripe(day)[l] = Ripe(day)[lot] - taken
  /\ \A i : i \notin DOMAIN lot.claims => GrossOf(i)[l] = 0 /\ InitialOf(i)[l] = 0
  /\ \A i \in DOMAIN lot.claims :
       /\ GrossOf(i)[l] = GrossOf(i)[lot] - Claimed(lot, i, taken).gross
       /\ InitialOf(i)[l] = InitialOf(i)[lot] - Claimed(lot, i, taken).initial
LEMMA LotRest ==
  ASSUME NEW s, NEW day \in Nat, NEW R, NEW lot, FineLot(lot, s, day, R), NEW taken \in 0..lot.quantity,
         taken # lot.quantity
  PROVE  RestOf(Remainder(lot, taken), lot, taken, s, day, R)
<1> DEFINE l == Remainder(lot, taken)
           D == DOMAIN lot.claims
           f == [i \in D |-> Minus(lot.claims[i], Claimed(lot, i, taken))]
<1>1. /\ lot \in LotSet /\ lot.acquired <= day /\ lot.acquired \in Nat /\ lot.from \in Nat
      /\ lot.quantity \in Nat \ {0} /\ D \in SUBSET DOMAIN Actions
      /\ \A i \in D : Actions[i].s = s /\ i \in R
  BY ClaimsShape DEF FineLot, LotSet
<1>2. /\ f \in [D -> ClaimSet]
      /\ \A i \in D : /\ f[i].quantity = lot.quantity - taken
                      /\ f[i].gross = lot.claims[i].gross - Claimed(lot, i, taken).gross
                      /\ f[i].initial = lot.claims[i].initial - Claimed(lot, i, taken).initial
  BY ClaimParts
<1>3. l = [acquired |-> lot.acquired, from |-> lot.from, quantity |-> lot.quantity - taken, claims |-> f]
  <2> DEFINE q == lot.quantity - taken
  <2>1. l = [lot EXCEPT !.quantity = q, !.claims = f]
    BY DEF Remainder
  <2>2. lot \in [acquired : Nat, from : Nat, quantity : Nat \ {0}, claims : ClaimMaps]
    BY <1>1 DEF LotSet
  <2> HIDE DEF f, q, l
  <2>3. l = [acquired |-> lot.acquired, from |-> lot.from, quantity |-> q, claims |-> f]
    BY <2>1, <2>2
  <2> QED BY <2>3 DEF q
<1> HIDE DEF f, l
<1>4. l \in LotSet /\ lot.quantity - taken \in Nat \ {0} /\ DOMAIN f = D
  <2>1. f \in ClaimMaps /\ DOMAIN f = D
    BY <1>1, <1>2, ClaimsMade
  <2>2. lot.quantity - taken \in Nat \ {0}
    BY <1>1
  <2> QED BY <1>1, <1>3, <2>1, <2>2 DEF LotSet
<1>5. FineLot(l, s, day, R)
  BY <1>1, <1>2, <1>3, <1>4 DEF FineLot
<1>6. Sizes[l] = Sizes[lot] - taken /\ (lot.from <= day => Ripe(day)[l] = Ripe(day)[lot] - taken)
  BY <1>1, <1>3, <1>4 DEF Sizes, Ripe
<1>7. \A i : i \notin D => GrossOf(i)[l] = 0 /\ InitialOf(i)[l] = 0
  BY <1>3, <1>4 DEF GrossOf, InitialOf
<1>8. \A i \in D : /\ GrossOf(i)[l] = GrossOf(i)[lot] - Claimed(lot, i, taken).gross
                   /\ InitialOf(i)[l] = InitialOf(i)[lot] - Claimed(lot, i, taken).initial
  BY <1>1, <1>2, <1>3, <1>4 DEF GrossOf, InitialOf
<1> QED
  BY <1>5, <1>6, <1>7, <1>8 DEF l, RestOf

\* What an action has of a lot whose shares leave.
Counted(n, lot, day, taken, i) ==
  IF i \in DOMAIN lot.claims
  THEN MoreSold(n.action[i], Band(lot.acquired, day), Claimed(lot, i, taken).gross, Claimed(lot, i, taken).initial)
  ELSE n.action[i]
LEMMA CountedOne ==
  ASSUME NEW s, NEW day \in Nat, NEW R, NEW n, SellState(n, s, day, R), NEW lot, FineLot(lot, s, day, R),
         NEW taken \in 0..lot.quantity, NEW i \in DOMAIN Actions
  PROVE  LET y == Counted(n, lot, day, taken, i)
             x == n.action[i]
         IN  /\ y \in ActionSet /\ SameRight(y, x) /\ y.extra = x.extra
             /\ i \notin R => y = x
             /\ SoldOf(y) = SoldOf(x) + IF i \in DOMAIN lot.claims THEN Claimed(lot, i, taken).gross ELSE 0
             /\ y.withheld = x.withheld + IF i \in DOMAIN lot.claims THEN Claimed(lot, i, taken).initial ELSE 0
             /\ SoldOf(x) \in Nat /\ x.withheld \in Nat
<1> DEFINE x == n.action[i]
           b == Band(lot.acquired, day)
           g == Claimed(lot, i, taken).gross
           w == Claimed(lot, i, taken).initial
<1>1. x \in ActionSet /\ x.withheld \in Nat
  BY DEF SellState, ActionSet
<1>2. SoldOf(x) \in Nat
  BY <1>1, SoldInteger
<1>3. b \in 1..3
  BY DEF Band
<1>4. CASE i \in DOMAIN lot.claims
  <2>1. g \in Nat /\ w \in Nat
    <3>1. lot \in LotSet /\ lot.claims[i].gross \in Nat /\ lot.claims[i].initial \in Nat
      BY <1>4, ClaimsShape DEF FineLot
    <3>2. g \in 0..lot.claims[i].gross /\ w \in 0..lot.claims[i].initial
      BY <1>4, ClaimParts
    <3> QED BY <3>1, <3>2
  <2>2. i \in R
    BY <1>4 DEF FineLot
  <2>3. Counted(n, lot, day, taken, i) = MoreSold(x, b, g, w)
    BY <1>4 DEF Counted
  <2> HIDE DEF x, b, g, w
  <2>4. LET y == MoreSold(x, b, g, w)
        IN  /\ y \in ActionSet /\ SameRight(y, x) /\ y.extra = x.extra
            /\ SoldOf(y) = SoldOf(x) + g /\ y.withheld = x.withheld + w
    BY <1>1, <1>3, <2>1, SoldMore
  <2> QED BY <1>1, <1>2, <1>4, <2>2, <2>3, <2>4 DEF x, g, w
<1>5. CASE i \notin DOMAIN lot.claims
  BY <1>1, <1>2, <1>5 DEF Counted, SameRight
<1> QED
  BY <1>4, <1>5

LEMMA TakeOne ==
  ASSUME NEW s, NEW day \in Nat, NEW R, NEW n, SellState(n, s, day, R), NEW lot, FineLot(lot, s, day, R)
  PROVE  /\ SellState(TakeLot(n, lot, day), s, day, R)
         /\ TookShares(n, lot, day, TakeLot(n, lot, day))
         /\ TookRights(n, TakeLot(n, lot, day), R)
         /\ TookClaims(n, lot, TakeLot(n, lot, day))
<1> DEFINE m == TakeLot(n, lot, day)
           taken == IF lot.from <= day THEN Lesser(lot.quantity, n.left) ELSE 0
           act == [i \in DOMAIN Actions |-> Counted(n, lot, day, taken, i)]
           rest == Remainder(lot, taken)
<1>1. /\ n = [left |-> n.left, lots |-> n.lots, action |-> n.action] /\ n.left \in Nat
      /\ n.action \in [DOMAIN Actions -> ActionSet] /\ n.lots \in Seq(LotSet) /\ lot \in LotSet
      /\ lot.quantity \in Nat \ {0} /\ lot.from \in Nat /\ FineLots(n.lots, s, day, R)
  BY DEF SellState, FineLots, FineLot, LotSet
<1>2. taken \in 0..lot.quantity /\ taken \in 0..n.left
  BY <1>1 DEF Lesser
<1>3. /\ Sizes[lot] = lot.quantity /\ Ripe(day)[lot] = (IF lot.from <= day THEN lot.quantity ELSE 0)
      /\ taken <= Ripe(day)[lot] /\ (n.left - taken > 0 => taken = Ripe(day)[lot])
  BY <1>1 DEF Lesser, Sizes, Ripe
<1>4. /\ Sizes \in [LotSet -> Int] /\ Ripe(day) \in [LotSet -> Int]
      /\ \A i : GrossOf(i) \in [LotSet -> Int] /\ InitialOf(i) \in [LotSet -> Int]
  <2>1. \A f \in [LotSet -> Nat] : f \in [LotSet -> Int]
    OBVIOUS
  <2>2. day \in Int
    OBVIOUS
  <2> QED BY <2>1, <2>2, Measures
<1>5. /\ Weight(Sizes, n.lots) \in Int /\ Weight(Ripe(day), n.lots) \in Int
      /\ \A i : Weight(GrossOf(i), n.lots) \in Int /\ Weight(InitialOf(i), n.lots) \in Int
  <2>1. \A f \in [LotSet -> Int] : Weight(f, n.lots) \in Int
    BY <1>1, WeightInteger
  <2> QED BY <1>4, <2>1
<1>6. \A l \in LotSet : \A f \in [LotSet -> Int] : Weight(f, Append(n.lots, l)) = Weight(f, n.lots) + f[l]
  BY <1>1, WeightAppend
<1>7. \A i \in DOMAIN Actions :
        /\ Counted(n, lot, day, taken, i) \in ActionSet
        /\ SameRight(Counted(n, lot, day, taken, i), n.action[i])
        /\ Counted(n, lot, day, taken, i).extra = n.action[i].extra
        /\ i \notin R => Counted(n, lot, day, taken, i) = n.action[i]
        /\ SoldOf(Counted(n, lot, day, taken, i))
             = SoldOf(n.action[i]) + IF i \in DOMAIN lot.claims THEN Claimed(lot, i, taken).gross ELSE 0
        /\ Counted(n, lot, day, taken, i).withheld
             = n.action[i].withheld + IF i \in DOMAIN lot.claims THEN Claimed(lot, i, taken).initial ELSE 0
        /\ SoldOf(n.action[i]) \in Nat /\ n.action[i].withheld \in Nat
  <2> HIDE DEF taken
  <2> QED BY <1>2, CountedOne
<1>8. taken # 0 => m = [left |-> n.left - taken,
                        lots |-> IF lot.quantity - taken = 0 THEN n.lots ELSE Append(n.lots, rest),
                        action |-> act]
  <2> SUFFICES ASSUME taken # 0 PROVE m = [left |-> n.left - taken,
                        lots |-> IF lot.quantity - taken = 0 THEN n.lots ELSE Append(n.lots, rest),
                        action |-> act]
    OBVIOUS
  <2> DEFINE gone == [i \in DOMAIN lot.claims |-> Claimed(lot, i, taken)]
             left == [lot EXCEPT !.quantity = @ - taken, !.claims = [i \in DOMAIN @ |-> Minus(@[i], gone[i])]]
             new == [i \in DOMAIN n.action |->
                       IF i \notin DOMAIN gone THEN n.action[i]
                       ELSE [n.action[i] EXCEPT !.sold[Band(lot.acquired, day)] = @ + gone[i].gross,
                                                !.withheld = @ + gone[i].initial]]
  <2>1. m = [left |-> n.left - taken, lots |-> IF left.quantity = 0 THEN n.lots ELSE Append(n.lots, left), action |-> new]
    BY DEF TakeLot
  <2>2. left = rest
    BY DEF Remainder
  <2>3. left.quantity = lot.quantity - taken
    BY <1>1 DEF LotSet
  <2>4. new = act
    <3>1. DOMAIN n.action = DOMAIN Actions
      BY <1>1
    <3> QED BY <3>1 DEF Counted, MoreSold
  <2> HIDE DEF m, left, new, act, rest, gone, taken
  <2> QED BY <2>1, <2>2, <2>3, <2>4
<1>9. taken = 0 => m = [n EXCEPT !.lots = Append(n.lots, lot)]
  BY DEF TakeLot
<1> HIDE DEF m, taken, act, rest
<1>10. CASE taken = 0
  <2>1. m = [left |-> n.left, lots |-> Append(n.lots, lot), action |-> n.action]
    BY <1>1, <1>9, <1>10
  <2>2. FineLots(Append(n.lots, lot), s, day, R)
    BY <1>1, FineAppend
  <2>3. SellState(m, s, day, R)
    BY <1>1, <2>1, <2>2 DEF SellState
  <2>4. /\ Weight(Sizes, m.lots) = Weight(Sizes, n.lots) + Sizes[lot]
        /\ Weight(Ripe(day), m.lots) = Weight(Ripe(day), n.lots) + Ripe(day)[lot]
        /\ \A i : /\ Weight(GrossOf(i), m.lots) = Weight(GrossOf(i), n.lots) + GrossOf(i)[lot]
                  /\ Weight(InitialOf(i), m.lots) = Weight(InitialOf(i), n.lots) + InitialOf(i)[lot]
    BY <1>1, <1>4, <1>6, <2>1
  <2>5. m.left = n.left /\ n.left - m.left = 0 /\ \A i \in DOMAIN Actions : m.action[i] = n.action[i]
    BY <1>1, <2>1
  <2>6. Sizes[lot] \in Int /\ Ripe(day)[lot] \in Int
    BY <1>1, <1>4
  <2>7. TookShares(n, lot, day, m)
    BY <1>1, <1>3, <1>5, <1>10, <2>4, <2>5, <2>6 DEF TookShares
  <2>8. TookRights(n, m, R)
    BY <2>5 DEF TookRights, SameRight
  <2>9. TookClaims(n, lot, m)
    BY <2>4, <2>5 DEF TookClaims
  <2> QED BY <2>3, <2>7, <2>8, <2>9 DEF m
<1>11. CASE taken # 0 /\ taken = lot.quantity
  <2>1. m = [left |-> n.left - taken, lots |-> n.lots, action |-> act]
    BY <1>1, <1>2, <1>8, <1>11
  <2>2. act \in [DOMAIN Actions -> ActionSet] /\ \A i \in DOMAIN Actions : act[i] = Counted(n, lot, day, taken, i)
    BY <1>7 DEF act
  <2>3. SellState(m, s, day, R)
    BY <1>1, <1>2, <2>1, <2>2 DEF SellState
  <2>4. \A i \in DOMAIN Actions :
          /\ GrossOf(i)[lot] = IF i \in DOMAIN lot.claims THEN Claimed(lot, i, taken).gross ELSE 0
          /\ InitialOf(i)[lot] = IF i \in DOMAIN lot.claims THEN Claimed(lot, i, taken).initial ELSE 0
    BY <1>1, <1>2, <1>11, ClaimParts DEF GrossOf, InitialOf
  <2>5. n.left - m.left = taken /\ m.left \in 0..n.left /\ m.lots = n.lots /\ m.action = act
    BY <1>1, <1>2, <2>1
  <2>6. Sizes[lot] - taken = 0 /\ Ripe(day)[lot] = taken
    BY <1>1, <1>2, <1>3, <1>11
  <2>7. \A i \in DOMAIN Actions :
          /\ SoldOf(act[i]) = SoldOf(n.action[i]) + GrossOf(i)[lot]
          /\ act[i].withheld = n.action[i].withheld + InitialOf(i)[lot]
          /\ GrossOf(i)[lot] \in Int /\ InitialOf(i)[lot] \in Int
    BY <1>1, <1>4, <1>7, <2>2, <2>4
  <2>8. \A i \in DOMAIN Actions :
          /\ Weight(GrossOf(i), n.lots) + SoldOf(act[i])
               = Weight(GrossOf(i), n.lots) + GrossOf(i)[lot] + SoldOf(n.action[i])
          /\ Weight(InitialOf(i), n.lots) + act[i].withheld
               = Weight(InitialOf(i), n.lots) + InitialOf(i)[lot] + n.action[i].withheld
    BY <1>5, <1>7, <2>7
  <2>9. TookShares(n, lot, day, m)
    <3>1. Sizes[lot] \in Int /\ Ripe(day)[lot] \in Int /\ taken \in Int
      BY <1>1, <1>2, <1>4
    <3>2. Weight(Sizes, n.lots) = Weight(Sizes, n.lots) + Sizes[lot] - taken
      BY <1>5, <2>6, <3>1
    <3>3. Weight(Ripe(day), n.lots) = Weight(Ripe(day), n.lots) + Ripe(day)[lot] - taken
      BY <1>5, <2>6, <3>1
    <3> QED BY <2>5, <2>6, <3>1, <3>2, <3>3 DEF TookShares
  <2>10. TookRights(n, m, R)
    BY <1>7, <2>2, <2>5 DEF TookRights
  <2>11. TookClaims(n, lot, m)
    BY <2>5, <2>8 DEF TookClaims
  <2> QED BY <2>3, <2>9, <2>10, <2>11 DEF m
<1>12. CASE taken # 0 /\ taken # lot.quantity
  <2>1. m = [left |-> n.left - taken, lots |-> Append(n.lots, rest), action |-> act]
    BY <1>1, <1>2, <1>8, <1>12
  <2>2. act \in [DOMAIN Actions -> ActionSet] /\ \A i \in DOMAIN Actions : act[i] = Counted(n, lot, day, taken, i)
    BY <1>7 DEF act
  <2>3. lot.from <= day
    BY <1>12 DEF taken
  <2>4. /\ FineLot(rest, s, day, R)
        /\ Sizes[rest] = Sizes[lot] - taken
        /\ Ripe(day)[rest] = Ripe(day)[lot] - taken
        /\ \A i : i \notin DOMAIN lot.claims => GrossOf(i)[rest] = 0 /\ InitialOf(i)[rest] = 0
        /\ \A i \in DOMAIN lot.claims :
             /\ GrossOf(i)[rest] = GrossOf(i)[lot] - Claimed(lot, i, taken).gross
             /\ InitialOf(i)[rest] = InitialOf(i)[lot] - Claimed(lot, i, taken).initial
    <3>1. RestOf(Remainder(lot, taken), lot, taken, s, day, R)
      BY <1>2, <1>12, LotRest
    <3> QED BY <2>3, <3>1 DEF rest, RestOf
  <2>5. FineLots(Append(n.lots, rest), s, day, R) /\ rest \in LotSet
    BY <1>1, <2>4, FineAppend DEF FineLot
  <2>6. SellState(m, s, day, R)
    BY <1>1, <1>2, <2>1, <2>2, <2>5 DEF SellState
  <2>7. n.left - m.left = taken /\ m.left \in 0..n.left /\ m.lots = Append(n.lots, rest) /\ m.action = act
    BY <1>1, <1>2, <2>1
  <2>8. /\ Weight(Sizes, m.lots) = Weight(Sizes, n.lots) + Sizes[rest]
        /\ Weight(Ripe(day), m.lots) = Weight(Ripe(day), n.lots) + Ripe(day)[rest]
        /\ \A i : /\ Weight(GrossOf(i), m.lots) = Weight(GrossOf(i), n.lots) + GrossOf(i)[rest]
                  /\ Weight(InitialOf(i), m.lots) = Weight(InitialOf(i), n.lots) + InitialOf(i)[rest]
    BY <1>1, <1>4, <1>6, <2>5, <2>7
  <2>9. \A i \in DOMAIN Actions :
          /\ GrossOf(i)[lot] \in Int /\ InitialOf(i)[lot] \in Int
          /\ GrossOf(i)[rest] \in Int /\ InitialOf(i)[rest] \in Int
          /\ SoldOf(act[i]) \in Int /\ act[i].withheld \in Int
          /\ SoldOf(act[i]) + GrossOf(i)[rest] = SoldOf(n.action[i]) + GrossOf(i)[lot]
          /\ act[i].withheld + InitialOf(i)[rest] = n.action[i].withheld + InitialOf(i)[lot]
    <3> SUFFICES ASSUME NEW i \in DOMAIN Actions
                 PROVE  /\ GrossOf(i)[lot] \in Int /\ InitialOf(i)[lot] \in Int
                        /\ GrossOf(i)[rest] \in Int /\ InitialOf(i)[rest] \in Int
                        /\ SoldOf(act[i]) \in Int /\ act[i].withheld \in Int
                        /\ SoldOf(act[i]) + GrossOf(i)[rest] = SoldOf(n.action[i]) + GrossOf(i)[lot]
                        /\ act[i].withheld + InitialOf(i)[rest] = n.action[i].withheld + InitialOf(i)[lot]
      OBVIOUS
    <3>1. GrossOf(i)[lot] \in Int /\ InitialOf(i)[lot] \in Int /\ GrossOf(i)[rest] \in Int /\ InitialOf(i)[rest] \in Int
      BY <1>1, <1>4, <2>5
    <3>2. SoldOf(n.action[i]) \in Int /\ n.action[i].withheld \in Int
      BY <1>7
    <3>3. CASE i \in DOMAIN lot.claims
      <4>1. Claimed(lot, i, taken).gross \in Int /\ Claimed(lot, i, taken).initial \in Int
        BY <1>2, <3>3, ClaimParts
      <4>2. /\ SoldOf(act[i]) = SoldOf(n.action[i]) + Claimed(lot, i, taken).gross
            /\ act[i].withheld = n.action[i].withheld + Claimed(lot, i, taken).initial
        BY <1>7, <2>2, <3>3
      <4> QED BY <2>4, <3>1, <3>2, <3>3, <4>1, <4>2
    <3>4. CASE i \notin DOMAIN lot.claims
      <4>1. SoldOf(act[i]) = SoldOf(n.action[i]) /\ act[i].withheld = n.action[i].withheld
        BY <1>7, <2>2, <3>2, <3>4
      <4>2. GrossOf(i)[lot] = 0 /\ InitialOf(i)[lot] = 0
        BY <1>1, <3>4 DEF GrossOf, InitialOf
      <4> QED BY <2>4, <3>1, <3>2, <3>4, <4>1, <4>2
    <3> QED BY <3>3, <3>4
  <2>10. \A i \in DOMAIN Actions :
           /\ Weight(GrossOf(i), m.lots) + SoldOf(act[i])
                = Weight(GrossOf(i), n.lots) + GrossOf(i)[lot] + SoldOf(n.action[i])
           /\ Weight(InitialOf(i), m.lots) + act[i].withheld
                = Weight(InitialOf(i), n.lots) + InitialOf(i)[lot] + n.action[i].withheld
    <3> SUFFICES ASSUME NEW i \in DOMAIN Actions
                 PROVE  /\ Weight(GrossOf(i), m.lots) + SoldOf(act[i])
                             = Weight(GrossOf(i), n.lots) + GrossOf(i)[lot] + SoldOf(n.action[i])
                        /\ Weight(InitialOf(i), m.lots) + act[i].withheld
                             = Weight(InitialOf(i), n.lots) + InitialOf(i)[lot] + n.action[i].withheld
      OBVIOUS
    <3>1. /\ Weight(GrossOf(i), m.lots) = Weight(GrossOf(i), n.lots) + GrossOf(i)[rest]
          /\ Weight(InitialOf(i), m.lots) = Weight(InitialOf(i), n.lots) + InitialOf(i)[rest]
          /\ Weight(GrossOf(i), n.lots) \in Int /\ Weight(InitialOf(i), n.lots) \in Int
          /\ SoldOf(n.action[i]) \in Int /\ n.action[i].withheld \in Int
      BY <1>5, <1>7, <2>8
    <3> DEFINE w0 == Weight(GrossOf(i), n.lots)
               w1 == Weight(GrossOf(i), m.lots)
               v0 == Weight(InitialOf(i), n.lots)
               v1 == Weight(InitialOf(i), m.lots)
               g0 == GrossOf(i)[lot]
               g1 == GrossOf(i)[rest]
               i0 == InitialOf(i)[lot]
               i1 == InitialOf(i)[rest]
               s0 == SoldOf(n.action[i])
               s1 == SoldOf(act[i])
               h0 == n.action[i].withheld
               h1 == act[i].withheld
    <3>2. /\ w1 = w0 + g1 /\ s1 + g1 = s0 + g0 /\ v1 = v0 + i1 /\ h1 + i1 = h0 + i0
          /\ w0 \in Int /\ v0 \in Int /\ g0 \in Int /\ g1 \in Int /\ i0 \in Int /\ i1 \in Int
          /\ s0 \in Int /\ s1 \in Int /\ h0 \in Int /\ h1 \in Int
      BY <2>9, <3>1
    <3> HIDE DEF w0, w1, v0, v1, g0, g1, i0, i1, s0, s1, h0, h1
    <3>3. w1 + s1 = w0 + g0 + s0 /\ v1 + h1 = v0 + i0 + h0
      BY <3>2
    <3> QED BY <3>3 DEF w0, w1, v0, v1, g0, i0, s0, s1, h0, h1
  <2>11. /\ Weight(Sizes, m.lots) = Weight(Sizes, n.lots) + Sizes[lot] - taken
         /\ Weight(Ripe(day), m.lots) = Weight(Ripe(day), n.lots) + Ripe(day)[lot] - taken
    BY <1>1, <1>2, <1>3, <1>5, <2>4, <2>8
  <2>12. TookShares(n, lot, day, m)
    <3>1. m.left = n.left - taken
      BY <1>1, <2>1
    <3> QED BY <1>3, <2>7, <2>11, <3>1 DEF TookShares
  <2>13. TookRights(n, m, R)
    BY <1>7, <2>2, <2>7 DEF TookRights
  <2>14. TookClaims(n, lot, m)
    BY <2>7, <2>10 DEF TookClaims
  <2> QED BY <2>6, <2>12, <2>13, <2>14 DEF m
<1> QED
  BY <1>10, <1>11, <1>12 DEF m

\* After the first j lots.
FirstShares(m, j, lots, q, day) ==
  /\ m.left \in 0..q
  /\ m.left > 0 => q - m.left = Upto(Ripe(day), lots, j)
  /\ Weight(Sizes, m.lots) = Upto(Sizes, lots, j) - (q - m.left)
  /\ Weight(Ripe(day), m.lots) = Upto(Ripe(day), lots, j) - (q - m.left)
FirstRights(m, action, R) ==
  \A i \in DOMAIN Actions :
    /\ SameRight(m.action[i], action[i]) /\ m.action[i].extra = action[i].extra
    /\ i \notin R => m.action[i] = action[i]
FirstClaims(m, j, lots, action) ==
  \A i \in DOMAIN Actions :
    /\ Weight(GrossOf(i), m.lots) + SoldOf(m.action[i]) = Upto(GrossOf(i), lots, j) + SoldOf(action[i])
    /\ Weight(InitialOf(i), m.lots) + m.action[i].withheld = Upto(InitialOf(i), lots, j) + action[i].withheld
First(m, j, lots, q, action, s, day, R) ==
  SellState(m, s, day, R) /\ FirstShares(m, j, lots, q, day) /\ FirstRights(m, action, R) /\ FirstClaims(m, j, lots, action)

LEMMA LotMeasures ==
  ASSUME NEW day \in Nat
  PROVE  /\ Sizes \in [LotSet -> Int] /\ Ripe(day) \in [LotSet -> Int]
         /\ \A i : GrossOf(i) \in [LotSet -> Int] /\ InitialOf(i) \in [LotSet -> Int]
<1>1. \A f \in [LotSet -> Nat] : f \in [LotSet -> Int]
  OBVIOUS
<1>2. day \in Int
  OBVIOUS
<1> QED
  BY <1>1, <1>2, Measures

LEMMA FirstMore ==
  ASSUME NEW s, NEW day \in Nat, NEW R, NEW lots, FineLots(lots, s, day, R), NEW q \in Nat,
         NEW action \in [DOMAIN Actions -> ActionSet], NEW j \in 1..Len(lots),
         NEW n, First(n, j - 1, lots, q, action, s, day, R)
  PROVE  First(TakeLot(n, lots[j], day), j, lots, q, action, s, day, R)
<1> DEFINE m == TakeLot(n, lots[j], day)
           l == lots[j]
<1>1. lots \in Seq(LotSet) /\ l \in LotSet /\ FineLot(l, s, day, R)
  <2>1. lots \in Seq(LotSet) /\ \A k \in DOMAIN lots : FineLot(lots[k], s, day, R)
    BY DEF FineLots
  <2>2. j \in DOMAIN lots
    BY <2>1, SequenceShape
  <2> QED BY <2>1, <2>2 DEF FineLot
<1>2. SellState(n, s, day, R) /\ FirstShares(n, j - 1, lots, q, day) /\ FirstRights(n, action, R) /\ FirstClaims(n, j - 1, lots, action)
  BY DEF First
<1>3. SellState(m, s, day, R) /\ TookShares(n, l, day, m) /\ TookRights(n, m, R) /\ TookClaims(n, l, m)
  BY <1>1, <1>2, TakeOne
<1>4. \A f \in [LotSet -> Int] : /\ Upto(f, lots, j - 1) \in Int /\ f[l] \in Int
                                 /\ Upto(f, lots, j) = Upto(f, lots, j - 1) + f[l]
  BY <1>1, UptoGrows
<1>5. /\ Sizes \in [LotSet -> Int] /\ Ripe(day) \in [LotSet -> Int]
      /\ \A i : GrossOf(i) \in [LotSet -> Int] /\ InitialOf(i) \in [LotSet -> Int]
  BY LotMeasures
<1>6. n.left \in Nat /\ m.left \in Nat /\ n.lots \in Seq(LotSet) /\ n.action \in [DOMAIN Actions -> ActionSet]
  BY <1>2, <1>3 DEF SellState, FineLots
<1> HIDE DEF m, l
<1>7. FirstShares(m, j, lots, q, day)
  <2> DEFINE wn == Weight(Sizes, n.lots)
             wm == Weight(Sizes, m.lots)
             rn == Weight(Ripe(day), n.lots)
             rm == Weight(Ripe(day), m.lots)
             ps == Upto(Sizes, lots, j - 1)
             pr == Upto(Ripe(day), lots, j - 1)
             qs == Upto(Sizes, lots, j)
             qr == Upto(Ripe(day), lots, j)
             ls == Sizes[l]
             lr == Ripe(day)[l]
             x == n.left
             y == m.left
  <2>1. x \in 0..q /\ (x > 0 => q - x = pr) /\ wn = ps - (q - x) /\ rn = pr - (q - x)
    BY <1>2 DEF FirstShares
  <2>2. y \in 0..x /\ (y > 0 => x - y = lr) /\ wm = wn + ls - (x - y) /\ rm = rn + lr - (x - y)
    BY <1>3 DEF TookShares
  <2>3. ps \in Int /\ pr \in Int /\ ls \in Int /\ lr \in Int /\ qs = ps + ls /\ qr = pr + lr
    BY <1>4, <1>5
  <2> HIDE DEF wn, wm, rn, rm, ps, pr, qs, qr, ls, lr, x, y
  <2>4. y \in 0..q /\ (y > 0 => q - y = qr) /\ wm = qs - (q - y) /\ rm = qr - (q - y)
    BY <2>1, <2>2, <2>3
  <2> QED BY <2>4 DEF FirstShares, wm, rm, qs, qr, y
<1>8. FirstRights(m, action, R)
  BY <1>2, <1>3 DEF FirstRights, TookRights, SameRight
<1>9. FirstClaims(m, j, lots, action)
  <2> SUFFICES ASSUME NEW i \in DOMAIN Actions
               PROVE  /\ Weight(GrossOf(i), m.lots) + SoldOf(m.action[i]) = Upto(GrossOf(i), lots, j) + SoldOf(action[i])
                      /\ Weight(InitialOf(i), m.lots) + m.action[i].withheld = Upto(InitialOf(i), lots, j) + action[i].withheld
    BY DEF FirstClaims
  <2> DEFINE gn == Weight(GrossOf(i), n.lots)
             gm == Weight(GrossOf(i), m.lots)
             kn == Weight(InitialOf(i), n.lots)
             km == Weight(InitialOf(i), m.lots)
             sn == SoldOf(n.action[i])
             sm == SoldOf(m.action[i])
             hn == n.action[i].withheld
             hm == m.action[i].withheld
             s0 == SoldOf(action[i])
             h0 == action[i].withheld
             pg == Upto(GrossOf(i), lots, j - 1)
             pk == Upto(InitialOf(i), lots, j - 1)
             qg == Upto(GrossOf(i), lots, j)
             qk == Upto(InitialOf(i), lots, j)
             lg == GrossOf(i)[l]
             lk == InitialOf(i)[l]
  <2>1. gn + sn = pg + s0 /\ kn + hn = pk + h0
    BY <1>2 DEF FirstClaims
  <2>2. gm + sm = gn + lg + sn /\ km + hm = kn + lk + hn
    BY <1>3 DEF TookClaims
  <2>3. pg \in Int /\ pk \in Int /\ lg \in Int /\ lk \in Int /\ qg = pg + lg /\ qk = pk + lk
    BY <1>4, <1>5
  <2>4. gn \in Int /\ kn \in Int
    BY <1>5, <1>6, WeightInteger
  <2>5. n.action[i] \in ActionSet /\ action[i] \in ActionSet
    BY <1>6
  <2>6. sn \in Int /\ s0 \in Int
    BY <2>5, SoldInteger
  <2>7. hn \in Int /\ h0 \in Int
    BY <2>5, SMTT(40) DEF ActionSet
  <2> HIDE DEF gn, gm, kn, km, sn, sm, hn, hm, s0, h0, pg, pk, qg, qk, lg, lk
  <2>8. gm + sm = qg + s0 /\ km + hm = qk + h0
    BY <2>1, <2>2, <2>3, <2>4, <2>6, <2>7
  <2> QED BY <2>8 DEF gm, km, sm, hm, s0, h0, qg, qk
<1> QED
  BY <1>3, <1>7, <1>8, <1>9 DEF First, m, l

\* What is left when q shares have left the lots.
LotsTaken(lots, q, action, day) ==
  FoldLeft(LAMBDA m, lot : TakeLot(m, lot, day), [left |-> q, lots |-> <<>>, action |-> action], lots)
Sells(F, base, lots, day) ==
  F = [t \in SUBSET DOMAIN lots |-> IF t = {} THEN base ELSE TakeLot(F[t \ {Max(t)}], lots[Max(t)], day)]

LEMMA LotsTakenIs ==
  ASSUME NEW L, NEW lots \in Seq(L), NEW q, NEW action, NEW day
  PROVE  \E F : Folds(F, Selling(lots, day), [left |-> q, lots |-> <<>>, action |-> action], DOMAIN lots)
                /\ LotsTaken(lots, q, action, day) = F[DOMAIN lots]
<1> DEFINE base == [left |-> q, lots |-> <<>>, action |-> action]
           S == DOMAIN lots
           C == CHOOSE F : Sells(F, base, lots, day)
<1>1. LotsTaken(lots, q, action, day) = C[S]
  BY DEF LotsTaken, FoldLeft, MapThenFoldSet, Sells
<1>2. \A F : Folds(F, Selling(lots, day), base, S) <=> Sells(F, base, lots, day)
  BY DEF Folds, Sells, Selling, OneMore, Taking
<1>3. IsFiniteSet(S) /\ S \subseteq Int
  BY SequenceShape
<1> HIDE DEF base, S, C
<1>4. Chooses(Selling(lots, day), S)
  BY <1>3, Chosen
<1>5. \E F : Folds(F, Selling(lots, day), base, S)
  BY <1>3, <1>4, FoldExists
<1>6. Sells(C, base, lots, day)
  BY <1>2, <1>5 DEF C
<1> QED
  BY <1>1, <1>2, <1>6 DEF base, S

\* Shares that may be sold are all found, and nothing of a dividend is lost.
TookAll(n, lots, q, action, s, day, R) ==
  /\ SellState(n, s, day, R) /\ n.left = 0
  /\ Weight(Sizes, n.lots) = Weight(Sizes, lots) - q
  /\ Weight(Ripe(day), n.lots) = Weight(Ripe(day), lots) - q
  /\ FirstRights(n, action, R)
  /\ \A i \in DOMAIN Actions :
       /\ Weight(GrossOf(i), n.lots) + SoldOf(n.action[i]) = Weight(GrossOf(i), lots) + SoldOf(action[i])
       /\ Weight(InitialOf(i), n.lots) + n.action[i].withheld = Weight(InitialOf(i), lots) + action[i].withheld
LEMMA TakenAll ==
  ASSUME NEW s, NEW day \in Nat, NEW R, NEW lots, FineLots(lots, s, day, R), NEW q \in Nat,
         q <= Weight(Ripe(day), lots), NEW action \in [DOMAIN Actions -> ActionSet]
  PROVE  TookAll(LotsTaken(lots, q, action, day), lots, q, action, s, day, R)
<1> DEFINE base == [left |-> q, lots |-> <<>>, action |-> action]
           N == Len(lots)
           k == Selling(lots, day)
           n == LotsTaken(lots, q, action, day)
<1>1. lots \in Seq(LotSet)
  BY DEF FineLots
<1>2. N \in Nat /\ DOMAIN lots = 1..N
  BY <1>1, SequenceShape
<1>3. PICK F : Folds(F, k, base, 1..N) /\ n = F[1..N]
  BY <1>1, <1>2, LotsTakenIs
<1>4. k.fold # "release" /\ \A v, x : OneMore(k, x, v) = TakeLot(v, lots[x], day)
  BY DEF Selling, OneMore
<1> HIDE DEF k, base, N
<1>5. PICK G : G[0] = base /\ G[N] = F[1..N] /\ \A j \in 1..N : G[j] = OneMore(k, j, G[j - 1])
  BY <1>2, <1>3, <1>4, FoldAlong
<1> DEFINE B == {j \in 0..N : First(G[j], j, lots, q, action, s, day, R)}
<1>6. \A f \in [LotSet -> Int] : Upto(f, lots, 0) = 0 /\ Upto(f, lots, N) = Weight(f, lots)
  BY <1>1, UptoGrows DEF N
<1>7. /\ Sizes \in [LotSet -> Int] /\ Ripe(day) \in [LotSet -> Int]
      /\ \A i : GrossOf(i) \in [LotSet -> Int] /\ InitialOf(i) \in [LotSet -> Int]
  BY LotMeasures
<1>8. First(base, 0, lots, q, action, s, day, R)
  <2>1. base.left = q /\ base.lots = <<>> /\ base.action = action /\ base = [left |-> q, lots |-> <<>>, action |-> action]
    BY DEF base
  <2>2. \A f \in [LotSet -> Int] : Weight(f, <<>>) = 0
    BY WeightInteger, EmptySeq
  <2>3. FineLots(<<>>, s, day, R)
    BY EmptySeq DEF FineLots
  <2>4. SellState(base, s, day, R)
    BY <2>1, <2>3 DEF SellState
  <2>5. FirstShares(base, 0, lots, q, day)
    <3>1. Weight(Sizes, <<>>) = 0 /\ Weight(Ripe(day), <<>>) = 0 /\ Upto(Sizes, lots, 0) = 0 /\ Upto(Ripe(day), lots, 0) = 0
      BY <1>6, <1>7, <2>2
    <3> QED BY <2>1, <3>1 DEF FirstShares
  <2>6. FirstRights(base, action, R)
    BY <2>1 DEF FirstRights, SameRight
  <2>7. FirstClaims(base, 0, lots, action)
    BY <1>6, <1>7, <2>1, <2>2 DEF FirstClaims
  <2> QED BY <2>4, <2>5, <2>6, <2>7 DEF First
<1>9. 0 \in B
  BY <1>2, <1>5, <1>8
<1>10. \A j \in 1..N : j - 1 \in B => j \in B
  <2> SUFFICES ASSUME NEW j \in 1..N, First(G[j - 1], j - 1, lots, q, action, s, day, R)
               PROVE  First(G[j], j, lots, q, action, s, day, R)
    BY <1>2
  <2>1. G[j] = TakeLot(G[j - 1], lots[j], day)
    BY <1>4, <1>5
  <2>2. j \in 1..Len(lots)
    BY DEF N
  <2> QED BY <2>1, <2>2, FirstMore
<1>11. N \in B
  <2> HIDE DEF B
  <2>1. \A j \in 0..N : j \in B
    BY <1>2, <1>9, <1>10, CountInduction
  <2> QED BY <1>2, <2>1
<1>12. First(n, N, lots, q, action, s, day, R)
  BY <1>3, <1>5, <1>11
<1> HIDE DEF n
<1>13. SellState(n, s, day, R) /\ FirstShares(n, N, lots, q, day) /\ FirstRights(n, action, R) /\ FirstClaims(n, N, lots, action)
  BY <1>12 DEF First
<1>14. Upto(Sizes, lots, N) = Weight(Sizes, lots) /\ Upto(Ripe(day), lots, N) = Weight(Ripe(day), lots)
       /\ Weight(Sizes, lots) \in Int /\ Weight(Ripe(day), lots) \in Int
  BY <1>1, <1>6, <1>7, WeightInteger
<1>15. n.left = 0 /\ Weight(Sizes, n.lots) = Weight(Sizes, lots) - q /\ Weight(Ripe(day), n.lots) = Weight(Ripe(day), lots) - q
  <2>1. /\ n.left \in 0..q
        /\ n.left > 0 => q - n.left = Weight(Ripe(day), lots)
        /\ Weight(Sizes, n.lots) = Weight(Sizes, lots) - (q - n.left)
        /\ Weight(Ripe(day), n.lots) = Weight(Ripe(day), lots) - (q - n.left)
    BY <1>13, <1>14 DEF FirstShares
  <2>2. n.left = 0
    BY <1>14, <2>1
  <2> QED BY <1>14, <2>1, <2>2
<1>16. \A i \in DOMAIN Actions :
         /\ Weight(GrossOf(i), n.lots) + SoldOf(n.action[i]) = Weight(GrossOf(i), lots) + SoldOf(action[i])
         /\ Weight(InitialOf(i), n.lots) + n.action[i].withheld = Weight(InitialOf(i), lots) + action[i].withheld
  <2>1. \A i : Upto(GrossOf(i), lots, N) = Weight(GrossOf(i), lots) /\ Upto(InitialOf(i), lots, N) = Weight(InitialOf(i), lots)
    BY <1>6, <1>7
  <2> QED BY <1>13, <2>1 DEF FirstClaims
<1> QED
  BY <1>13, <1>15, <1>16 DEF TookAll, n

-----------------------------------------------------------------------------
(* A sound account: what is frozen, on its way and held is what the orders,*)
(* the corporate actions and the lots say, and the books balance.          *)

\* Sums over the parts of an account.
Reserved(reserved)    == SumFunction([id \in Orders |-> reserved[id].cash])
SellLeft(r, s)        == IF r.side = "sell" /\ r.s = s THEN r.left ELSE 0
Ordered(reserved, s)  == SumFunction([id \in Orders |-> SellLeft(reserved[id], s)])
Locked(locks)         == SumFunction([d \in Days |-> locks[d]])
Costs(position)       == SumFunction([s \in Securities |-> position[s].cost])
NetDue(x)             == IF x.ex /\ ~x.paid THEN Net(x) ELSE 0
Coming(action)        == SumFunction([i \in DOMAIN Actions |-> NetDue(action[i])])
Registers(action)     == {i \in DOMAIN Actions : action[i].registered}

Holding(p, s, day, R) ==
  /\ FineLots(p.lots, s, day, R)
  /\ p.quantity = Weight(Sizes, p.lots)
  /\ p.quantity = 0 => p.cost = 0
  /\ p.frozen <= Weight(Ripe(day), p.lots)
Booking(r) ==
  IF r.side = "none" THEN r.cash = 0
  ELSE r.s \in Securities /\ r.paid <= Commission(r.notional)
Right(x, day) ==
  /\ x.initial <= x.gross
  /\ x.paid => x.ex
  /\ x.ex => x.registered
  /\ ~x.registered => /\ x.gross = 0 /\ x.initial = 0 /\ SoldOf(x) = 0 /\ x.withheld = 0
                     /\ x.recorded = <<>>
  /\ \A k \in DOMAIN x.recorded : x.recorded[k].acquired <= day
Shared(x, i, lots) ==
  /\ x.gross = Weight(GrossOf(i), lots) + SoldOf(x)
  /\ x.initial = Weight(InitialOf(i), lots) + x.withheld

Unpaid(x, i) == Actions[i].kind # "dividend" => x.gross = 0 /\ x.initial = 0

Holdings(a) == \A s \in Securities : Holding(a.position[s], s, a.day, Registers(a.action))
Bookings(a) == \A id \in Orders : Booking(a.reserved[id])
Rights(a)   == \A i \in DOMAIN Actions : Right(a.action[i], a.day) /\ Unpaid(a.action[i], i)
Sharing(a)  == \A i \in DOMAIN Actions : Shared(a.action[i], i, a.position[Actions[i].s].lots)
Freezes(a)  == \A s \in Securities : a.position[s].frozen = Ordered(a.reserved, s)
Money(a) ==
  /\ Frozen(a) <= a.cash /\ a.frozen = Reserved(a.reserved) /\ a.blocked = Locked(a.locks)
  /\ a.cash + a.receivable + Costs(a.position) = InitialCash + a.realized
  /\ a.receivable = Coming(a.action)
Sound(a) ==
  /\ a \in AccountSet
  /\ Holdings(a) /\ Bookings(a) /\ Rights(a) /\ Sharing(a) /\ Freezes(a) /\ Money(a)

LEMMA AccountFields ==
  ASSUME NEW a \in AccountSet
  PROVE  /\ a.cash \in Nat /\ a.frozen \in Nat /\ a.blocked \in Nat /\ a.locks \in [Days -> Nat]
         /\ a.day \in 0..Sessions /\ a.day \in Nat /\ a.realized \in Int /\ a.receivable \in Nat
         /\ a.action \in [DOMAIN Actions -> ActionSet]
         /\ a.position \in [Securities -> PositionSet]
         /\ a.reserved \in [Orders -> ReservationSet]
<1>1. Sessions \in Nat
  BY AccountShape
<1> QED
  BY <1>1 DEF AccountSet

LEMMA AccountParts ==
  /\ IsFiniteSet(Orders) /\ IsFiniteSet(Securities) /\ IsFiniteSet(Days) /\ IsFiniteSet(DOMAIN Actions)
  /\ Orders \subseteq Nat /\ Days \subseteq Nat /\ DOMAIN Actions \subseteq Nat
  /\ \A i \in DOMAIN Actions : Actions[i].s \in Securities
<1>1. IsFiniteSet(Securities) /\ MaxOrders \in Int /\ Sessions + 1 \in Int
  BY AccountShape
<1>2. IsFiniteSet(1..(Sessions + 1)) /\ IsFiniteSet(1..MaxOrders)
  BY <1>1, 1 \in Int, FS_Interval
<1>3. Len(Actions) \in Nat /\ DOMAIN Actions = 1..Len(Actions) /\ \A i \in DOMAIN Actions : Actions[i].s \in Securities
  BY ActionShape
<1>4. IsFiniteSet(1..Len(Actions))
  BY <1>3, 1 \in Int, FS_Interval
<1>5. Orders = 1..MaxOrders /\ Days = 1..(Sessions + 1)
  BY DEF Orders, Days
<1>6. Orders \subseteq Nat /\ Days \subseteq Nat /\ DOMAIN Actions \subseteq Nat
  BY <1>1, <1>3, <1>5
<1> QED
  BY <1>1, <1>2, <1>3, <1>4, <1>5, <1>6

\* One term of a sum of numbers is replaced.
LEMMA SumReplaced ==
  ASSUME NEW S, IsFiniteSet(S), NEW g \in [S -> Int], NEW x \in S, NEW v \in Int
  PROVE  /\ SumFunction(g) \in Int
         /\ SumFunction([g EXCEPT ![x] = v]) = SumFunction(g) + v - g[x]
<1> DEFINE h == [g EXCEPT ![x] = v]
           G == SumFunction(g)
           H == SumFunction(h)
           u == g[x]
<1>1. h \in [S -> Int] /\ h[x] = v /\ \A y \in S \ {x} : h[y] = g[y]
  OBVIOUS
<1> HIDE DEF h
<1>2. SumFunction(h) - h[x] = SumFunction(g) - g[x]
  BY <1>1, SumDiffers
<1>3. G \in Int /\ H \in Int /\ u \in Int /\ H - v = G - u
  BY <1>1, <1>2, SumInteger
<1> HIDE DEF G, H, u
<1>4. H = G + v - u
  BY <1>3
<1> QED
  BY <1>3, <1>4 DEF G, H, u, h

LEMMA CostsChange ==
  ASSUME NEW position \in [Securities -> PositionSet], NEW s \in Securities, NEW p \in PositionSet
  PROVE  /\ Costs(position) \in Nat
         /\ Costs([position EXCEPT ![s] = p]) = Costs(position) + p.cost - position[s].cost
<1> DEFINE g == [z \in Securities |-> position[z].cost]
           h == [z \in Securities |-> [position EXCEPT ![s] = p][z].cost]
           c == p.cost
<1>1. IsFiniteSet(Securities) /\ g \in [Securities -> Nat] /\ g \in [Securities -> Int] /\ p.cost \in Int
  BY AccountParts DEF PositionSet
<1>2. h = [g EXCEPT ![s] = c] /\ g[s] = position[s].cost
  OBVIOUS
<1>3. Costs(position) = SumFunction(g) /\ Costs([position EXCEPT ![s] = p]) = SumFunction(h)
  BY DEF Costs
<1> HIDE DEF g, h, c
<1>4. SumFunction(g) \in Nat /\ SumFunction([g EXCEPT ![s] = c]) = SumFunction(g) + c - g[s]
  BY <1>1, SumNatural, SumReplaced DEF c
<1> QED
  BY <1>2, <1>3, <1>4 DEF c

LEMMA ReservedChange ==
  ASSUME NEW reserved \in [Orders -> ReservationSet], NEW id \in Orders, NEW r \in ReservationSet
  PROVE  /\ Reserved(reserved) \in Nat /\ reserved[id].cash <= Reserved(reserved)
         /\ Reserved([reserved EXCEPT ![id] = r]) = Reserved(reserved) + r.cash - reserved[id].cash
<1> DEFINE g == [z \in Orders |-> reserved[z].cash]
           h == [z \in Orders |-> [reserved EXCEPT ![id] = r][z].cash]
           c == r.cash
<1>1. IsFiniteSet(Orders) /\ g \in [Orders -> Nat] /\ g \in [Orders -> Int] /\ r.cash \in Int
  BY AccountParts DEF ReservationSet
<1>2. h = [g EXCEPT ![id] = c] /\ g[id] = reserved[id].cash
  OBVIOUS
<1>3. Reserved(reserved) = SumFunction(g) /\ Reserved([reserved EXCEPT ![id] = r]) = SumFunction(h)
  BY DEF Reserved
<1> HIDE DEF g, h, c
<1>4. /\ SumFunction(g) \in Nat /\ g[id] <= SumFunction(g)
      /\ SumFunction([g EXCEPT ![id] = c]) = SumFunction(g) + c - g[id]
  BY <1>1, SumNatural, SumReplaced, TermInSum DEF c
<1> QED
  BY <1>2, <1>3, <1>4 DEF c

LEMMA OrderedChange ==
  ASSUME NEW reserved \in [Orders -> ReservationSet], NEW id \in Orders, NEW r \in ReservationSet, NEW s
  PROVE  /\ Ordered(reserved, s) \in Nat /\ SellLeft(reserved[id], s) <= Ordered(reserved, s)
         /\ SellLeft(r, s) \in Nat /\ SellLeft(reserved[id], s) \in Nat
         /\ Ordered([reserved EXCEPT ![id] = r], s) = Ordered(reserved, s) + SellLeft(r, s) - SellLeft(reserved[id], s)
<1> DEFINE g == [z \in Orders |-> SellLeft(reserved[z], s)]
           h == [z \in Orders |-> SellLeft([reserved EXCEPT ![id] = r][z], s)]
           c == SellLeft(r, s)
<1>1. \A z \in ReservationSet : SellLeft(z, s) \in Nat
  BY DEF SellLeft, ReservationSet
<1>2. IsFiniteSet(Orders) /\ g \in [Orders -> Nat] /\ g \in [Orders -> Int] /\ c \in Int
  BY <1>1, AccountParts
<1>3. h = [g EXCEPT ![id] = c] /\ g[id] = SellLeft(reserved[id], s)
  OBVIOUS
<1>4. Ordered(reserved, s) = SumFunction(g) /\ Ordered([reserved EXCEPT ![id] = r], s) = SumFunction(h)
  BY DEF Ordered
<1> HIDE DEF g, h, c
<1>5. /\ SumFunction(g) \in Nat /\ g[id] <= SumFunction(g)
      /\ SumFunction([g EXCEPT ![id] = c]) = SumFunction(g) + c - g[id]
  BY <1>2, SumNatural, SumReplaced, TermInSum
<1> QED
  BY <1>1, <1>3, <1>4, <1>5 DEF c

LEMMA LocksChange ==
  ASSUME NEW locks \in [Days -> Nat], NEW d \in Days, NEW v \in Nat
  PROVE  /\ Locked(locks) \in Nat
         /\ Locked([locks EXCEPT ![d] = v]) = Locked(locks) + v - locks[d]
<1>1. IsFiniteSet(Days) /\ locks \in [Days -> Int] /\ [locks EXCEPT ![d] = v] \in [Days -> Nat]
  BY AccountParts
<1>2. \A l \in [Days -> Nat] : Locked(l) = SumFunction(l)
  <2> SUFFICES ASSUME NEW l \in [Days -> Nat] PROVE Locked(l) = SumFunction(l)
    OBVIOUS
  <2>1. l = [e \in Days |-> l[e]]
    OBVIOUS
  <2> QED BY <2>1 DEF Locked
<1>4. SumFunction(locks) \in Nat
  BY <1>1, SumNatural
<1>3. SumFunction([locks EXCEPT ![d] = v]) = SumFunction(locks) + v - locks[d]
  <2> DEFINE S == Days
  <2>1. IsFiniteSet(S) /\ locks \in [S -> Int] /\ d \in S /\ v \in Int
    BY <1>1
  <2> HIDE DEF S
  <2> QED BY <2>1, SumReplaced
<1> QED
  BY <1>1, <1>2, <1>3, <1>4

LEMMA ComingChange ==
  ASSUME NEW action \in [DOMAIN Actions -> ActionSet], NEW i \in DOMAIN Actions, NEW x \in ActionSet
  PROVE  /\ Coming(action) \in Int /\ NetDue(x) \in Int /\ NetDue(action[i]) \in Int
         /\ Coming([action EXCEPT ![i] = x]) = Coming(action) + NetDue(x) - NetDue(action[i])
<1> DEFINE A == DOMAIN Actions
           g == [z \in A |-> NetDue(action[z])]
           h == [z \in A |-> NetDue([action EXCEPT ![i] = x][z])]
           c == NetDue(x)
<1>6. \A z \in ActionSet : z.gross \in Int /\ z.initial \in Int
  BY DEF ActionSet
<1>1. \A z \in ActionSet : NetDue(z) \in Int
  BY <1>6 DEF NetDue, Net
<1>2. IsFiniteSet(A) /\ g \in [A -> Int] /\ c \in Int
  BY <1>1, AccountParts
<1>3. h = [g EXCEPT ![i] = c] /\ g[i] = NetDue(action[i])
  OBVIOUS
<1>4. Coming(action) = SumFunction(g) /\ Coming([action EXCEPT ![i] = x]) = SumFunction(h)
  BY DEF Coming
<1> HIDE DEF g, h, c
<1>5. SumFunction(g) \in Int /\ SumFunction([g EXCEPT ![i] = c]) = SumFunction(g) + c - g[i]
  BY <1>2, SumReplaced
<1> QED
  BY <1>1, <1>3, <1>4, <1>5 DEF c

\* What is sold of a dividend that is on its way makes it no smaller.
LEMMA ComingSame ==
  ASSUME NEW action, NEW new, \A i \in DOMAIN Actions : SameRight(new[i], action[i])
  PROVE  Coming(new) = Coming(action) /\ Registers(new) = Registers(action)
<1>1. \A i \in DOMAIN Actions : NetDue(new[i]) = NetDue(action[i]) /\ new[i].registered = action[i].registered
  BY DEF SameRight, NetDue, Net
<1> QED
  BY <1>1 DEF Coming, Registers

-----------------------------------------------------------------------------
(* What soundness says, and what one reservation and one position change.  *)

LEMMA NoLots ==
  ASSUME NEW lots \in Seq(LotSet), Weight(Sizes, lots) = 0
  PROVE  lots = <<>>
<1> SUFFICES ASSUME lots # <<>> PROVE FALSE
  OBVIOUS
<1> DEFINE S == DOMAIN lots
           g == [k \in S |-> Sizes[lots[k]]]
<1>1. IsFiniteSet(S) /\ S = 1..Len(lots) /\ Len(lots) \in Nat /\ \A k \in S : lots[k] \in LotSet
  BY SequenceShape
<1>2. 1 \in S
  BY <1>1, EmptySeq
<1>3. g \in [S -> Nat] /\ g[1] > 0
  <2>1. \A l \in LotSet : l.quantity \in Nat \ {0}
    BY DEF LotSet
  <2> QED BY <1>1, <1>2, <2>1 DEF Sizes
<1>4. Weight(Sizes, lots) = SumFunction(g)
  BY DEF Weight
<1> HIDE DEF g, S
<1>5. g[1] <= SumFunction(g) /\ g[1] \in Nat
  BY <1>1, <1>2, <1>3, TermInSum
<1>6. SumFunction(g) = 0
  BY <1>4
<1> QED
  BY <1>3, <1>5, <1>6

LEMMA NoWeight ==
  ASSUME NEW f \in [LotSet -> Int], NEW lots \in Seq(LotSet), \A k \in DOMAIN lots : f[lots[k]] = 0
  PROVE  Weight(f, lots) = 0
<1> DEFINE T == {}
           g == [k \in T |-> f[lots[k]]]
<1>1. T \in SUBSET DOMAIN lots /\ \A k \in DOMAIN lots \ T : f[lots[k]] = 0
  OBVIOUS
<1>2. IsFiniteSet(T) /\ g \in [T -> Int] /\ T = {}
  BY FS_EmptySet
<1>3. g = [k \in T |-> f[lots[k]]]
  OBVIOUS
<1> HIDE DEF g, T
<1>4. SumFunction(g) = 0
  BY <1>2, SumInteger
<1>5. SumFunction(g) = Weight(f, lots)
  BY <1>1, <1>3, WeightOfSome
<1> QED
  BY <1>4, <1>5

\* No claims to the dividends of other securities.
LEMMA NoClaims ==
  ASSUME NEW s, NEW day, NEW R, NEW lots, FineLots(lots, s, day, R), NEW i,
         i \notin R \/ Actions[i].s # s
  PROVE  Weight(GrossOf(i), lots) = 0 /\ Weight(InitialOf(i), lots) = 0
<1>1. lots \in Seq(LotSet) /\ \A k \in DOMAIN lots : lots[k] \in LotSet /\ i \notin DOMAIN lots[k].claims
  BY DEF FineLots, FineLot
<1>2. \A k \in DOMAIN lots : GrossOf(i)[lots[k]] = 0 /\ InitialOf(i)[lots[k]] = 0
  BY <1>1 DEF GrossOf, InitialOf
<1>3. GrossOf(i) \in [LotSet -> Int] /\ InitialOf(i) \in [LotSet -> Int]
  BY 0 \in Nat, LotMeasures
<1> QED
  BY <1>1, <1>2, <1>3, NoWeight

\* A position that is removed when it is empty holds what it held.
LEMMA KeptHolding ==
  ASSUME NEW p \in PositionSet, NEW s, NEW day \in Nat, NEW R, Holding(p, s, day, R)
  PROVE  /\ Kept(p) \in PositionSet /\ Holding(Kept(p), s, day, R)
         /\ Kept(p).cost = p.cost /\ Kept(p).quantity = p.quantity /\ Kept(p).frozen = p.frozen
         /\ Kept(p).lots = p.lots
<1>1. CASE p.quantity = 0
  <2>1. p.lots \in Seq(LotSet) /\ Weight(Sizes, p.lots) = 0 /\ p.cost = 0 /\ p.frozen \in Nat
    BY <1>1 DEF Holding, PositionSet
  <2>2. p.lots = <<>>
    BY <2>1, NoLots
  <2>3. Weight(Ripe(day), p.lots) = 0
    <3>1. Ripe(day) \in [LotSet -> Int]
      BY LotMeasures
    <3> QED BY <2>1, <2>2, <3>1, WeightInteger
  <2>4. p.frozen = 0
    BY <2>1, <2>3 DEF Holding
  <2>5. p = [quantity |-> p.quantity, frozen |-> p.frozen, cost |-> p.cost, lots |-> p.lots]
    BY DEF PositionSet
  <2>6. p = NoPosition
    BY <1>1, <2>1, <2>2, <2>4, <2>5 DEF NoPosition
  <2> QED BY <1>1, <2>6 DEF Kept
<1>2. CASE p.quantity # 0
  BY <1>2 DEF Kept
<1> QED
  BY <1>1, <1>2

\* One reservation and one position are replaced, and with them what they stand for.
Rebooks(a, b, id, r, s, p) ==
  /\ b.day = a.day /\ b.receivable = a.receivable
  /\ b.reserved = [a.reserved EXCEPT ![id] = r] /\ b.position = [a.position EXCEPT ![s] = p]
  /\ b.frozen = a.frozen + r.cash - a.reserved[id].cash
  /\ Frozen(b) <= b.cash /\ b.blocked = Locked(b.locks)
  /\ (b.cash + p.cost) - (a.cash + a.position[s].cost) = b.realized - a.realized
RebooksRights(a, b, s, p) ==
  \A i \in DOMAIN Actions :
    /\ SameRight(b.action[i], a.action[i])
    /\ i \notin Registers(a.action) =>
         SoldOf(b.action[i]) = SoldOf(a.action[i]) /\ b.action[i].withheld = a.action[i].withheld
    /\ Shared(b.action[i], i, IF Actions[i].s = s THEN p.lots ELSE a.position[Actions[i].s].lots)
RebooksShares(a, id, r, s, p) ==
  /\ \A z \in Securities \ {s} : SellLeft(r, z) = SellLeft(a.reserved[id], z)
  /\ p.frozen = a.position[s].frozen + SellLeft(r, s) - SellLeft(a.reserved[id], s)

LEMMA Rebooked ==
  ASSUME NEW a, Sound(a), NEW b \in AccountSet, NEW id \in Orders, NEW r \in ReservationSet, Booking(r),
         NEW s \in Securities, NEW p \in PositionSet, Holding(p, s, a.day, Registers(a.action)),
         Rebooks(a, b, id, r, s, p), RebooksRights(a, b, s, p), RebooksShares(a, id, r, s, p)
  PROVE  Sound(b)
<1>1. /\ a \in AccountSet
      /\ Holdings(a) /\ Bookings(a) /\ Rights(a) /\ Sharing(a) /\ Freezes(a) /\ Money(a)
  BY DEF Sound
<1>2. /\ a.action \in [DOMAIN Actions -> ActionSet] /\ a.position \in [Securities -> PositionSet]
      /\ a.reserved \in [Orders -> ReservationSet] /\ a.day \in Nat
      /\ a.cash \in Nat /\ a.frozen \in Nat /\ a.receivable \in Nat /\ a.realized \in Int
      /\ b.cash \in Nat /\ b.frozen \in Nat /\ b.realized \in Int
      /\ a.position[s].cost \in Nat /\ p.cost \in Nat
  BY <1>1, AccountFields DEF PositionSet
<1>3. /\ b.day = a.day /\ b.receivable = a.receivable
      /\ b.reserved = [a.reserved EXCEPT ![id] = r] /\ b.position = [a.position EXCEPT ![s] = p]
  BY DEF Rebooks
<1>4. Coming(b.action) = Coming(a.action) /\ Registers(b.action) = Registers(a.action)
  BY ComingSame DEF RebooksRights
<1>5. Holdings(b)
  <2> SUFFICES ASSUME NEW z \in Securities PROVE Holding(b.position[z], z, b.day, Registers(b.action))
    BY DEF Holdings
  <2>1. Holding(a.position[z], z, a.day, Registers(a.action))
    BY <1>1 DEF Holdings
  <2> QED BY <1>2, <1>3, <1>4, <2>1
<1>6. Bookings(b)
  BY <1>1, <1>2, <1>3 DEF Bookings
<1>7. Rights(b)
  <2> SUFFICES ASSUME NEW i \in DOMAIN Actions PROVE Right(b.action[i], b.day) /\ Unpaid(b.action[i], i)
    BY DEF Rights
  <2>1. /\ Right(a.action[i], a.day) /\ SameRight(b.action[i], a.action[i]) /\ Unpaid(a.action[i], i)
        /\ ~ a.action[i].registered =>
             SoldOf(b.action[i]) = SoldOf(a.action[i]) /\ b.action[i].withheld = a.action[i].withheld
    BY <1>1 DEF Rights, RebooksRights, Registers
  <2> QED BY <1>3, <2>1 DEF Right, SameRight, Unpaid
<1>8. Sharing(b)
  <2> SUFFICES ASSUME NEW i \in DOMAIN Actions PROVE Shared(b.action[i], i, b.position[Actions[i].s].lots)
    BY DEF Sharing
  <2>1. Actions[i].s \in Securities
    BY AccountParts
  <2>2. b.position[Actions[i].s].lots = IF Actions[i].s = s THEN p.lots ELSE a.position[Actions[i].s].lots
    BY <1>2, <1>3, <2>1
  <2> QED BY <2>2 DEF RebooksRights
<1>9. Freezes(b)
  <2> SUFFICES ASSUME NEW z \in Securities PROVE b.position[z].frozen = Ordered(b.reserved, z)
    BY DEF Freezes
  <2> DEFINE o == Ordered(a.reserved, z)
             u == SellLeft(r, z)
             v == SellLeft(a.reserved[id], z)
  <2>1. Ordered(b.reserved, z) = o + u - v /\ o \in Nat /\ u \in Nat /\ v \in Nat
    BY <1>2, <1>3, OrderedChange
  <2>2. a.position[z].frozen = o
    BY <1>1 DEF Freezes
  <2>3. CASE z = s
    BY <1>2, <1>3, <2>1, <2>2, <2>3 DEF RebooksShares
  <2>4. CASE z # s
    <3>1. b.position[z] = a.position[z] /\ u = v
      BY <1>2, <1>3, <2>4 DEF RebooksShares
    <3> HIDE DEF o, u, v
    <3> QED BY <2>1, <2>2, <3>1
  <2> QED BY <2>3, <2>4
<1>10. Money(b)
  <2>1. /\ a.frozen = Reserved(a.reserved) /\ a.receivable = Coming(a.action)
        /\ a.cash + a.receivable + Costs(a.position) = InitialCash + a.realized
    BY <1>1 DEF Money
  <2>2. Reserved(b.reserved) = Reserved(a.reserved) + r.cash - a.reserved[id].cash
    BY <1>2, <1>3, ReservedChange
  <2>3. Costs(a.position) \in Nat /\ Costs(b.position) = Costs(a.position) + p.cost - a.position[s].cost
    BY <1>2, <1>3, CostsChange
  <2>4. b.cash + b.receivable + Costs(b.position) = InitialCash + b.realized
    <3>1. (b.cash + p.cost) - (a.cash + a.position[s].cost) = b.realized - a.realized /\ InitialCash \in Nat
      BY AccountShape DEF Rebooks
    <3> QED BY <1>2, <1>3, <2>1, <2>3, <3>1
  <2>5. b.frozen = Reserved(b.reserved) /\ Frozen(b) <= b.cash /\ b.blocked = Locked(b.locks)
    BY <2>1, <2>2 DEF Rebooks
  <2>6. b.receivable = Coming(b.action)
    BY <1>3, <1>4, <2>1
  <2> QED BY <2>4, <2>5, <2>6 DEF Money
<1> QED
  BY <1>5, <1>6, <1>7, <1>8, <1>9, <1>10 DEF Sound

\* A part of the orders has the same total as all of them.
LEMMA OrderedIs ==
  ASSUME NEW reserved \in [Orders -> ReservationSet], NEW s
  PROVE  Total(LAMBDA id : reserved[id].left, {id \in Orders : reserved[id].side = "sell" /\ reserved[id].s = s})
           = Ordered(reserved, s)
<1> DEFINE T == {id \in Orders : reserved[id].side = "sell" /\ reserved[id].s = s}
           g == [id \in Orders |-> SellLeft(reserved[id], s)]
           h == [id \in T |-> reserved[id].left]
<1>1. \A z \in ReservationSet : SellLeft(z, s) \in Int
  BY DEF SellLeft, ReservationSet
<1>2. IsFiniteSet(Orders) /\ g \in [Orders -> Int] /\ T \in SUBSET Orders /\ \A x \in Orders \ T : g[x] = 0
  BY <1>1, AccountParts DEF SellLeft
<1>3. Restrict(g, T) = h
  BY DEF Restrict, SellLeft
<1>4. Total(LAMBDA id : reserved[id].left, T) = SumFunction(h) /\ Ordered(reserved, s) = SumFunction(g)
  BY DEF Total, Ordered
<1> HIDE DEF g, h, T
<1>5. SumFunction(g) = SumFunction(Restrict(g, T))
  BY <1>2, SumInside
<1> QED
  BY <1>3, <1>4, <1>5 DEF T

LEMMA ComingIs ==
  ASSUME NEW action \in [DOMAIN Actions -> ActionSet]
  PROVE  Total(LAMBDA i : Net(action[i]), {i \in DOMAIN Actions : action[i].ex /\ ~action[i].paid}) = Coming(action)
<1> DEFINE S == DOMAIN Actions
           T == {i \in S : action[i].ex /\ ~action[i].paid}
           g == [i \in S |-> NetDue(action[i])]
           h == [i \in T |-> Net(action[i])]
<1>1. \A x \in ActionSet : x.gross \in Int /\ x.initial \in Int
  BY DEF ActionSet
<1>2. \A x \in ActionSet : NetDue(x) \in Int
  BY <1>1 DEF NetDue, Net
<1>3. IsFiniteSet(S) /\ g \in [S -> Int] /\ T \in SUBSET S /\ \A x \in S \ T : g[x] = 0
  BY <1>2, AccountParts DEF NetDue
<1>4. Restrict(g, T) = h
  BY DEF Restrict, NetDue
<1>5. Total(LAMBDA i : Net(action[i]), T) = SumFunction(h) /\ Coming(action) = SumFunction(g)
  BY DEF Total, Coming
<1> HIDE DEF g, h, T, S
<1>6. SumFunction(g) = SumFunction(Restrict(g, T))
  BY <1>3, SumInside
<1> QED
  BY <1>4, <1>5, <1>6 DEF T, S

\* What may be sold of a sound account.
LEMMA SoundSellable ==
  ASSUME NEW a, Sound(a), NEW s \in Securities
  PROVE  /\ Eligible(a, s) = Weight(Ripe(a.day), a.position[s].lots) /\ Eligible(a, s) \in Nat
         /\ Shares(a.position[s].lots) = Weight(Sizes, a.position[s].lots)
         /\ a.position[s].frozen \in Nat /\ Sellable(a, s) = Eligible(a, s) - a.position[s].frozen
         /\ Sellable(a, s) >= 0
<1>1. a.position[s].lots \in Seq(LotSet) /\ a.day \in Nat /\ a.position[s].frozen \in Nat
      /\ a.position[s].frozen <= Weight(Ripe(a.day), a.position[s].lots)
  BY AccountFields DEF Sound, PositionSet, Holdings, Holding
<1>2. Eligible(a, s) = Weight(Ripe(a.day), a.position[s].lots) /\ Eligible(a, s) \in Nat
  BY <1>1, EligibleAre
<1>3. Shares(a.position[s].lots) = Weight(Sizes, a.position[s].lots)
  BY <1>1, SharesAre
<1> QED
  BY <1>1, <1>2, <1>3 DEF Sellable

\* A sound account is consistent: its fields have their types, no cash and no
\* share is promised twice, and the books and the dividends add up.
THEOREM SoundConsistent ==
  ASSUME NEW a, Sound(a)
  PROVE  AccountFits(a) /\ CashCovered(a) /\ SharesCovered(a) /\ BooksBalance(a) /\ DividendsKept(a)
<1>1. /\ a.cash \in Nat /\ a.frozen \in Nat /\ a.blocked \in Nat /\ a.locks \in [Days -> Nat]
      /\ a.day \in 0..Sessions /\ a.day \in Nat /\ a.realized \in Int /\ a.receivable \in Nat
      /\ a.action \in [DOMAIN Actions -> ActionSet]
      /\ a.position \in [Securities -> PositionSet]
      /\ a.reserved \in [Orders -> ReservationSet]
  BY AccountFields DEF Sound
<1>2. \A s \in Securities : FineLots(a.position[s].lots, s, a.day, Registers(a.action))
  BY DEF Sound, Holdings, Holding
<1>3. AccountFits(a)
  <2>1. ASSUME NEW s \in Securities
        PROVE  /\ a.position[s].quantity \in Nat /\ a.position[s].frozen \in Nat /\ a.position[s].cost \in Nat
               /\ \A k \in DOMAIN a.position[s].lots :
                    /\ a.position[s].lots[k].quantity \in Nat \ {0} /\ a.position[s].lots[k].from \in Nat
                    /\ a.position[s].lots[k].acquired \in 0..a.day
    <3>1. a.position[s].quantity \in Nat /\ a.position[s].frozen \in Nat /\ a.position[s].cost \in Nat
      BY <1>1 DEF PositionSet
    <3>2. \A k \in DOMAIN a.position[s].lots : a.position[s].lots[k] \in LotSet /\ a.position[s].lots[k].acquired <= a.day
      BY <1>2 DEF FineLots, FineLot
    <3>3. \A l \in LotSet : l.quantity \in Nat \ {0} /\ l.from \in Nat /\ l.acquired \in Nat
      BY DEF LotSet
    <3> QED BY <1>1, <3>1, <3>2, <3>3
  <2>2. \A id \in Orders : /\ a.reserved[id].side \in {"none", "buy", "sell"}
                           /\ a.reserved[id].left \in Nat /\ a.reserved[id].cash \in Nat
    BY <1>1 DEF ReservationSet
  <2> QED BY <1>1, <2>1, <2>2 DEF AccountFits
<1>4. CashCovered(a)
  <2>1. Frozen(a) <= a.cash /\ a.frozen = Reserved(a.reserved) /\ a.blocked = Locked(a.locks)
    BY DEF Sound, Money
  <2> QED BY <2>1 DEF CashCovered, Reserved, Locked, Total
<1>5. SharesCovered(a)
  <2> SUFFICES ASSUME NEW s \in Securities
               PROVE  /\ a.position[s].quantity = Shares(a.position[s].lots)
                      /\ a.position[s].frozen =
                           Total(LAMBDA id : a.reserved[id].left,
                                 {id \in Orders : a.reserved[id].side = "sell" /\ a.reserved[id].s = s})
                      /\ Sellable(a, s) >= 0
    BY DEF SharesCovered
  <2>1. a.position[s].quantity = Weight(Sizes, a.position[s].lots) /\ a.position[s].frozen = Ordered(a.reserved, s)
    BY DEF Sound, Holdings, Holding, Freezes
  <2>2. a.position[s].quantity = Shares(a.position[s].lots) /\ Sellable(a, s) >= 0
    BY <2>1, SoundSellable
  <2>3. a.position[s].frozen =
          Total(LAMBDA id : a.reserved[id].left,
                {id \in Orders : a.reserved[id].side = "sell" /\ a.reserved[id].s = s})
    BY <1>1, <2>1, OrderedIs
  <2> QED BY <2>2, <2>3
<1>6. BooksBalance(a)
  BY DEF Sound, Money, BooksBalance, Costs, Total
<1>7. DividendsKept(a)
  <2>1. a.receivable =
          Total(LAMBDA i : Net(a.action[i]), {i \in DOMAIN Actions : a.action[i].ex /\ ~a.action[i].paid})
    BY <1>1, ComingIs DEF Sound, Money
  <2>2. ASSUME NEW i \in DOMAIN Actions
        PROVE  LET x    == a.action[i]
                   lots == a.position[Actions[i].s].lots
               IN  /\ x.gross = Total(LAMBDA k : lots[k].claims[i].gross, ClaimedBy(lots, i)) + Total(LAMBDA b : x.sold[b], 1..3)
                   /\ x.initial = Total(LAMBDA k : lots[k].claims[i].initial, ClaimedBy(lots, i)) + x.withheld
    <3> DEFINE lots == a.position[Actions[i].s].lots
    <3>1. lots \in Seq(LotSet)
      BY <1>2, AccountParts, SMTT(40) DEF FineLots
    <3>2. /\ Total(LAMBDA k : lots[k].claims[i].gross, ClaimedBy(lots, i)) = Weight(GrossOf(i), lots)
          /\ Total(LAMBDA k : lots[k].claims[i].initial, ClaimedBy(lots, i)) = Weight(InitialOf(i), lots)
      BY <3>1, ClaimsAre
    <3>3. Shared(a.action[i], i, lots)
      BY DEF Sound, Sharing
    <3> QED BY <3>2, <3>3 DEF Shared, SoldOf
  <2>3. \A s \in Securities : \A k \in DOMAIN a.position[s].lots : \A i \in DOMAIN a.position[s].lots[k].claims :
          a.position[s].lots[k].claims[i].quantity = a.position[s].lots[k].quantity
    BY <1>2 DEF FineLots, FineLot
  <2> QED BY <2>1, <2>2, <2>3 DEF DividendsKept
<1> QED
  BY <1>3, <1>4, <1>5, <1>6, <1>7

-----------------------------------------------------------------------------
(* The account's operations on reservations.                               *)

\* The account has the parts that these proofs look at.
HasBooks(a) ==
  /\ {"reserved", "day"} \subseteq DOMAIN a
  /\ a.day \in Nat
  /\ DOMAIN a.reserved = Orders
  /\ \A id \in Orders : {"side", "s", "left", "limit"} \subseteq DOMAIN a.reserved[id]

LEMMA NoneShape == {"side", "s", "left", "limit"} \subseteq DOMAIN NoReservation /\ NoReservation.side = "none"
  BY DEF NoReservation

\* A reservation that ends leaves all others as they are.
LEMMA ReleaseOne ==
  ASSUME NEW a, HasBooks(a), NEW id \in Orders
  PROVE  /\ HasBooks(Release(a, id))
         /\ Release(a, id).day = a.day
         /\ Release(a, id).reserved[id].side = "none"
         /\ \A x \in Orders \ {id} : Release(a, id).reserved[x] = a.reserved[x]
  BY DEF HasBooks, Release, NoReservation

LEMMA ReserveOne ==
  ASSUME NEW a, HasBooks(a), NEW id \in Orders, NEW r, {"side", "s", "left", "limit"} \subseteq DOMAIN r
  PROVE  /\ HasBooks(Reserve(a, id, r))
         /\ Reserve(a, id, r).day = a.day
         /\ Reserve(a, id, r).reserved[id].side = r.side
         /\ Reserve(a, id, r).reserved[id].s = r.s
         /\ Reserve(a, id, r).reserved[id].left = r.left
         /\ Reserve(a, id, r).reserved[id].limit = r.limit
         /\ \A x \in Orders \ {id} : Reserve(a, id, r).reserved[x] = a.reserved[x]
  BY DEF HasBooks, Reserve, Froze

\* A fill takes its shares from one reservation, which ends with the last of them.
LEMMA FillOne ==
  ASSUME NEW a, HasBooks(a), NEW id \in Orders, a.reserved[id].left \in Nat,
         NEW quantity \in 1..a.reserved[id].left, NEW price
  PROVE  LET b == Filled(a, id, quantity, price)
             r == a.reserved[id]
         IN  /\ HasBooks(b)
             /\ b.day = a.day
             /\ \A x \in Orders \ {id} : b.reserved[x] = a.reserved[x]
             /\ IF quantity = r.left THEN b.reserved[id].side = "none"
                ELSE /\ b.reserved[id].side = r.side /\ b.reserved[id].s = r.s
                     /\ b.reserved[id].limit = r.limit /\ b.reserved[id].left = r.left - quantity
<1> DEFINE Fine(b) ==
             LET r == a.reserved[id] IN
             /\ HasBooks(b)
             /\ b.day = a.day
             /\ \A x \in Orders \ {id} : b.reserved[x] = a.reserved[x]
             /\ IF quantity = r.left THEN b.reserved[id].side = "none"
                ELSE /\ b.reserved[id].side = r.side /\ b.reserved[id].s = r.s
                     /\ b.reserved[id].limit = r.limit /\ b.reserved[id].left = r.left - quantity
<1>1. ASSUME NEW value, NEW fee PROVE Fine(BoughtFor(a, id, quantity, value, fee))
  <2> DEFINE b == BoughtFor(a, id, quantity, value, fee)
             r == a.reserved[id]
             rest == [r EXCEPT !.left = @ - quantity, !.notional = @ + value, !.paid = @ + fee]
  <2>1. \E keep : b.reserved = [a.reserved EXCEPT ![id] =
                    IF rest.left = 0 THEN NoReservation ELSE [rest EXCEPT !.cash = keep]]
    BY DEF HasBooks, BoughtFor
  <2>2. DOMAIN b = DOMAIN a /\ b.day = a.day
    BY DEF HasBooks, BoughtFor
  <2>3. /\ rest.left = r.left - quantity /\ rest.side = r.side /\ rest.s = r.s /\ rest.limit = r.limit
        /\ DOMAIN rest = DOMAIN r
    BY DEF HasBooks
  <2> SUFFICES Fine(b)
    OBVIOUS
  <2> HIDE DEF b, rest
  <2>4. PICK keep : b.reserved = [a.reserved EXCEPT ![id] =
                    IF rest.left = 0 THEN NoReservation ELSE [rest EXCEPT !.cash = keep]]
    BY <2>1
  <2>5. \A x \in Orders \ {id} : b.reserved[x] = a.reserved[x]
    BY <2>4 DEF HasBooks
  <2>6. CASE quantity = r.left
    <3>1. b.reserved[id] = NoReservation
      BY <2>3, <2>4, <2>6 DEF HasBooks
    <3> QED BY <2>2, <2>4, <2>5, <2>6, <3>1, NoneShape DEF HasBooks
  <2>7. CASE quantity # r.left
    <3>1. rest.left # 0
      BY <2>3, <2>7
    <3>2. b.reserved[id] = [rest EXCEPT !.cash = keep]
      BY <2>4, <3>1 DEF HasBooks
    <3>3. /\ DOMAIN b.reserved[id] = DOMAIN r /\ b.reserved[id].left = r.left - quantity
          /\ b.reserved[id].side = r.side /\ b.reserved[id].s = r.s /\ b.reserved[id].limit = r.limit
      BY <2>3, <3>2 DEF HasBooks
    <3> QED BY <2>2, <2>4, <2>5, <2>7, <3>3 DEF HasBooks
  <2> QED
    BY <2>6, <2>7
<1>2. ASSUME NEW value, NEW fee, NEW disposed PROVE Fine(SoldFor(a, id, quantity, value, fee, disposed))
  BY DEF HasBooks, SoldFor, NoReservation
<1> QED
  BY <1>1, <1>2 DEF Filled, Bought, Sold

LEMMA SettleNone ==
  ASSUME NEW a, HasBooks(a), NEW day \in Nat
  PROVE  /\ HasBooks(Settle(a, day))
         /\ Settle(a, day).day = day
         /\ Settle(a, day).reserved = a.reserved
  BY DEF HasBooks, Settle

\* What a corporate action does to the account it does to no reservation.
LEMMA RegisterNone ==
  ASSUME NEW a, HasBooks(a), NEW i
  PROVE  /\ HasBooks(Register(a, i))
         /\ Register(a, i).day = a.day
         /\ Register(a, i).reserved = a.reserved
  BY DEF HasBooks, Register, Dividend, Recorded

LEMMA ExNone ==
  ASSUME NEW a, HasBooks(a), NEW i
  PROVE  /\ HasBooks(Ex(a, i))
         /\ Ex(a, i).day = a.day
         /\ Ex(a, i).reserved = a.reserved
  BY DEF HasBooks, Ex

LEMMA PayNone ==
  ASSUME NEW a, HasBooks(a), NEW i
  PROVE  /\ HasBooks(Pay(a, i))
         /\ Pay(a, i).day = a.day
         /\ Pay(a, i).reserved = a.reserved
  BY DEF HasBooks, Pay

-----------------------------------------------------------------------------
(* Several orders end.                                                     *)

Frees(F, a, S) == F = [s \in SUBSET S |-> IF s = {} THEN a ELSE Release(F[s \ {One(s)}], One(s))]

LEMMA FreedIs ==
  ASSUME NEW a, NEW S \in SUBSET Orders
  PROVE  \E F : Folds(F, Releasing, a, S) /\ FreedOf(a, S) = F[S]
<1> DEFINE C == CHOOSE F : Frees(F, a, S)
<1>1. FreedOf(a, S) = C[S]
  BY DEF FreedOf, FoldSet, MapThenFoldSet, Frees, One
<1>2. \A F : Folds(F, Releasing, a, S) <=> Frees(F, a, S)
  BY DEF Folds, Frees, Releasing, OneMore, Taking
<1>3. \E F : Frees(F, a, S)
  BY <1>2, FoldExists, OrdersFinite, Chosen
<1>4. Frees(C, a, S)
  BY <1>3
<1> HIDE DEF C
<1> QED
  BY <1>1, <1>2, <1>4

\* Their reservations end, and no other.
LEMMA FreedAll ==
  ASSUME NEW a, HasBooks(a), NEW S \in SUBSET Orders
  PROVE  /\ HasBooks(FreedOf(a, S))
         /\ FreedOf(a, S).day = a.day
         /\ \A id \in S : FreedOf(a, S).reserved[id].side = "none"
         /\ \A id \in Orders \ S : FreedOf(a, S).reserved[id] = a.reserved[id]
<1>1. PICK F : Folds(F, Releasing, a, S) /\ FreedOf(a, S) = F[S]
  BY FreedIs
<1> DEFINE Fine(b, s) == /\ HasBooks(b) /\ b.day = a.day
                         /\ \A id \in s : b.reserved[id].side = "none"
                         /\ \A id \in Orders \ s : b.reserved[id] = a.reserved[id]
           Bad == {s \in SUBSET S : ~ Fine(F[s], s)}
<1>2. \A s \in SUBSET S : F[s] = IF s = {} THEN a ELSE Release(F[s \ {One(s)}], One(s))
  BY <1>1 DEF Folds, Releasing, OneMore, Taking
<1>3. ASSUME Bad # {} PROVE FALSE
  <2>1. PICK m \in Bad : \A t \in Bad : t \subseteq m => t = m
    <3>1. Bad \subseteq SUBSET S /\ IsFiniteSet(S)
      BY OrdersFinite
    <3> HIDE DEF Bad
    <3> QED BY <1>3, <3>1, SmallestSet
  <2>2. m # {}
    BY <1>2
  <2> DEFINE x == One(m)
             t == m \ {x}
  <2>3. x \in m /\ x \in Orders
    BY <2>2 DEF One
  <2>4. t \in SUBSET S /\ t \notin Bad
    BY <2>1, <2>3
  <2>5. Fine(F[t], t)
    BY <2>4
  <2>6. F[m] = Release(F[t], x)
    BY <1>2, <2>2
  <2>7. m = t \cup {x}
    BY <2>3
  <2> HIDE DEF x, t
  <2>8. Fine(F[m], m)
    <3>1. HasBooks(F[t]) /\ F[t].day = a.day
      BY <2>5
    <3>2. /\ HasBooks(F[m]) /\ F[m].day = a.day /\ F[m].reserved[x].side = "none"
          /\ \A id \in Orders \ {x} : F[m].reserved[id] = F[t].reserved[id]
      <4> DEFINE b == F[t]
      <4>1. HasBooks(b) /\ b.day = a.day /\ F[m] = Release(b, x)
        BY <2>6, <3>1
      <4> HIDE DEF b
      <4>2. /\ HasBooks(Release(b, x)) /\ Release(b, x).day = b.day
            /\ Release(b, x).reserved[x].side = "none"
            /\ \A id \in Orders \ {x} : Release(b, x).reserved[id] = b.reserved[id]
        BY <2>3, <4>1, ReleaseOne
      <4>3. b = F[t]
        BY DEF b
      <4> QED BY <4>1, <4>2, <4>3
    <3>3. \A id \in m : F[m].reserved[id].side = "none"
      BY <2>3, <2>5, <2>7, <3>2
    <3>4. \A id \in Orders \ m : F[m].reserved[id] = a.reserved[id]
      BY <2>3, <2>5, <2>7, <3>2
    <3> QED BY <3>2, <3>3, <3>4
  <2> QED
    BY <2>8
<1>4. Fine(F[S], S)
  BY <1>3
<1> QED
  BY <1>1, <1>4

-----------------------------------------------------------------------------
(* The corporate actions of a boundary.                                    *)

\* From account a to n, with the orders of n.ended cancelled and no other.
Ends(a, n) ==
  /\ {"ok", "a", "ended"} \subseteq DOMAIN n
  /\ HasBooks(n.a) /\ n.a.day = a.day
  /\ n.ended \subseteq Orders
  /\ \A id \in n.ended : n.a.reserved[id].side = "none"
  /\ \A id \in Orders \ n.ended : n.a.reserved[id] = a.reserved[id]

LEMMA EndsMore ==
  ASSUME NEW a, HasBooks(a), NEW n, Ends(a, n), NEW i, NEW phase
  PROVE  /\ Ends(a, Step(n, i, phase))
         /\ phase = "close" => Step(n, i, phase).ended = n.ended
<1>1. ASSUME NEW m, Ends(a, m), NEW b, HasBooks(b), b.day = m.a.day, b.reserved = m.a.reserved
      PROVE  Ends(a, [m EXCEPT !.a = b]) /\ [m EXCEPT !.a = b].ended = m.ended
  BY <1>1 DEF Ends
<1>2. ASSUME NEW m, Ends(a, m)
      PROVE  Ends(a, Registered(m, i, phase)) /\ Registered(m, i, phase).ended = m.ended
  <2>1. HasBooks(m.a)
    BY <1>2 DEF Ends
  <2>2. /\ HasBooks(Register(m.a, i)) /\ Register(m.a, i).day = m.a.day
        /\ Register(m.a, i).reserved = m.a.reserved
    <3> DEFINE b == m.a
    <3>1. HasBooks(b)
      BY <2>1
    <3> HIDE DEF b
    <3>2. HasBooks(Register(b, i)) /\ Register(b, i).day = b.day /\ Register(b, i).reserved = b.reserved
      BY <3>1, RegisterNone
    <3> QED BY <3>2 DEF b
  <2> QED
    BY <1>1, <1>2, <2>2 DEF Registered
<1>3. ASSUME NEW m, Ends(a, m)
      PROVE  Ends(a, Paid(m, i, phase)) /\ Paid(m, i, phase).ended = m.ended
  <2>1. HasBooks(m.a)
    BY <1>3 DEF Ends
  <2>2. HasBooks(Pay(m.a, i)) /\ Pay(m.a, i).day = m.a.day /\ Pay(m.a, i).reserved = m.a.reserved
    <3> DEFINE b == m.a
    <3>1. HasBooks(b)
      BY <2>1
    <3> HIDE DEF b
    <3>2. HasBooks(Pay(b, i)) /\ Pay(b, i).day = b.day /\ Pay(b, i).reserved = b.reserved
      BY <3>1, PayNone
    <3> QED BY <3>2 DEF b
  <2> QED
    BY <1>1, <1>3, <2>2 DEF Paid
<1>4. ASSUME NEW m, Ends(a, m), NEW H \in SUBSET Orders
      PROVE  Ends(a, Begins(m, i, H))
  <2> DEFINE b == m.a
             freed == FreedOf(b, H)
             e == Ex(freed, i)
  <2>1. HasBooks(b)
    BY <1>4 DEF Ends
  <2>2. /\ HasBooks(freed) /\ freed.day = b.day
        /\ \A id \in H : freed.reserved[id].side = "none"
        /\ \A id \in Orders \ H : freed.reserved[id] = b.reserved[id]
    <3> HIDE DEF b
    <3> QED BY <2>1, FreedAll
  <2>3. HasBooks(e) /\ e.day = freed.day /\ e.reserved = freed.reserved
    <3> HIDE DEF freed
    <3> QED BY <2>2, ExNone
  <2>4. CASE MayEx(freed, i)
    <3>1. Begins(m, i, H) = [m EXCEPT !.a = e, !.ended = @ \cup H]
      BY <2>4 DEF Begins, Begun
    <3>2. /\ e.day = a.day
          /\ \A id \in m.ended \cup H : e.reserved[id].side = "none"
          /\ \A id \in Orders \ (m.ended \cup H) : e.reserved[id] = a.reserved[id]
      <4> HIDE DEF freed, e
      <4> QED BY <1>4, <2>2, <2>3 DEF Ends
    <3> HIDE DEF freed, e
    <3> QED BY <1>4, <2>3, <3>1, <3>2 DEF Ends
  <2>5. CASE ~ MayEx(freed, i)
    <3>1. Begins(m, i, H) = [m EXCEPT !.ok = FALSE]
      BY <2>5 DEF Begins, Begun
    <3> QED BY <1>4, <3>1 DEF Ends
  <2> QED BY <2>4, <2>5
<1>5. ASSUME NEW m, Ends(a, m)
      PROVE  Ends(a, AtEx(m, i, phase)) /\ (phase = "close" => AtEx(m, i, phase).ended = m.ended)
  <2>1. HeldBy(m.a, Actions[i].s) \in SUBSET Orders
    BY DEF HeldBy
  <2> QED BY <1>4, <1>5, <2>1 DEF AtEx
<1> DEFINE r == Registered(n, i, phase)
           x == AtEx(r, i, phase)
<1>6. Ends(a, r) /\ r.ended = n.ended
  BY <1>2
<1> HIDE DEF r
<1>7. Ends(a, x) /\ (phase = "close" => x.ended = n.ended)
  BY <1>5, <1>6
<1> HIDE DEF x
<1>8. Ends(a, Paid(x, i, phase)) /\ (phase = "close" => Paid(x, i, phase).ended = n.ended)
  BY <1>3, <1>7
<1> QED
  BY <1>8 DEF Step, r, x

Advances(F, a, phase) ==
  F = [s \in SUBSET DOMAIN Actions |-> IF s = {} THEN [ok |-> TRUE, a |-> a, ended |-> {}]
                                       ELSE Step(F[s \ {Max(s)}], Max(s), phase)]

LEMMA ActionsFinite == IsFiniteSet(DOMAIN Actions) /\ DOMAIN Actions \subseteq Int
<1>1. Len(Actions) \in Nat /\ DOMAIN Actions = 1..Len(Actions)
  BY ActionShape
<1> QED
  BY <1>1, FS_Interval

\* Orders end at the opening of an ex session only, reservation and order together.
LEMMA Advanced ==
  ASSUME NEW a, HasBooks(a), NEW phase
  PROVE  /\ Ends(a, Advance(a, phase))
         /\ phase = "close" => Advance(a, phase).ended = {}
<1> DEFINE C == CHOOSE F : Advances(F, a, phase)
           S == DOMAIN Actions
           base == [ok |-> TRUE, a |-> a, ended |-> {}]
<1>1. Advance(a, phase) = C[S]
  BY DEF Advance, Ascending, MapThenFoldSet, Advances
<1>2. \A F : Folds(F, Acting(phase), base, S) <=> Advances(F, a, phase)
  BY DEF Folds, Advances, Acting, OneMore, Taking
<1>3. \E F : Advances(F, a, phase)
  <2> HIDE DEF S, base
  <2>1. IsFiniteSet(S) /\ S \subseteq Int
    BY ActionsFinite DEF S
  <2> QED BY <1>2, <2>1, FoldExists, Chosen
<1>4. Advances(C, a, phase)
  BY <1>3
<1> HIDE DEF C
<1>5. \A s \in SUBSET S : C[s] = IF s = {} THEN base ELSE Step(C[s \ {Max(s)}], Max(s), phase)
  BY <1>4 DEF Advances
<1> DEFINE Fine(n) == Ends(a, n) /\ (phase = "close" => n.ended = {})
           Bad == {s \in SUBSET S : ~ Fine(C[s])}
<1>6. ASSUME Bad # {} PROVE FALSE
  <2>1. PICK m \in Bad : \A t \in Bad : t \subseteq m => t = m
    <3>1. Bad \subseteq SUBSET S /\ IsFiniteSet(S)
      BY ActionsFinite
    <3> HIDE DEF Bad, S
    <3> QED BY <1>6, <3>1, SmallestSet
  <2>2. Fine(base)
    BY DEF Ends
  <2>3. m # {}
    BY <1>5, <2>2
  <2> DEFINE x == Max(m)
             t == m \ {x}
  <2>4. x \in m
    BY <2>3, ActionsFinite, GreatestNumber
  <2>5. t \in SUBSET S /\ t \notin Bad
    BY <2>1, <2>4
  <2>6. Fine(C[t])
    BY <2>5
  <2>7. C[m] = Step(C[t], x, phase)
    BY <1>5, <2>3
  <2> DEFINE n == C[t]
  <2> HIDE DEF x, t
  <2>8. Fine(n) /\ C[m] = Step(n, x, phase)
    BY <2>6, <2>7
  <2> HIDE DEF n
  <2>9. Fine(Step(n, x, phase))
    BY <2>8, EndsMore
  <2> QED
    BY <2>8, <2>9
<1>7. Fine(C[S])
  BY <1>6
<1> QED
  BY <1>1, <1>7

-----------------------------------------------------------------------------
(* Reservations end and begin: the account stays sound, and what it holds  *)
(* is what it held.                                                        *)

SameShares(a, b) ==
  /\ b.day = a.day /\ b.action = a.action
  /\ \A s \in Securities : b.position[s].quantity = a.position[s].quantity

\* An account has the parts that it is made of.
LEMMA AccountMade ==
  ASSUME NEW a \in AccountSet
  PROVE  /\ HasBooks(a)
         /\ a = [cash |-> a.cash, frozen |-> a.frozen, blocked |-> a.blocked, locks |-> a.locks, day |-> a.day,
                 realized |-> a.realized, receivable |-> a.receivable, action |-> a.action,
                 position |-> a.position, reserved |-> a.reserved]
<1>1. /\ a.day \in Nat /\ a.reserved \in [Orders -> ReservationSet]
  BY AccountFields
<1>2. \A r \in ReservationSet : {"side", "s", "left", "limit"} \subseteq DOMAIN r
  BY DEF ReservationSet
<1>3. {"reserved", "day"} \subseteq DOMAIN a
  BY DEF AccountSet
<1> QED
  BY <1>1, <1>2, <1>3 DEF HasBooks, AccountSet

LEMMA NoReservationFits ==
  /\ NoReservation \in ReservationSet /\ Booking(NoReservation) /\ NoReservation.cash = 0
  /\ \A s : SellLeft(NoReservation, s) = 0
  BY DEF NoReservation, ReservationSet, Booking, SellLeft

\* What a sound account says of one order and of the position it is about.
LEMMA SoundOrder ==
  ASSUME NEW a, Sound(a), NEW id \in Orders
  PROVE  LET r == a.reserved[id] IN
         /\ r \in ReservationSet /\ Booking(r) /\ r.cash \in Nat /\ r.cash <= a.frozen
         /\ Frozen(a) <= a.cash /\ a.frozen \in Nat /\ a.blocked \in Nat /\ a.cash \in Nat
         /\ r.side = "none" => r.cash = 0
         /\ \A s \in Securities : SellLeft(r, s) \in Nat /\ SellLeft(r, s) <= a.position[s].frozen
<1>1. a \in AccountSet /\ Bookings(a) /\ Freezes(a) /\ Money(a)
  BY DEF Sound
<1>2. /\ a.frozen \in Nat /\ a.blocked \in Nat /\ a.cash \in Nat /\ a.reserved \in [Orders -> ReservationSet]
  BY <1>1, AccountFields
<1>3. a.reserved[id] \in ReservationSet /\ Booking(a.reserved[id]) /\ a.reserved[id].cash \in Nat
  BY <1>1, <1>2 DEF Bookings, ReservationSet
<1>4. a.reserved[id].cash <= Reserved(a.reserved)
  BY <1>2, <1>3, ReservedChange
<1>5. \A s \in Securities : /\ SellLeft(a.reserved[id], s) \in Nat
                            /\ SellLeft(a.reserved[id], s) <= a.position[s].frozen
  BY <1>1, <1>2, <1>3, OrderedChange DEF Freezes
<1> QED
  BY <1>1, <1>2, <1>3, <1>4, <1>5 DEF Money, Booking

\* ... and what it says of one security.
LEMMA SoundHolding ==
  ASSUME NEW a, Sound(a), NEW s \in Securities
  PROVE  /\ a.position[s] \in PositionSet /\ Holding(a.position[s], s, a.day, Registers(a.action))
         /\ a.position[s].quantity \in Nat /\ a.position[s].frozen \in Nat /\ a.position[s].cost \in Nat
         /\ a.position[s].lots \in Seq(LotSet)
         /\ a.day \in Nat /\ \A i \in DOMAIN Actions : a.action[i] \in ActionSet
<1>1. a \in AccountSet /\ Holdings(a)
  BY DEF Sound
<1>2. a.position[s] \in PositionSet /\ a.day \in Nat /\ a.action \in [DOMAIN Actions -> ActionSet]
  BY <1>1, AccountFields
<1> QED
  BY <1>1, <1>2 DEF Holdings, PositionSet

\* When nothing is sold, nothing is sold of a dividend.
LEMMA RightsStay ==
  ASSUME NEW a, Sound(a), NEW b, b.action = a.action, NEW s, NEW p, p.lots = a.position[s].lots
  PROVE  RebooksRights(a, b, s, p)
  BY DEF RebooksRights, Sound, Sharing, SameRight

LEMMA ReleaseSound ==
  ASSUME NEW a, Sound(a), NEW id \in Orders
  PROVE  Sound(Release(a, id)) /\ SameShares(a, Release(a, id))
<1> DEFINE r == a.reserved[id]
           b == Release(a, id)
           p == IF r.side = "buy" THEN a.position[r.s]
                ELSE Kept([a.position[r.s] EXCEPT !.frozen = @ - r.left])
<1>1. /\ r \in ReservationSet /\ Booking(r) /\ r.cash \in Nat /\ r.cash <= a.frozen
      /\ Frozen(a) <= a.cash /\ a.frozen \in Nat /\ a.blocked \in Nat /\ a.cash \in Nat
      /\ r.side = "none" => r.cash = 0
      /\ \A s \in Securities : SellLeft(r, s) \in Nat /\ SellLeft(r, s) <= a.position[s].frozen
  BY SoundOrder
<1>2. CASE r.side = "none"
  BY <1>2 DEF Release, SameShares
<1>3. CASE r.side # "none"
  <2>1. r.s \in Securities /\ r.side \in {"buy", "sell"} /\ r.left \in Nat
    BY <1>1, <1>3 DEF Booking, ReservationSet
  <2> DEFINE q == a.position[r.s]
             f == q.frozen - SellLeft(r, r.s)
             n == [q EXCEPT !.frozen = f]
  <2>2. /\ q \in PositionSet /\ Holding(q, r.s, a.day, Registers(a.action)) /\ q.frozen \in Nat /\ a.day \in Nat
    BY <2>1, SoundHolding
  <2>3. SellLeft(r, r.s) = IF r.side = "sell" THEN r.left ELSE 0
    BY <2>1 DEF SellLeft
  <2>4. f \in Nat /\ f <= q.frozen
    BY <1>1, <2>1, <2>2
  <2>5. n \in PositionSet /\ n.quantity = q.quantity /\ n.cost = q.cost /\ n.lots = q.lots /\ n.frozen = f
    <3> HIDE DEF q, f
    <3> QED BY <2>2, <2>4 DEF PositionSet
  <2>6. Holding(n, r.s, a.day, Registers(a.action))
    <3> HIDE DEF n, f, q
    <3>1. Ripe(a.day) \in [LotSet -> Int] /\ q.lots \in Seq(LotSet)
      BY <2>2, LotMeasures DEF PositionSet
    <3>2. Weight(Ripe(a.day), q.lots) \in Int
      BY <3>1, WeightInteger, SMTT(40)
    <3> QED BY <2>2, <2>4, <2>5, <3>2 DEF Holding
  <2>7. /\ p \in PositionSet /\ Holding(p, r.s, a.day, Registers(a.action))
        /\ p.cost = q.cost /\ p.quantity = q.quantity /\ p.frozen = f /\ p.lots = q.lots
    <3>1. CASE r.side = "buy"
      BY <2>2, <2>3, <3>1
    <3>2. CASE r.side # "buy"
      <4>1. p = Kept(n)
        BY <2>1, <2>3, <3>2
      <4> HIDE DEF n, p, f, q
      <4> QED BY <2>2, <2>5, <2>6, <4>1, KeptHolding
    <3> QED BY <3>1, <3>2
  <2>8. /\ a \in AccountSet
        /\ b = [a EXCEPT !.frozen = @ - r.cash, !.reserved[id] = NoReservation, !.position[r.s] = p]
    BY <1>3, SMTT(40) DEF Release, Sound
  <2>9. b \in AccountSet
    <3>1. /\ a.frozen - r.cash \in Nat /\ [a.reserved EXCEPT ![id] = NoReservation] \in [Orders -> ReservationSet]
          /\ [a.position EXCEPT ![r.s] = p] \in [Securities -> PositionSet]
      <4>1. a.reserved \in [Orders -> ReservationSet] /\ a.position \in [Securities -> PositionSet]
        BY <2>8, AccountFields
      <4>2. a.frozen - r.cash \in Nat
        BY <1>1
      <4> HIDE DEF p, r
      <4> QED BY <2>7, <4>1, <4>2, NoReservationFits
    <3> DEFINE u == a.frozen - r.cash
               v == [a.reserved EXCEPT ![id] = NoReservation]
               w == [a.position EXCEPT ![r.s] = p]
    <3>2. b = [a EXCEPT !.frozen = u, !.reserved = v, !.position = w]
      BY <2>8
    <3> HIDE DEF u, v, w, b
    <3> QED BY <2>8, <3>1, <3>2 DEF AccountSet, u, v, w
  <2>10. /\ b.cash = a.cash /\ b.frozen = a.frozen - r.cash /\ b.blocked = a.blocked /\ b.locks = a.locks
         /\ b.day = a.day /\ b.realized = a.realized /\ b.receivable = a.receivable /\ b.action = a.action
         /\ b.position = [a.position EXCEPT ![r.s] = p] /\ b.reserved = [a.reserved EXCEPT ![id] = NoReservation]
    <3> HIDE DEF p, r, b
    <3> QED BY <2>8, AccountMade DEF AccountSet
  <2> HIDE DEF p, b, f, n
  <2>11. Rebooks(a, b, id, NoReservation, r.s, p)
    <3>1. a.blocked = Locked(a.locks) /\ a.realized \in Int /\ q.cost \in Nat
      BY <2>2, <2>8, AccountFields DEF Sound, Money, PositionSet
    <3>2. Frozen(b) <= b.cash
      BY <1>1, <2>10 DEF Frozen
    <3>3. b.frozen = a.frozen + NoReservation.cash - a.reserved[id].cash
      BY <1>1, <2>10, NoReservationFits
    <3>4. (b.cash + p.cost) - (a.cash + a.position[r.s].cost) = b.realized - a.realized
      BY <1>1, <2>7, <2>10, <3>1
    <3> QED BY <2>10, <3>1, <3>2, <3>3, <3>4 DEF Rebooks
  <2>12. RebooksRights(a, b, r.s, p)
    BY <2>7, <2>10, RightsStay
  <2>13. RebooksShares(a, id, NoReservation, r.s, p)
    <3>1. \A z : SellLeft(NoReservation, z) = 0
      BY NoReservationFits
    <3>2. \A z \in Securities \ {r.s} : SellLeft(r, z) = 0
      BY DEF SellLeft
    <3>3. p.frozen = q.frozen + 0 - SellLeft(r, r.s)
      BY <1>1, <2>1, <2>2, <2>7 DEF f
    <3> QED BY <3>1, <3>2, <3>3 DEF RebooksShares
  <2>14. Sound(b)
    <3> DEFINE s == r.s
    <3>1. NoReservation \in ReservationSet /\ Booking(NoReservation) /\ s \in Securities
      BY <2>1, NoReservationFits
    <3> QED BY <2>7, <2>9, <2>11, <2>12, <2>13, <3>1, Rebooked
  <2>15. SameShares(a, b)
    <3>1. a.position \in [Securities -> PositionSet]
      BY <2>8, AccountFields
    <3> QED BY <2>7, <2>10, <3>1 DEF SameShares
  <2> QED BY <2>14, <2>15 DEF b
<1> QED
  BY <1>2, <1>3

\* Any set of orders ends, as a close or a cancellation ends them: the account
\* stays sound, and what was reserved for them is free, of shares and of cash.
THEOREM FreedSound ==
  ASSUME NEW a, Sound(a), NEW S \in SUBSET Orders
  PROVE  Sound(FreedOf(a, S)) /\ SameShares(a, FreedOf(a, S))
<1>1. PICK F : Folds(F, Releasing, a, S) /\ FreedOf(a, S) = F[S]
  BY FreedIs
<1>2. \A s \in SUBSET S : F[s] = IF s = {} THEN a ELSE Release(F[s \ {One(s)}], One(s))
  BY <1>1 DEF Folds, Releasing, OneMore, Taking
<1> DEFINE Fine(b) == Sound(b) /\ SameShares(a, b)
           Bad == {s \in SUBSET S : ~ Fine(F[s])}
<1>3. ASSUME Bad # {} PROVE FALSE
  <2>1. PICK m \in Bad : \A t \in Bad : t \subseteq m => t = m
    <3>1. Bad \subseteq SUBSET S /\ IsFiniteSet(S)
      BY OrdersFinite
    <3> HIDE DEF Bad
    <3> QED BY <1>3, <3>1, SmallestSet
  <2>2. m # {}
    BY <1>2 DEF SameShares
  <2> DEFINE x == One(m)
             t == m \ {x}
             c == F[t]
  <2>3. x \in m /\ x \in Orders
    BY <2>2 DEF One
  <2>4. t \in SUBSET S /\ t \notin Bad
    BY <2>1, <2>3
  <2>5. Fine(c) /\ F[m] = Release(c, x)
    BY <1>2, <2>2, <2>4
  <2> HIDE DEF x, t, c
  <2>6. Sound(Release(c, x)) /\ SameShares(c, Release(c, x))
    BY <2>3, <2>5, ReleaseSound
  <2>7. Fine(F[m])
    BY <2>5, <2>6 DEF SameShares
  <2> QED BY <2>7
<1>4. Fine(F[S])
  BY <1>3
<1> QED
  BY <1>1, <1>4

\* When the orders of a security have ended, none of its shares are frozen.
LEMMA FreedHeld ==
  ASSUME NEW a, Sound(a), NEW s \in Securities
  PROVE  FreedOf(a, HeldBy(a, s)).position[s].frozen = 0
<1> DEFINE H == HeldBy(a, s)
           b == FreedOf(a, H)
<1>1. H \in SUBSET Orders
  BY DEF HeldBy
<1>2. Sound(b) /\ HasBooks(a)
  BY <1>1, FreedSound, AccountMade DEF Sound
<1>3. /\ \A id \in H : b.reserved[id].side = "none"
      /\ \A id \in Orders \ H : b.reserved[id] = a.reserved[id]
  BY <1>1, <1>2, FreedAll
<1>4. \A id \in Orders : SellLeft(b.reserved[id], s) = 0
  <2> SUFFICES ASSUME NEW id \in Orders PROVE SellLeft(b.reserved[id], s) = 0
    OBVIOUS
  <2>1. CASE id \in H
    BY <1>3, <2>1 DEF SellLeft
  <2>2. CASE id \notin H
    <3>1. b.reserved[id] = a.reserved[id] /\ ~ (a.reserved[id].side # "none" /\ a.reserved[id].s = s)
      <4>1. ~ (a.reserved[id].side # "none" /\ a.reserved[id].s = s)
        BY <2>2 DEF HeldBy
      <4> QED BY <1>3, <2>2, <4>1
    <3> QED BY <3>1 DEF SellLeft
  <2> QED BY <2>1, <2>2
<1> HIDE DEF b, H
<1>5. b.position[s].frozen = Ordered(b.reserved, s)
  BY <1>2 DEF Sound, Freezes
<1>6. Ordered(b.reserved, s) = 0
  <2> DEFINE g == [id \in Orders |-> SellLeft(b.reserved[id], s)]
             T == {}
  <2>1. /\ g \in [Orders -> Int] /\ IsFiniteSet(Orders) /\ T \in SUBSET Orders
        /\ \A x \in Orders \ T : g[x] = 0
    BY <1>4, AccountParts
  <2>2. Ordered(b.reserved, s) = SumFunction(g)
    BY DEF Ordered
  <2> HIDE DEF g, T
  <2>3. SumFunction(g) = SumFunction(Restrict(g, T))
    BY <2>1, SumInside
  <2>4. SumFunction(Restrict(g, T)) = 0
    BY SumNone DEF T
  <2> QED BY <2>2, <2>3, <2>4
<1> QED
  BY <1>5, <1>6 DEF b, H

\* The account of a run that has not begun.
LEMMA NewSound ==
  Sound(NewAccount) /\ \A s \in Securities : NewAccount.position[s].quantity = 0
<1> DEFINE a == NewAccount
<1>1. /\ a.cash = InitialCash /\ a.frozen = 0 /\ a.blocked = 0 /\ a.locks = [d \in Days |-> 0] /\ a.day = 0
      /\ a.realized = 0 /\ a.receivable = 0 /\ a.action = [i \in DOMAIN Actions |-> NoAction]
      /\ a.position = [s \in Securities |-> NoPosition] /\ a.reserved = [id \in Orders |-> NoReservation]
  BY DEF NewAccount
<1>2. <<>> \in Seq(LotSet) /\ DOMAIN <<>> = {} /\ Len(<<>>) = 0
  OBVIOUS
<1>3. NoPosition \in PositionSet /\ NoPosition.frozen = 0 /\ NoPosition.cost = 0 /\ NoPosition.quantity = 0
      /\ NoPosition.lots = <<>>
  BY <1>2 DEF NoPosition, PositionSet
<1>4. /\ NoAction \in ActionSet /\ ~ NoAction.registered /\ ~ NoAction.ex /\ ~ NoAction.paid
      /\ NoAction.recorded = <<>> /\ NoAction.gross = 0 /\ NoAction.initial = 0 /\ NoAction.withheld = 0
      /\ NoAction.sold = [b \in 1..3 |-> 0]
  BY <1>2 DEF NoAction, ActionSet
<1>5. a \in AccountSet
  <2>1. InitialCash \in Nat /\ 0 \in 0..Sessions
    BY AccountShape
  <2>2. /\ [d \in Days |-> 0] \in [Days -> Nat] /\ [i \in DOMAIN Actions |-> NoAction] \in [DOMAIN Actions -> ActionSet]
        /\ [s \in Securities |-> NoPosition] \in [Securities -> PositionSet]
        /\ [id \in Orders |-> NoReservation] \in [Orders -> ReservationSet]
    BY <1>3, <1>4, NoReservationFits
  <2> QED BY <2>1, <2>2 DEF NewAccount, AccountSet
<1>6. \A f \in [LotSet -> Int] : Weight(f, <<>>) = 0
  <2> SUFFICES ASSUME NEW f \in [LotSet -> Int] PROVE Weight(f, <<>>) = 0
    OBVIOUS
  <2> DEFINE e == <<>>
  <2>1. e \in Seq(LotSet) /\ e = <<>>
    BY <1>2
  <2> HIDE DEF e
  <2>2. Weight(f, e) = 0
    BY <2>1, WeightInteger, ZenonT(40)
  <2> QED BY <2>1, <2>2
<1>7. /\ Sizes \in [LotSet -> Int] /\ Ripe(0) \in [LotSet -> Int]
      /\ \A i : GrossOf(i) \in [LotSet -> Int] /\ InitialOf(i) \in [LotSet -> Int]
  BY 0 \in Nat, LotMeasures
<1>8. SoldOf(NoAction) = 0
  <2> DEFINE S == 1..3
             T == {}
             g == [b \in S |-> NoAction.sold[b]]
  <2>0. IsFiniteSet(S)
    BY 1 \in Int, 3 \in Int, FS_Interval
  <2>1. T \in SUBSET S /\ g \in [S -> Int] /\ \A b \in S \ T : g[b] = 0
    BY <1>4
  <2>2. SoldOf(NoAction) = SumFunction(g)
    BY DEF SoldOf, Total
  <2> HIDE DEF S, T, g
  <2>3. SumFunction(g) = SumFunction(Restrict(g, T))
    BY <2>0, <2>1, SumInside
  <2> QED BY <2>2, <2>3, SumNone DEF T
<1>9. \A S : IsFiniteSet(S) => SumFunction([x \in S |-> 0]) = 0
  <2> SUFFICES ASSUME NEW S, IsFiniteSet(S) PROVE SumFunction([x \in S |-> 0]) = 0
    OBVIOUS
  <2> DEFINE T == {}
             g == [x \in S |-> 0]
  <2>1. T \in SUBSET S /\ g \in [S -> Int] /\ \A b \in S \ T : g[b] = 0
    OBVIOUS
  <2> HIDE DEF T, g
  <2>2. SumFunction(g) = SumFunction(Restrict(g, T))
    BY <2>1, SumInside
  <2>3. SumFunction(g) = 0
    BY <2>2, SumNone DEF T
  <2> QED BY <2>3 DEF g
<1>10. Holdings(a)
  <2>1. \A s, R : FineLots(<<>>, s, 0, R)
    BY <1>2 DEF FineLots
  <2> QED BY <1>1, <1>3, <1>6, <1>7, <2>1 DEF Holdings, Holding
<1>11. Bookings(a) /\ Freezes(a)
  <2>1. \A s : Ordered(a.reserved, s) = 0
    <3>1. \A s : [id \in Orders |-> SellLeft(a.reserved[id], s)] = [id \in Orders |-> 0]
      BY <1>1, NoReservationFits
    <3> QED BY <1>9, <3>1, AccountParts DEF Ordered
  <2> QED BY <1>1, <1>3, <2>1, NoReservationFits DEF Bookings, Freezes
<1>12. Rights(a) /\ Sharing(a)
  <2>1. Right(NoAction, 0) /\ \A i : Unpaid(NoAction, i)
    BY <1>2, <1>4, <1>8 DEF Right, Unpaid
  <2>2. \A i \in DOMAIN Actions : Shared(NoAction, i, <<>>)
    <3> SUFFICES ASSUME NEW i \in DOMAIN Actions PROVE Shared(NoAction, i, <<>>)
      OBVIOUS
    <3>1. Weight(GrossOf(i), <<>>) = 0 /\ Weight(InitialOf(i), <<>>) = 0
      BY <1>6, <1>7
    <3> QED BY <1>4, <1>8, <3>1 DEF Shared
  <2>3. \A i \in DOMAIN Actions : a.position[Actions[i].s].lots = <<>>
    BY <1>1, <1>3, AccountParts
  <2> QED BY <1>1, <2>1, <2>2, <2>3 DEF Rights, Sharing
<1>13. Money(a)
  <2>1. Reserved(a.reserved) = 0
    <3>1. [id \in Orders |-> a.reserved[id].cash] = [id \in Orders |-> 0]
      BY <1>1, NoReservationFits
    <3> QED BY <1>9, <3>1, AccountParts DEF Reserved
  <2>2. Locked(a.locks) = 0
    <3>1. [d \in Days |-> a.locks[d]] = [d \in Days |-> 0]
      BY <1>1
    <3> QED BY <1>9, <3>1, AccountParts DEF Locked
  <2>3. Costs(a.position) = 0
    <3>1. [s \in Securities |-> a.position[s].cost] = [s \in Securities |-> 0]
      BY <1>1, <1>3
    <3> QED BY <1>9, <3>1, AccountParts DEF Costs
  <2>4. Coming(a.action) = 0
    <3>1. [i \in DOMAIN Actions |-> NetDue(a.action[i])] = [i \in DOMAIN Actions |-> 0]
      BY <1>1, <1>4 DEF NetDue
    <3> QED BY <1>9, <3>1, AccountParts DEF Coming
  <2>5. InitialCash \in Nat
    BY AccountShape
  <2> QED BY <1>1, <2>1, <2>2, <2>3, <2>4, <2>5 DEF Money, Frozen
<1>14. \A s \in Securities : a.position[s].quantity = 0
  BY <1>1, <1>3
<1> QED
  BY <1>5, <1>10, <1>11, <1>12, <1>13, <1>14 DEF Sound

-----------------------------------------------------------------------------
(* Shares are disposed of, and the tax on the dividends sold with them.    *)

LEMMA DueInteger ==
  ASSUME NEW i \in DOMAIN Actions, NEW x \in ActionSet
  PROVE  Due(i, x) \in Int
<1>1. CASE Actions[i].kind # "dividend"
  BY <1>1 DEF Due
<1>2. CASE Actions[i].kind = "dividend"
  <2> DEFINE S == 1..3
             rates == Actions[i].rates
             g == [b \in S |-> Settled(x.sold[b] * rates[b], 10)]
  <2>1. IsFiniteSet(S)
    BY 1 \in Int, 3 \in Int, FS_Interval
  <2>2. rates \in [S -> 0..10] /\ x.sold \in [S -> Nat] /\ x.withheld \in Nat
    BY <1>2, ActionShape DEF ActionSet
  <2>3. g \in [S -> Int]
    <3>1. \A b \in S : x.sold[b] * rates[b] \in Int
      <4> SUFFICES ASSUME NEW b \in S PROVE x.sold[b] * rates[b] \in Int
        OBVIOUS
      <4>1. x.sold[b] \in Int /\ rates[b] \in Int
        BY <2>2
      <4> QED BY <4>1
    <3>2. \A b \in S : Settled(x.sold[b] * rates[b], 10) \in Int
      <4> SUFFICES ASSUME NEW b \in S PROVE Settled(x.sold[b] * rates[b], 10) \in Int
        OBVIOUS
      <4> DEFINE m == x.sold[b] * rates[b]
      <4>1. m \in Int /\ 10 \in Nat \ {0}
        BY <3>1
      <4> HIDE DEF m
      <4>2. Settled(m, 10) \in Int
        BY <4>1, SettledInteger
      <4> QED BY <4>2 DEF m
    <3> QED BY <3>2
  <2>4. Due(i, x) = Settled(SumFunction(g) - x.withheld, 1)
    BY <1>2 DEF Due, Total
  <2> HIDE DEF g, S, rates
  <2>5. SumFunction(g) \in Int
    BY <2>1, <2>3, SumInteger
  <2> DEFINE n == SumFunction(g) - x.withheld
  <2>6. n \in Int
    BY <2>2, <2>5
  <2> HIDE DEF n
  <2>7. Settled(n, 1) \in Int
    BY <2>6, SettledInteger
  <2> QED BY <2>4, <2>7 DEF n
<1> QED
  BY <1>1, <1>2

\* Lots, actions and tax after q shares of s.
DisposesAll(d, a, s, q) ==
  LET lots == a.position[s].lots IN
  /\ d.tax \in Int /\ d.action \in [DOMAIN Actions -> ActionSet]
  /\ FineLots(d.lots, s, a.day, Registers(a.action))
  /\ Weight(Sizes, d.lots) = Weight(Sizes, lots) - q
  /\ Weight(Ripe(a.day), d.lots) = Weight(Ripe(a.day), lots) - q
  /\ \A i \in DOMAIN Actions :
       /\ SameRight(d.action[i], a.action[i])
       /\ i \notin Registers(a.action) =>
            SoldOf(d.action[i]) = SoldOf(a.action[i]) /\ d.action[i].withheld = a.action[i].withheld
       /\ Weight(GrossOf(i), d.lots) + SoldOf(d.action[i]) = Weight(GrossOf(i), lots) + SoldOf(a.action[i])
       /\ Weight(InitialOf(i), d.lots) + d.action[i].withheld = Weight(InitialOf(i), lots) + a.action[i].withheld

LEMMA DisposedAll ==
  ASSUME NEW a, Sound(a), NEW s \in Securities, NEW q \in Nat, q <= Weight(Ripe(a.day), a.position[s].lots)
  PROVE  DisposesAll(Disposed(a, s, q), a, s, q)
<1> DEFINE n == Taken(a, s, q)
           lots == a.position[s].lots
           R == Registers(a.action)
           owed == [i \in DOMAIN Actions |-> Due(i, n.action[i])]
           d == Taxed(a, n, owed)
           act == [i \in DOMAIN Actions |-> [n.action[i] EXCEPT !.extra = owed[i]]]
           A == DOMAIN Actions
           g == [i \in A |-> owed[i] - a.action[i].extra]
<1>1. /\ FineLots(lots, s, a.day, R) /\ a.day \in Nat /\ a.action \in [A -> ActionSet]
  BY SoundHolding, AccountFields DEF Holding, Sound
<1>2. n = LotsTaken(lots, q, a.action, a.day)
  BY DEF Taken, LotsTaken
<1>3. TookAll(n, lots, q, a.action, s, a.day, R)
  <2> HIDE DEF lots, R, n
  <2>1. q <= Weight(Ripe(a.day), lots)
    BY DEF lots
  <2> DEFINE day == a.day
             action == a.action
  <2>2. /\ FineLots(lots, s, day, R) /\ day \in Nat /\ action \in [DOMAIN Actions -> ActionSet]
        /\ q <= Weight(Ripe(day), lots) /\ n = LotsTaken(lots, q, action, day)
    BY <1>1, <1>2, <2>1
  <2> HIDE DEF day, action
  <2>3. TookAll(n, lots, q, action, s, day, R)
    BY <2>2, TakenAll
  <2> QED BY <2>3 DEF day, action
<1> HIDE DEF n
<1>4. n.action \in [A -> ActionSet] /\ FineLots(n.lots, s, a.day, R)
  BY <1>3 DEF TookAll, SellState
<1>5. \A i \in A : owed[i] \in Int
  BY <1>4, DueInteger
<1>6. /\ d = [lots |-> n.lots, tax |-> SumFunction(g), action |-> act]
  BY DEF Taxed, Total
<1>7. Disposed(a, s, q) = d
  BY DEF Disposed, n
<1>8. SumFunction(g) \in Int
  <2>1. g \in [A -> Int] /\ IsFiniteSet(A)
    <3>1. \A i \in A : a.action[i].extra \in Int
      BY <1>1 DEF ActionSet
    <3> QED BY <1>5, <3>1, AccountParts
  <2> HIDE DEF g
  <2> QED BY <2>1, SumInteger
<1> HIDE DEF d, g, owed
<1>9. \A i \in A : /\ act[i] \in ActionSet /\ SameRight(act[i], n.action[i]) /\ SoldOf(act[i]) = SoldOf(n.action[i])
                   /\ act[i].withheld = n.action[i].withheld
  <2> SUFFICES ASSUME NEW i \in A
               PROVE  /\ act[i] \in ActionSet /\ SameRight(act[i], n.action[i]) /\ SoldOf(act[i]) = SoldOf(n.action[i])
                      /\ act[i].withheld = n.action[i].withheld
    OBVIOUS
  <2> DEFINE x == n.action[i]
             v == owed[i]
             y == [x EXCEPT !.extra = v]
  <2>1. act[i] = y /\ x \in ActionSet /\ v \in Int
    BY <1>4, <1>5
  <2> HIDE DEF x, v
  <2>2. y \in ActionSet /\ SameRight(y, x) /\ y.sold = x.sold /\ y.withheld = x.withheld
    BY <2>1 DEF ActionSet, SameRight
  <2>3. SoldOf(y) = SoldOf(x)
    BY <2>2 DEF SoldOf
  <2> QED BY <2>1, <2>2, <2>3 DEF x
<1>10. act \in [A -> ActionSet]
  BY <1>9
<1>11. d.lots = n.lots /\ d.tax = SumFunction(g) /\ d.action = act
  BY <1>6
<1> HIDE DEF act
<1>12. \A i \in A :
         /\ SameRight(d.action[i], a.action[i])
         /\ i \notin R => SoldOf(d.action[i]) = SoldOf(a.action[i]) /\ d.action[i].withheld = a.action[i].withheld
         /\ Weight(GrossOf(i), d.lots) + SoldOf(d.action[i]) = Weight(GrossOf(i), lots) + SoldOf(a.action[i])
         /\ Weight(InitialOf(i), d.lots) + d.action[i].withheld = Weight(InitialOf(i), lots) + a.action[i].withheld
  <2> SUFFICES ASSUME NEW i \in A
               PROVE  /\ SameRight(d.action[i], a.action[i])
                      /\ i \notin R => SoldOf(d.action[i]) = SoldOf(a.action[i]) /\ d.action[i].withheld = a.action[i].withheld
                      /\ Weight(GrossOf(i), d.lots) + SoldOf(d.action[i]) = Weight(GrossOf(i), lots) + SoldOf(a.action[i])
                      /\ Weight(InitialOf(i), d.lots) + d.action[i].withheld
                           = Weight(InitialOf(i), lots) + a.action[i].withheld
    OBVIOUS
  <2>1. /\ SameRight(n.action[i], a.action[i]) /\ (i \notin R => n.action[i] = a.action[i])
        /\ Weight(GrossOf(i), n.lots) + SoldOf(n.action[i]) = Weight(GrossOf(i), lots) + SoldOf(a.action[i])
        /\ Weight(InitialOf(i), n.lots) + n.action[i].withheld = Weight(InitialOf(i), lots) + a.action[i].withheld
    BY <1>3 DEF TookAll, FirstRights
  <2>2. /\ SameRight(d.action[i], n.action[i]) /\ SoldOf(d.action[i]) = SoldOf(n.action[i])
        /\ d.action[i].withheld = n.action[i].withheld /\ d.lots = n.lots
    BY <1>9, <1>11
  <2>3. SameRight(d.action[i], a.action[i])
    BY <2>1, <2>2 DEF SameRight
  <2> QED BY <2>1, <2>2, <2>3
<1>13. /\ Weight(Sizes, d.lots) = Weight(Sizes, lots) - q
       /\ Weight(Ripe(a.day), d.lots) = Weight(Ripe(a.day), lots) - q
  BY <1>3, <1>11 DEF TookAll
<1>14. DisposesAll(d, a, s, q)
  BY <1>4, <1>8, <1>10, <1>11, <1>12, <1>13 DEF DisposesAll
<1> QED
  BY <1>7, <1>14

\* The commission of what an order traded is never less than what it paid before.
LEMMA ChargeNatural ==
  ASSUME NEW r \in ReservationSet, r.paid <= Commission(r.notional), NEW value \in Nat
  PROVE  /\ Charge(r, value) \in Nat
         /\ r.paid + Charge(r, value) = Commission(r.notional + value)
<1>1. r.notional \in Nat /\ r.paid \in Nat
  BY DEF ReservationSet
<1> DEFINE m == r.notional
           n == r.notional + value
<1>2. m \in Nat /\ n \in Nat /\ m <= n
  BY <1>1
<1> HIDE DEF n, m
<1>3. Commission(m) \in Nat /\ Commission(n) \in Nat /\ Commission(m) <= Commission(n)
  BY <1>2, CommissionGrows
<1> QED
  BY <1>1, <1>3 DEF Charge, m, n

\* A reservation that has just been made, for an order of some price.
NewReservation(r) ==
  /\ r \in ReservationSet /\ r.side # "none" /\ r.s \in Securities
  /\ r.notional = 0 /\ r.paid = 0 /\ r.cash = 0

\* What it freezes is there.
LEMMA NeedsFit ==
  ASSUME NEW a, Sound(a), NEW r, NewReservation(r), MayReserve(a, r)
  PROVE  Needs(a, r) \in Nat /\ Needs(a, r) <= Available(a)
<1>1. r \in ReservationSet /\ r.left \in Nat /\ r.estimate \in Nat /\ r.side \in {"buy", "sell"} /\ r.s \in Securities
      /\ r.paid = 0 /\ r.notional = 0
  BY DEF NewReservation, ReservationSet
<1>2. Available(a) \in Nat
  <2>1. a.cash \in Nat /\ a.frozen \in Nat /\ a.blocked \in Nat /\ Frozen(a) <= a.cash
    BY AccountFields DEF Sound, Money
  <2> QED BY <2>1 DEF Available, Frozen
<1> DEFINE value == r.left * r.estimate
           fee == Charge(r, value)
           tax == Disposed(a, r.s, r.left).tax
<1>3. value \in Nat
  BY <1>1
<1>4. fee \in Nat
  <2>1. r.paid <= Commission(r.notional)
    BY <1>1, 0 \in Nat, CommissionGrows
  <2> HIDE DEF value
  <2> QED BY <1>1, <1>3, <2>1, ChargeNatural
<1>5. CASE r.side = "buy"
  <2>1. Needs(a, r) = Lesser(value + fee, Available(a))
    BY <1>5 DEF Needs
  <2> HIDE DEF value, fee
  <2> QED BY <1>2, <1>3, <1>4, <2>1 DEF Lesser
<1>6. CASE r.side = "sell"
  <2>1. Needs(a, r) = Greater(0, fee + tax - value) /\ Needs(a, r) <= Available(a) /\ Legal(a, r.s, r.side, r.left)
    BY <1>6 DEF Needs, MayReserve
  <2>2. r.left <= Weight(Ripe(a.day), a.position[r.s].lots)
    <3>1. r.left <= Sellable(a, r.s)
      BY <1>6, <2>1 DEF Legal
    <3> DEFINE s == r.s
    <3>2. s \in Securities
      BY <1>1
    <3> HIDE DEF s
    <3>3. /\ Eligible(a, s) = Weight(Ripe(a.day), a.position[s].lots) /\ Eligible(a, s) \in Nat
          /\ a.position[s].frozen \in Nat /\ Sellable(a, s) = Eligible(a, s) - a.position[s].frozen
      BY <3>2, SoundSellable
    <3> QED BY <1>1, <3>1, <3>3 DEF s
  <2>3. tax \in Int
    <3> DEFINE s == r.s
               q == r.left
    <3>1. s \in Securities /\ q \in Nat /\ q <= Weight(Ripe(a.day), a.position[s].lots)
      BY <1>1, <2>2
    <3> HIDE DEF s, q
    <3>2. DisposesAll(Disposed(a, s, q), a, s, q)
      BY <3>1, DisposedAll
    <3> QED BY <3>2 DEF DisposesAll, s, q
  <2> HIDE DEF value, fee, tax
  <2> QED BY <1>2, <1>3, <1>4, <2>1, <2>3 DEF Greater
<1> QED
  BY <1>1, <1>5, <1>6

\* A reservation freezes only cash and shares that are free, so that a sound
\* account stays sound when an order is placed.
THEOREM ReserveSound ==
  ASSUME NEW a, Sound(a), NEW id \in Orders, a.reserved[id].side = "none",
         NEW r, NewReservation(r), MayReserve(a, r)
  PROVE  Sound(Reserve(a, id, r)) /\ SameShares(a, Reserve(a, id, r))
<1> DEFINE cash == Needs(a, r)
           b == Reserve(a, id, r)
           new == [r EXCEPT !.cash = cash]
           s == r.s
           q == a.position[s]
           f == q.frozen + SellLeft(r, s)
           p == [q EXCEPT !.frozen = f]
           F == a.frozen + cash
<1>1. r \in ReservationSet /\ r.side \in {"buy", "sell"} /\ s \in Securities /\ r.left \in Nat /\ r.paid = 0 /\ r.notional = 0
  BY DEF NewReservation, ReservationSet
<1>2. cash \in Nat /\ cash <= Available(a)
  BY NeedsFit
<1>3. /\ a \in AccountSet /\ q \in PositionSet /\ Holding(q, s, a.day, Registers(a.action)) /\ q.frozen \in Nat
  BY <1>1, SoundHolding DEF Sound
<1>4. SellLeft(r, s) = (IF r.side = "sell" THEN r.left ELSE 0) /\ SellLeft(r, s) \in Nat
      /\ \A z \in Securities \ {s} : SellLeft(r, z) = 0
  BY <1>1 DEF SellLeft
<1>5. f \in Nat /\ f <= Weight(Ripe(a.day), q.lots)
  <2>1. /\ Eligible(a, s) = Weight(Ripe(a.day), q.lots) /\ Eligible(a, s) \in Nat
        /\ q.frozen \in Nat /\ Sellable(a, s) = Eligible(a, s) - q.frozen /\ Sellable(a, s) >= 0
    <3> HIDE DEF s
    <3> QED BY <1>1, SoundSellable
  <2>2. r.side = "sell" => r.left <= Sellable(a, s)
    BY DEF MayReserve, Legal
  <2> QED BY <1>1, <1>4, <2>1, <2>2
<1>6. p \in PositionSet /\ p.quantity = q.quantity /\ p.cost = q.cost /\ p.lots = q.lots /\ p.frozen = f
  <2> HIDE DEF q, f
  <2> QED BY <1>3, <1>5 DEF PositionSet
<1>7. Holding(p, s, a.day, Registers(a.action))
  <2> HIDE DEF p, q, f, s
  <2> QED BY <1>3, <1>5, <1>6 DEF Holding
<1>8. /\ new \in ReservationSet /\ new.cash = cash /\ new.side = r.side /\ new.s = s /\ new.left = r.left
      /\ new.paid = r.paid /\ new.notional = r.notional
  <2> HIDE DEF cash
  <2> QED BY <1>1, <1>2 DEF ReservationSet
<1>9. Booking(new)
  <2>1. 0 <= Commission(0)
    BY 0 \in Nat, CommissionGrows
  <2> HIDE DEF new
  <2> QED BY <1>1, <1>8, <2>1 DEF Booking
<1>10. \A z : SellLeft(new, z) = SellLeft(r, z)
  <2> HIDE DEF new
  <2> QED BY <1>8 DEF SellLeft
<1> DEFINE v == [a.reserved EXCEPT ![id] = new]
           w == [a.position EXCEPT ![s] = p]
<1>11. b = [a EXCEPT !.frozen = F, !.reserved = v, !.position = w]
  <2>1. b = [a EXCEPT !.frozen = @ + cash, !.reserved[id] = new, !.position[s].frozen = @ + SellLeft(r, s)]
    BY <1>4 DEF Reserve, Froze
  <2>2. a.position \in [Securities -> PositionSet]
    BY <1>3, AccountFields
  <2>3. [a.position EXCEPT ![s].frozen = @ + SellLeft(r, s)] = w
    BY <2>2
  <2> HIDE DEF b, new, cash, w
  <2> QED BY <2>1, <2>3
<1>12. F \in Nat /\ v \in [Orders -> ReservationSet] /\ w \in [Securities -> PositionSet]
  <2>1. a.frozen \in Nat /\ a.reserved \in [Orders -> ReservationSet] /\ a.position \in [Securities -> PositionSet]
    BY <1>3, AccountFields
  <2>2. v \in [Orders -> ReservationSet]
    <3> HIDE DEF new
    <3> QED BY <1>8, <2>1
  <2>3. w \in [Securities -> PositionSet]
    <3> HIDE DEF p
    <3> QED BY <1>6, <2>1
  <2>4. F \in Nat
    <3> HIDE DEF cash
    <3> QED BY <1>2, <2>1
  <2> QED BY <2>2, <2>3, <2>4
<1> HIDE DEF F, v, w, b
<1>13. b \in AccountSet
  BY <1>3, <1>11, <1>12 DEF AccountSet
<1>14. /\ b.cash = a.cash /\ b.frozen = F /\ b.blocked = a.blocked /\ b.locks = a.locks
       /\ b.day = a.day /\ b.realized = a.realized /\ b.receivable = a.receivable /\ b.action = a.action
       /\ b.position = w /\ b.reserved = v
  BY <1>3, <1>11 DEF AccountSet
<1> HIDE DEF p, new, f, q, cash, s
<1>15. a.reserved[id].cash = 0 /\ \A z : SellLeft(a.reserved[id], z) = 0
  <2>1. a.reserved[id].cash = 0
    BY SoundOrder
  <2> QED BY <2>1 DEF SellLeft
<1>16. Rebooks(a, b, id, new, s, p)
  <2>1. a.blocked = Locked(a.locks) /\ a.realized \in Int /\ q.cost \in Nat /\ a.cash \in Nat /\ a.frozen \in Nat /\ a.blocked \in Nat
    BY <1>3, AccountFields DEF Sound, Money, PositionSet
  <2>2. Frozen(b) <= b.cash
    BY <1>2, <1>14, <2>1 DEF Frozen, Available, F
  <2>3. b.frozen = a.frozen + new.cash - a.reserved[id].cash
    BY <1>2, <1>8, <1>14, <1>15, <2>1 DEF F
  <2>4. (b.cash + p.cost) - (a.cash + a.position[s].cost) = b.realized - a.realized
    BY <1>6, <1>14, <2>1 DEF q
  <2> QED BY <1>14, <2>1, <2>2, <2>3, <2>4 DEF Rebooks, v, w
<1>17. RebooksRights(a, b, s, p)
  BY <1>6, <1>14, RightsStay DEF q
<1>18. RebooksShares(a, id, new, s, p)
  <2>1. p.frozen = q.frozen + SellLeft(new, s) - 0
    BY <1>3, <1>4, <1>6, <1>10 DEF f
  <2> QED BY <1>4, <1>10, <1>15, <2>1 DEF RebooksShares, q
<1>19. Sound(b)
  BY <1>1, <1>6, <1>7, <1>8, <1>9, <1>13, <1>16, <1>17, <1>18, Rebooked
<1>20. SameShares(a, b)
  <2>1. a.position \in [Securities -> PositionSet]
    BY <1>3, AccountFields
  <2> QED BY <1>1, <1>6, <1>14, <2>1 DEF SameShares, w, q
<1> QED
  BY <1>19, <1>20 DEF b

-----------------------------------------------------------------------------
(* Fills: shares and cash change hands, and the books stay balanced.       *)

\* More shares of s, with what is claimed on them as it was.
JoinsLots(new, a, s, q) ==
  LET lots == a.position[s].lots IN
  /\ FineLots(new, s, a.day, Registers(a.action))
  /\ Weight(Sizes, new) = Weight(Sizes, lots) + q
  /\ Weight(Ripe(a.day), new) >= Weight(Ripe(a.day), lots)
  /\ \A i : Weight(GrossOf(i), new) = Weight(GrossOf(i), lots) /\ Weight(InitialOf(i), new) = Weight(InitialOf(i), lots)

LEMMA WithLotAll ==
  ASSUME NEW a, Sound(a), NEW s \in Securities, NEW q \in Nat \ {0}
  PROVE  JoinsLots(WithLot(a, s, q), a, s, q)
<1> DEFINE lots == a.position[s].lots
           day == a.day
           R == Registers(a.action)
           from == IF s \in SameDay THEN day ELSE day + 1
           n == Len(lots)
           last == lots[n]
           joins == lots # <<>> /\ last.acquired = day /\ last.from = from /\ DOMAIN last.claims = {}
           new == WithLot(a, s, q)
           l == [acquired |-> day, from |-> from, quantity |-> q, claims |-> <<>>]
           m == [last EXCEPT !.quantity = @ + q]
<1>1. day \in Nat /\ lots \in Seq(LotSet) /\ FineLots(lots, s, day, R) /\ from \in Nat
  BY SoundHolding DEF Holding
<1>2. /\ Sizes \in [LotSet -> Int] /\ Ripe(day) \in [LotSet -> Int]
      /\ \A i : GrossOf(i) \in [LotSet -> Int] /\ InitialOf(i) \in [LotSet -> Int]
  BY <1>1, LotMeasures
<1>3. \A f \in [LotSet -> Int] : Weight(f, lots) \in Int
  BY <1>1, WeightInteger
<1>4. new = IF joins THEN [lots EXCEPT ![n] = m] ELSE Append(lots, l)
  <2>1. lots \in Seq(LotSet)
    BY <1>1
  <2>2. [lots EXCEPT ![Len(lots)].quantity = @ + q] = [lots EXCEPT ![n] = m]
    OBVIOUS
  <2> HIDE DEF lots, last, m
  <2> QED BY <2>2 DEF WithLot, last, m, lots
<1> HIDE DEF new
<1>5. CASE joins
  <2>1. n \in DOMAIN lots /\ last \in LotSet /\ FineLot(last, s, day, R)
    <3>1. DOMAIN lots = 1..n /\ n \in Nat /\ n # 0
      BY <1>1, <1>5, SequenceShape, EmptySeq
    <3>2. n \in DOMAIN lots
      BY <3>1
    <3> QED BY <1>1, <3>2 DEF FineLots, FineLot
  <2>2. last.quantity \in Nat \ {0} /\ last.acquired = day /\ last.from = from /\ DOMAIN last.claims = {}
    BY <1>5, <2>1 DEF LotSet
  <2> DEFINE v == last.quantity + q
  <2>3. /\ m \in LotSet /\ m.quantity = v /\ m.acquired = day /\ m.from = from /\ m.claims = last.claims
    <3>1. m = [last EXCEPT !.quantity = v] /\ v \in Nat \ {0}
      <4> HIDE DEF last
      <4>1. m = [last EXCEPT !.quantity = v]
        OBVIOUS
      <4>2. v \in Nat \ {0}
        BY <2>2
      <4> QED BY <4>1, <4>2
    <3> HIDE DEF v, m, last
    <3> QED BY <2>1, <2>2, <3>1 DEF LotSet
  <2> HIDE DEF m
  <2>4. new = [lots EXCEPT ![n] = m]
    BY <1>4, <1>5
  <2> HIDE DEF joins, lots, last, n
  <2>5. new \in Seq(LotSet) /\ \A f \in [LotSet -> Int] : Weight(f, new) = Weight(f, lots) + f[m] - f[last]
    <3>1. last = lots[n] /\ lots \in Seq(LotSet)
      BY <1>1 DEF last, FineLots
    <3>2. ASSUME NEW f \in [LotSet -> Int] PROVE new \in Seq(LotSet) /\ Reweighs(f, new, lots, n, m)
      BY <2>1, <2>3, <2>4, <3>1, WeightReplaced
    <3> QED BY <1>2, <3>1, <3>2 DEF Reweighs
  <2>6. FineLots(new, s, day, R)
    <3>1. FineLot(m, s, day, R)
      BY <1>1, <2>2, <2>3 DEF FineLot
    <3>2. \A k \in DOMAIN new : FineLot(new[k], s, day, R)
      BY <1>1, <2>4, <3>1 DEF FineLots
    <3> QED BY <2>5, <3>2 DEF FineLots
  <2>7. /\ Sizes[m] - Sizes[last] = q /\ Ripe(day)[m] >= Ripe(day)[last]
        /\ \A i : GrossOf(i)[m] = GrossOf(i)[last] /\ InitialOf(i)[m] = InitialOf(i)[last]
    BY <1>1, <2>1, <2>2, <2>3 DEF Sizes, Ripe, GrossOf, InitialOf
  <2>8. Weight(Sizes, new) = Weight(Sizes, lots) + q
    <3>1. Weight(Sizes, new) = Weight(Sizes, lots) + Sizes[m] - Sizes[last] /\ Sizes[m] \in Int /\ Sizes[last] \in Int
      BY <1>2, <2>1, <2>3, <2>5
    <3> QED BY <1>2, <1>3, <2>7, <3>1
  <2>9. Weight(Ripe(day), new) >= Weight(Ripe(day), lots)
    <3>1. Weight(Ripe(day), new) = Weight(Ripe(day), lots) + Ripe(day)[m] - Ripe(day)[last]
          /\ Ripe(day)[m] \in Int /\ Ripe(day)[last] \in Int /\ Weight(Ripe(day), lots) \in Int
      BY <1>2, <1>3, <2>1, <2>3, <2>5
    <3> QED BY <2>7, <3>1
  <2>10. \A i : Weight(GrossOf(i), new) = Weight(GrossOf(i), lots) /\ Weight(InitialOf(i), new) = Weight(InitialOf(i), lots)
    <3> SUFFICES ASSUME NEW i
                 PROVE  Weight(GrossOf(i), new) = Weight(GrossOf(i), lots) /\ Weight(InitialOf(i), new) = Weight(InitialOf(i), lots)
      OBVIOUS
    <3>1. \A f \in [LotSet -> Int] : f[m] = f[last] => Weight(f, new) = Weight(f, lots)
      <4> SUFFICES ASSUME NEW f \in [LotSet -> Int], f[m] = f[last] PROVE Weight(f, new) = Weight(f, lots)
        OBVIOUS
      <4>1. f[last] \in Int /\ Weight(f, lots) \in Int /\ Weight(f, new) = Weight(f, lots) + f[last] - f[last]
        BY <1>3, <2>1, <2>5
      <4> QED BY <4>1
    <3> QED BY <1>2, <2>7, <3>1
  <2> QED BY <2>6, <2>8, <2>9, <2>10 DEF JoinsLots, new, lots
<1>6. CASE ~ joins
  <2>1. l \in LotSet /\ DOMAIN l.claims = {} /\ l.quantity = q /\ l.acquired = day
    <3> HIDE DEF from, day
    <3>1. l \in LotSet /\ DOMAIN l.claims = {}
      BY <1>1, NewLot, SMTT(40)
    <3> QED BY <3>1
  <2>2. new = Append(lots, l)
    BY <1>4, <1>6
  <2> HIDE DEF l, lots, joins
  <2>3. \A f \in [LotSet -> Int] : Weight(f, new) = Weight(f, lots) + f[l] /\ f[l] \in Int
    BY <1>1, <2>1, <2>2, WeightAppend
  <2>4. FineLots(new, s, day, R)
    <3>1. FineLot(l, s, day, R)
      BY <1>1, <2>1 DEF FineLot
    <3> QED BY <1>1, <2>2, <3>1, FineAppend
  <2>5. Sizes[l] = q /\ Ripe(day)[l] >= 0 /\ \A i : GrossOf(i)[l] = 0 /\ InitialOf(i)[l] = 0
    BY <2>1 DEF Sizes, Ripe, GrossOf, InitialOf
  <2>6. Weight(Sizes, new) = Weight(Sizes, lots) + q
    BY <1>2, <2>3, <2>5
  <2>7. Weight(Ripe(day), new) >= Weight(Ripe(day), lots)
    <3>1. Weight(Ripe(day), new) = Weight(Ripe(day), lots) + Ripe(day)[l] /\ Ripe(day)[l] \in Int /\ Weight(Ripe(day), lots) \in Int
      BY <1>2, <1>3, <2>3
    <3> QED BY <2>5, <3>1
  <2>8. \A i : Weight(GrossOf(i), new) = Weight(GrossOf(i), lots) /\ Weight(InitialOf(i), new) = Weight(InitialOf(i), lots)
    <3>1. \A f \in [LotSet -> Int] : f[l] = 0 => Weight(f, new) = Weight(f, lots)
      BY <1>3, <2>3
    <3> QED BY <1>2, <2>5, <3>1
  <2> QED BY <2>4, <2>6, <2>7, <2>8 DEF JoinsLots, new, lots
<1> QED
  BY <1>5, <1>6

\* From account a to b with n more shares of s, or fewer.
Traded(a, b, s, n) ==
  /\ b.day = a.day /\ \A i \in DOMAIN Actions : SameRight(b.action[i], a.action[i])
  /\ \A z \in Securities : b.position[z].quantity = a.position[z].quantity + IF z = s THEN n ELSE 0

\* What is there for others is not touched.
LEMMA OthersThere ==
  ASSUME NEW a, Sound(a), NEW id \in Orders
  PROVE  /\ Others(a, id) \in Nat /\ Others(a, id) = a.frozen + a.blocked - a.reserved[id].cash
         /\ a.cash \in Nat /\ a.frozen \in Nat /\ a.blocked \in Nat /\ a.reserved[id].cash \in Nat
         /\ a.realized \in Int /\ a.receivable \in Nat /\ a.day \in Nat /\ a.day + 1 \in Days
<1>1. a.day \in 0..Sessions /\ Sessions \in Nat /\ a.realized \in Int /\ a.receivable \in Nat
  BY AccountFields, AccountShape DEF Sound
<1>2. /\ a.reserved[id].cash \in Nat /\ a.reserved[id].cash <= a.frozen
      /\ a.frozen \in Nat /\ a.blocked \in Nat /\ a.cash \in Nat
  BY SoundOrder
<1> QED
  BY <1>1, <1>2 DEF Others, Frozen, Days

\* What is left of a reservation after a fill.
RestFor(r, quantity, value, fee, keep) ==
  IF r.left = quantity THEN NoReservation
  ELSE [r EXCEPT !.left = @ - quantity, !.notional = @ + value, !.paid = @ + fee, !.cash = keep]
RestsFit(new, r, quantity, keep) ==
  /\ new \in ReservationSet /\ Booking(new) /\ new.cash = keep
  /\ \A s : SellLeft(new, s) = SellLeft(r, s) - IF r.side = "sell" /\ r.s = s THEN quantity ELSE 0

LEMMA RestFits ==
  ASSUME NEW r \in ReservationSet, Booking(r), r.side # "none", NEW quantity \in 1..r.left, NEW value \in Nat,
         NEW fee, fee = Charge(r, value), NEW keep \in Nat, r.left = quantity => keep = 0
  PROVE  RestsFit(RestFor(r, quantity, value, fee, keep), r, quantity, keep)
<1> DEFINE new == RestFor(r, quantity, value, fee, keep)
<1>1. /\ r.side \in {"buy", "sell"} /\ r.s \in Securities /\ r.left \in Nat /\ r.notional \in Nat /\ r.paid \in Nat
      /\ r.estimate \in Nat /\ r.limit \in Nat /\ r.cash \in Nat /\ r.paid <= Commission(r.notional)
  BY DEF ReservationSet, Booking
<1>2. fee \in Nat /\ r.paid + fee = Commission(r.notional + value)
  BY <1>1, ChargeNatural
<1>3. CASE r.left = quantity
  <2>1. new = NoReservation
    BY <1>3 DEF RestFor
  <2>2. \A s : SellLeft(r, s) - (IF r.side = "sell" /\ r.s = s THEN quantity ELSE 0) = 0
    BY <1>1, <1>3 DEF SellLeft
  <2> QED BY <1>3, <2>1, <2>2, NoReservationFits DEF RestsFit
<1>4. CASE r.left # quantity
  <2> DEFINE l == r.left - quantity
             n == r.notional + value
             p == r.paid + fee
  <2>1. l \in Nat /\ n \in Nat /\ p \in Nat /\ p <= Commission(n)
    <3>1. l \in Nat /\ n \in Nat /\ p \in Nat /\ p = Commission(n)
      BY <1>1, <1>2
    <3> HIDE DEF p, n
    <3> QED BY <3>1
  <2>2. new = [r EXCEPT !.left = l, !.notional = n, !.paid = p, !.cash = keep]
    BY <1>4 DEF RestFor
  <2> HIDE DEF l, n, p, new
  <2>3. new = [side |-> r.side, s |-> r.s, left |-> l, estimate |-> r.estimate, limit |-> r.limit,
               cash |-> keep, notional |-> n, paid |-> p]
    BY <2>2 DEF ReservationSet
  <2>4. new \in ReservationSet /\ new.side = r.side /\ new.s = r.s /\ new.left = l /\ new.cash = keep
        /\ new.notional = n /\ new.paid = p
    BY <1>1, <2>1, <2>3 DEF ReservationSet
  <2>5. Booking(new)
    BY <1>1, <2>1, <2>4 DEF Booking
  <2>6. \A s : SellLeft(new, s) = SellLeft(r, s) - IF r.side = "sell" /\ r.s = s THEN quantity ELSE 0
    BY <1>1, <2>4 DEF SellLeft, l
  <2> QED BY <2>4, <2>5, <2>6 DEF RestsFit, new
<1> QED
  BY <1>3, <1>4

\* What a buy makes of the account.
BoughtAs(b, a, cash, frozen, position, reserved) ==
  /\ b \in AccountSet
  /\ b.cash = cash /\ b.frozen = frozen /\ b.blocked = a.blocked /\ b.locks = a.locks /\ b.day = a.day
  /\ b.realized = a.realized /\ b.receivable = a.receivable /\ b.action = a.action
  /\ b.position = position /\ b.reserved = reserved
LEMMA BoughtMade ==
  ASSUME NEW a \in AccountSet, NEW cash \in Nat, NEW frozen \in Nat, NEW position \in [Securities -> PositionSet],
         NEW reserved \in [Orders -> ReservationSet], NEW b,
         b = [a EXCEPT !.cash = cash, !.frozen = frozen, !.position = position, !.reserved = reserved]
  PROVE  BoughtAs(b, a, cash, frozen, position, reserved)
BY DEF AccountSet, BoughtAs

Holds(p, q, u, c, lots) == p = [q EXCEPT !.quantity = u, !.cost = c, !.lots = lots]
LEMMA PositionMade ==
  ASSUME NEW q \in PositionSet, NEW u \in Nat, NEW c \in Nat, NEW lots \in Seq(LotSet),
         NEW p, Holds(p, q, u, c, lots)
  PROVE  p \in PositionSet /\ p.quantity = u /\ p.frozen = q.frozen /\ p.cost = c /\ p.lots = lots
BY DEF PositionSet, Holds

\* What the rest of an order keeps, out of what is there for it.
LEMMA KeepsFit ==
  ASSUME NEW r \in ReservationSet, r.paid <= Commission(r.notional), NEW there \in Nat,
         NEW keep, keep = IF r.left = 0 THEN 0
                          ELSE Lesser(r.left * r.estimate + Charge(r, r.left * r.estimate), there)
  PROVE  keep \in Nat /\ keep <= there /\ (r.left = 0 => keep = 0)
<1>1. r.left \in Nat /\ r.estimate \in Nat
  BY DEF ReservationSet
<1>2. PICK v \in Nat : v = r.left * r.estimate
  <2> SUFFICES ASSUME NEW x \in Nat, NEW y \in Nat PROVE x * y \in Nat
    BY <1>1
  <2> QED OBVIOUS
<1>3. Charge(r, v) \in Nat
  BY ChargeNatural
<1> QED
  BY <1>1, <1>2, <1>3 DEF Lesser

\* The reservation of an order while it is filled.
Filling(rest, r, quantity, value, fee) ==
  rest = [r EXCEPT !.left = @ - quantity, !.notional = @ + value, !.paid = @ + fee]
Leaves(rest, r, quantity, value, fee) ==
  \A keep : (IF rest.left = 0 THEN NoReservation ELSE [rest EXCEPT !.cash = keep])
              = RestFor(r, quantity, value, fee, keep)
LEMMA Refilled ==
  ASSUME NEW r \in ReservationSet, r.side # "none", Booking(r), NEW quantity \in 1..r.left, NEW value \in Nat,
         NEW fee, fee = Charge(r, value),
         NEW rest, Filling(rest, r, quantity, value, fee)
  PROVE  /\ fee \in Nat /\ rest \in ReservationSet /\ rest.paid <= Commission(rest.notional)
         /\ rest.left = r.left - quantity /\ rest.estimate = r.estimate
         /\ Leaves(rest, r, quantity, value, fee)
<1>1. r.left \in Nat /\ r.notional \in Nat /\ r.paid \in Nat /\ r.paid <= Commission(r.notional)
  BY DEF Booking, ReservationSet
<1>2. fee \in Nat /\ r.paid + fee = Commission(r.notional + value)
  BY <1>1, ChargeNatural
<1>3. PICK l \in Nat, n \in Nat, m \in Nat :
        l = r.left - quantity /\ n = r.notional + value /\ m = r.paid + fee /\ m = Commission(n)
  BY <1>1, <1>2
<1>4. rest = [r EXCEPT !.left = l, !.notional = n, !.paid = m]
  BY <1>3 DEF Filling
<1>5. rest \in ReservationSet /\ rest.left = l /\ rest.paid = m /\ rest.notional = n /\ rest.estimate = r.estimate
  BY <1>4 DEF ReservationSet
<1>6. m <= Commission(n)
  BY <1>3
<1>7. rest.left = 0 <=> r.left = quantity
  BY <1>1, <1>3, <1>5
<1>8. \A keep : [rest EXCEPT !.cash = keep]
                  = [r EXCEPT !.left = @ - quantity, !.notional = @ + value, !.paid = @ + fee, !.cash = keep]
  BY DEF Filling
<1> QED
  BY <1>2, <1>3, <1>5, <1>6, <1>7, <1>8 DEF RestFor, Leaves

\* More shares, at what was paid for them.
GrowsBy(q, lots, n, spent, m, k, day) ==
  /\ Weight(Sizes, lots) = Weight(Sizes, q.lots) + n /\ Weight(Ripe(day), lots) >= Weight(Ripe(day), q.lots)
  /\ m = q.quantity + n /\ k = q.cost + spent
LEMMA HoldsMore ==
  ASSUME NEW q \in PositionSet, NEW s, NEW day \in Nat, NEW R, Holding(q, s, day, R), NEW n \in Nat \ {0},
         NEW spent \in Nat, NEW lots, FineLots(lots, s, day, R),
         NEW m, NEW k, GrowsBy(q, lots, n, spent, m, k, day), NEW p, Holds(p, q, m, k, lots)
  PROVE  /\ p \in PositionSet /\ Holding(p, s, day, R)
         /\ p.quantity = m /\ p.frozen = q.frozen /\ p.cost = k /\ p.lots = lots
<1>1. /\ q.quantity \in Nat /\ q.frozen \in Nat /\ q.cost \in Nat /\ q.lots \in Seq(LotSet) /\ lots \in Seq(LotSet)
  BY DEF PositionSet, FineLots
<1>2. PICK u \in Nat, c \in Nat : u = q.quantity + n /\ c = q.cost + spent /\ u # 0 /\ u = m /\ c = k
  BY <1>1 DEF GrowsBy
<1>3. Holds(p, q, u, c, lots)
  BY <1>2
<1>4. p \in PositionSet /\ p.quantity = u /\ p.frozen = q.frozen /\ p.cost = c /\ p.lots = lots
  BY <1>1, <1>3, PositionMade
<1>5. u = Weight(Sizes, lots)
  BY <1>2 DEF Holding, GrowsBy
<1>6. q.frozen <= Weight(Ripe(day), lots)
  <2>1. Ripe(day) \in [LotSet -> Int]
    BY LotMeasures
  <2>2. PICK x \in Int, y \in Int : x = Weight(Ripe(day), q.lots) /\ y = Weight(Ripe(day), lots)
    BY <1>1, <2>1, WeightInteger
  <2>3. q.frozen <= x /\ y >= x
    BY <2>2 DEF Holding, GrowsBy
  <2> QED BY <1>1, <2>2, <2>3
<1> QED
  BY <1>2, <1>4, <1>5, <1>6 DEF Holding

LEMMA PaidOut ==
  ASSUME NEW cash \in Nat, NEW value \in Nat, NEW fee \in Nat, NEW others \in Nat, value + fee <= cash - others
  PROVE  cash - value - fee \in Nat /\ cash - value - fee - others \in Nat
OBVIOUS
LEMMA KeptFrozen ==
  ASSUME NEW frozen \in Nat, NEW held \in Nat, held <= frozen, NEW keep \in Nat, NEW blocked \in Nat, NEW cash \in Nat,
         NEW others \in Nat, others = frozen + blocked - held, keep <= cash - others
  PROVE  frozen - held + keep \in Nat /\ frozen - held + keep + blocked <= cash
         /\ frozen - held + keep = frozen + keep - held
OBVIOUS
LEMMA SpentIs ==
  ASSUME NEW cash \in Nat, NEW value \in Nat, NEW fee \in Nat, NEW cost \in Nat, NEW realized \in Int
  PROVE  ((cash - value - fee) + (cost + (value + fee))) - (cash + cost) = realized - realized
OBVIOUS

\* A buy: cash goes, shares come at what they cost.
LEMMA BoughtSound ==
  ASSUME NEW a, Sound(a), NEW id \in Orders, a.reserved[id].side = "buy",
         NEW quantity \in 1..a.reserved[id].left, NEW value \in Nat,
         value + Charge(a.reserved[id], value) <= a.cash - Others(a, id)
  PROVE  /\ Sound(Bought(a, id, quantity, value))
         /\ Traded(a, Bought(a, id, quantity, value), a.reserved[id].s, quantity)
<1>1. PICK r \in ReservationSet, s \in Securities :
        r = a.reserved[id] /\ s = r.s /\ Booking(r) /\ r.side = "buy" /\ r.cash \in Nat /\ r.cash <= a.frozen
  BY SoundOrder DEF Booking
<1>2. PICK q \in PositionSet : q = a.position[s] /\ Holding(q, s, a.day, Registers(a.action))
  BY SoundHolding
<1>3. /\ a \in AccountSet /\ a.cash \in Nat /\ a.frozen \in Nat /\ a.blocked \in Nat /\ a.realized \in Int /\ a.day \in Nat
      /\ Others(a, id) \in Nat /\ Others(a, id) = a.frozen + a.blocked - r.cash
      /\ a.position \in [Securities -> PositionSet] /\ a.reserved \in [Orders -> ReservationSet]
      /\ a.blocked = Locked(a.locks)
      /\ q.cost \in Nat /\ q.quantity \in Nat /\ q.frozen \in Nat
  BY <1>1, <1>2, OthersThere, AccountFields DEF Sound, Money, PositionSet
<1>4. PICK fee, rest : fee = Charge(r, value) /\ Filling(rest, r, quantity, value, fee)
  BY DEF Filling
<1>5. /\ fee \in Nat /\ rest \in ReservationSet /\ rest.paid <= Commission(rest.notional)
      /\ rest.left = r.left - quantity /\ rest.estimate = r.estimate
      /\ Leaves(rest, r, quantity, value, fee)
  <2>1. r.side # "none" /\ quantity \in 1..r.left
    BY <1>1
  <2> QED BY <1>1, <1>4, <2>1, Refilled
<1>6. PICK cash \in Nat, there \in Nat : cash = a.cash - value - fee /\ there = cash - Others(a, id)
  <2>1. value + fee <= a.cash - Others(a, id)
    BY <1>1, <1>4
  <2> QED BY <1>3, <1>5, <2>1, PaidOut
<1>7. PICK keep \in Nat :
        /\ keep = IF rest.left = 0 THEN 0
                  ELSE Lesser(rest.left * r.estimate + Charge(rest, rest.left * r.estimate), there)
        /\ keep <= there /\ (rest.left = 0 => keep = 0)
  BY <1>5, KeepsFit
<1>8. PICK new : new = RestFor(r, quantity, value, fee, keep)
  OBVIOUS
<1>9. RestsFit(new, r, quantity, keep)
  <2>1. r.left \in Nat /\ r.side # "none" /\ quantity \in 1..r.left
    BY <1>1 DEF ReservationSet
  <2>2. r.left = quantity => keep = 0
    BY <1>5, <1>7, <2>1
  <2> QED BY <1>1, <1>4, <1>8, <2>1, <2>2, RestFits
<1>10. /\ new \in ReservationSet /\ Booking(new) /\ new.cash = keep
       /\ \A z : SellLeft(new, z) = 0 /\ SellLeft(r, z) = 0
  <2>1. \A z : SellLeft(r, z) = 0
    BY <1>1 DEF SellLeft
  <2>2. \A z : SellLeft(new, z) = SellLeft(r, z) - 0
    BY <1>1, <1>9 DEF RestsFit
  <2> QED BY <1>9, <2>1, <2>2 DEF RestsFit
<1>11. PICK lots : lots = WithLot(a, s, quantity) /\ JoinsLots(lots, a, s, quantity)
  BY WithLotAll
<1>12. PICK p : Holds(p, q, q.quantity + quantity, q.cost + (value + fee), lots)
  BY DEF Holds
<1>13. /\ p \in PositionSet /\ Holding(p, s, a.day, Registers(a.action))
       /\ p.quantity = q.quantity + quantity /\ p.frozen = q.frozen /\ p.cost = q.cost + (value + fee) /\ p.lots = lots
  <2>1. /\ FineLots(lots, s, a.day, Registers(a.action)) /\ Weight(Sizes, lots) = Weight(Sizes, q.lots) + quantity
        /\ Weight(Ripe(a.day), lots) >= Weight(Ripe(a.day), q.lots)
    BY <1>2, <1>11 DEF JoinsLots
  <2>2. PICK spent, m, k : spent \in Nat /\ spent = value + fee /\ m = q.quantity + quantity /\ k = q.cost + spent
    BY <1>5
  <2>3. Holds(p, q, m, k, lots) /\ quantity \in Nat \ {0}
    BY <1>12, <2>2
  <2>4. Holding(q, s, a.day, Registers(a.action)) /\ a.day \in Nat /\ GrowsBy(q, lots, quantity, spent, m, k, a.day)
    BY <1>2, <1>3, <2>1, <2>2 DEF GrowsBy
  <2>5. /\ p \in PositionSet /\ Holding(p, s, a.day, Registers(a.action))
        /\ p.quantity = m /\ p.frozen = q.frozen /\ p.cost = k /\ p.lots = lots
    BY <2>1, <2>2, <2>3, <2>4, HoldsMore
  <2> QED BY <2>2, <2>5
<1>14. PICK frozen \in Nat :
         /\ frozen = a.frozen - r.cash + keep /\ frozen + a.blocked <= cash /\ frozen = a.frozen + keep - r.cash
  BY <1>1, <1>3, <1>6, <1>7, KeptFrozen
<1>15. PICK position \in [Securities -> PositionSet], reserved \in [Orders -> ReservationSet] :
         position = [a.position EXCEPT ![s] = p] /\ reserved = [a.reserved EXCEPT ![id] = new]
  BY <1>3, <1>10, <1>13
<1>16. PICK b : b = Bought(a, id, quantity, value)
  OBVIOUS
<1>17. BoughtAs(b, a, cash, frozen, position, reserved)
  <2> DEFINE x == a.reserved[id]
             y == [x EXCEPT !.left = @ - quantity, !.notional = @ + value, !.paid = @ + fee]
             C == a.cash - value - fee
             K == IF y.left = 0 THEN 0
                  ELSE Lesser(y.left * x.estimate + Charge(y, y.left * x.estimate), C - Others(a, id))
             F == a.frozen - x.cash + K
             P == [a.position[x.s] EXCEPT !.quantity = @ + quantity, !.cost = @ + value + fee,
                                          !.lots = WithLot(a, x.s, quantity)]
             N == IF y.left = 0 THEN NoReservation ELSE [y EXCEPT !.cash = K]
  <2>1. b = BoughtFor(a, id, quantity, value, fee)
    BY <1>1, <1>4, <1>16 DEF Bought
  <2>2. b = [a EXCEPT !.cash = C, !.frozen = F, !.position[x.s] = P, !.reserved[id] = N]
    BY <2>1 DEF BoughtFor
  <2>3. x = r /\ y = rest /\ C = cash
    BY <1>1, <1>4, <1>6 DEF Filling
  <2> HIDE DEF x, y, C
  <2>4. K = keep
    BY <1>6, <1>7, <2>3
  <2> HIDE DEF K
  <2>5. F = frozen
    BY <1>14, <2>3, <2>4
  <2>6. N = new
    BY <1>5, <1>8, <2>3, <2>4, SMTT(40) DEF Leaves
  <2>7. P = p
    <3>1. q.cost + (value + fee) = q.cost + value + fee
      BY <1>3, <1>5
    <3> QED BY <1>1, <1>2, <1>11, <1>12, <2>3, <3>1 DEF Holds
  <2> HIDE DEF F, N, P
  <2>8. b = [a EXCEPT !.cash = cash, !.frozen = frozen, !.position[s] = p, !.reserved[id] = new]
    BY <1>1, <2>2, <2>3, <2>5, <2>6, <2>7
  <2>9. b = [a EXCEPT !.cash = cash, !.frozen = frozen, !.position = position, !.reserved = reserved]
    BY <1>15, <2>8
  <2> QED BY <1>3, <2>9, BoughtMade
<1>18. Rebooks(a, b, id, new, s, p)
  <2>1. Frozen(b) <= b.cash
    BY <1>14, <1>17 DEF BoughtAs, Frozen
  <2>2. b.frozen = a.frozen + new.cash - a.reserved[id].cash
    BY <1>1, <1>10, <1>14, <1>17 DEF BoughtAs
  <2>3. (b.cash + p.cost) - (a.cash + a.position[s].cost) = b.realized - a.realized
    <3>1. ((a.cash - value - fee) + (q.cost + (value + fee))) - (a.cash + q.cost) = a.realized - a.realized
      BY <1>3, <1>5, SpentIs
    <3> QED BY <1>2, <1>6, <1>13, <1>17, <3>1 DEF BoughtAs
  <2> QED BY <1>3, <1>15, <1>17, <2>1, <2>2, <2>3 DEF Rebooks, BoughtAs
<1>19. RebooksRights(a, b, s, p)
  <2> SUFFICES ASSUME NEW i \in DOMAIN Actions
               PROVE  Shared(a.action[i], i, IF Actions[i].s = s THEN p.lots ELSE a.position[Actions[i].s].lots)
    BY <1>17 DEF RebooksRights, SameRight, BoughtAs
  <2>1. Shared(a.action[i], i, a.position[Actions[i].s].lots)
    BY DEF Sound, Sharing
  <2>2. Weight(GrossOf(i), lots) = Weight(GrossOf(i), q.lots) /\ Weight(InitialOf(i), lots) = Weight(InitialOf(i), q.lots)
    BY <1>2, <1>11, SMTT(40) DEF JoinsLots
  <2> QED BY <1>2, <1>13, <2>1, <2>2 DEF Shared
<1>20. RebooksShares(a, id, new, s, p)
  BY <1>1, <1>2, <1>3, <1>10, <1>13 DEF RebooksShares
<1>21. Sound(b)
  BY <1>10, <1>13, <1>17, <1>18, <1>19, <1>20, Rebooked DEF BoughtAs
<1>22. Traded(a, b, s, quantity)
  <2>1. \A z \in Securities : a.position[z].quantity \in Nat
    BY SoundHolding
  <2> QED BY <1>2, <1>3, <1>13, <1>15, <1>17, <2>1 DEF Traded, BoughtAs, SameRight
<1> QED
  BY <1>1, <1>16, <1>21, <1>22

\* What weighs less in each of its lots weighs less.
Lighter(f, g) == \A l \in LotSet : f[l] <= g[l]
LEMMA WeightLighter ==
  ASSUME NEW f \in [LotSet -> Int], NEW g \in [LotSet -> Int], Lighter(f, g), NEW lots \in Seq(LotSet)
  PROVE  Weight(f, lots) <= Weight(g, lots)
<1> DEFINE S == DOMAIN lots
           u == [k \in S |-> f[lots[k]]]
           v == [k \in S |-> g[lots[k]]]
<1>1. IsFiniteSet(S) /\ \A k \in S : lots[k] \in LotSet
  BY SequenceShape
<1>2. u \in [S -> Int] /\ v \in [S -> Int] /\ \A k \in S : u[k] <= v[k]
  BY <1>1 DEF Lighter
<1>3. Weight(f, lots) = SumFunction(u) /\ Weight(g, lots) = SumFunction(v)
  BY DEF Weight
<1> HIDE DEF u, v, S
<1> QED
  BY <1>1, <1>2, <1>3, SumOfLarger

LEMMA RipeAreShares ==
  ASSUME NEW day \in Nat, NEW lots \in Seq(LotSet)
  PROVE  Weight(Ripe(day), lots) <= Weight(Sizes, lots)
<1>1. Lighter(Ripe(day), Sizes)
  BY DEF Lighter, Ripe, Sizes, LotSet
<1> QED
  BY <1>1, LotMeasures, WeightLighter

\* What a sale makes of the account.
SoldAs(b, a, cash, frozen, blocked, locks, realized, action, position, reserved) ==
  /\ b \in AccountSet
  /\ b.cash = cash /\ b.frozen = frozen /\ b.blocked = blocked /\ b.locks = locks /\ b.day = a.day
  /\ b.realized = realized /\ b.receivable = a.receivable /\ b.action = action
  /\ b.position = position /\ b.reserved = reserved
LEMMA SoldMade ==
  ASSUME NEW a \in AccountSet, NEW cash \in Nat, NEW frozen \in Nat, NEW blocked \in Nat, NEW locks \in [Days -> Nat],
         NEW realized \in Int, NEW action \in [DOMAIN Actions -> ActionSet],
         NEW position \in [Securities -> PositionSet], NEW reserved \in [Orders -> ReservationSet], NEW b,
         b = [a EXCEPT !.cash = cash, !.frozen = frozen, !.blocked = blocked, !.locks = locks, !.realized = realized,
                       !.action = action, !.position = position, !.reserved = reserved]
  PROVE  SoldAs(b, a, cash, frozen, blocked, locks, realized, action, position, reserved)
BY DEF AccountSet, SoldAs

LEMMA LessIs ==
  ASSUME NEW quantity \in Nat, NEW frozen \in Nat, NEW cost \in Nat, NEW n \in Nat, NEW c \in Nat, NEW x \in Int, NEW y \in Int,
         c <= cost, n = quantity => c = cost, n <= frozen, frozen <= x, x <= quantity, y = x - n
  PROVE  /\ quantity - n \in Nat /\ frozen - n \in Nat /\ cost - c \in Nat
         /\ quantity - n = 0 => cost - c = 0
         /\ frozen - n <= y /\ n <= x
OBVIOUS

\* Fewer shares, and less of what they cost.
Shrinks(p, q, lots, n, s, day, R) ==
  /\ p = [quantity |-> q.quantity - n, frozen |-> q.frozen - n,
          cost |-> q.cost - ReleasedCost(q.cost, q.quantity, n), lots |-> lots]
  /\ FineLots(lots, s, day, R)
  /\ Weight(Sizes, lots) = Weight(Sizes, q.lots) - n /\ Weight(Ripe(day), lots) = Weight(Ripe(day), q.lots) - n
LEMMA HoldsLess ==
  ASSUME NEW q \in PositionSet, NEW s, NEW day \in Nat, NEW R, Holding(q, s, day, R), NEW n \in Nat \ {0},
         n <= q.frozen, NEW lots, NEW p, Shrinks(p, q, lots, n, s, day, R)
  PROVE  /\ p \in PositionSet /\ Holding(p, s, day, R)
         /\ p.quantity = q.quantity - n /\ p.frozen = q.frozen - n /\ p.lots = lots
         /\ p.cost = q.cost - ReleasedCost(q.cost, q.quantity, n) /\ ReleasedCost(q.cost, q.quantity, n) \in Nat
         /\ n <= Weight(Ripe(day), q.lots)
<1>1. /\ q.quantity \in Nat /\ q.frozen \in Nat /\ q.cost \in Nat /\ q.lots \in Seq(LotSet) /\ lots \in Seq(LotSet)
      /\ FineLots(lots, s, day, R)
  BY DEF PositionSet, FineLots, Shrinks
<1>2. PICK x \in Int, y \in Int : /\ x = Weight(Ripe(day), q.lots) /\ y = Weight(Ripe(day), lots)
                                  /\ y = x - n /\ q.frozen <= x
  <2>1. Ripe(day) \in [LotSet -> Int]
    BY LotMeasures
  <2> QED BY <1>1, <2>1, WeightInteger DEF Holding, Shrinks
<1>3. x <= q.quantity
  <2>1. x <= Weight(Sizes, q.lots)
    BY <1>1, <1>2, RipeAreShares
  <2> QED BY <2>1 DEF Holding
<1>4. n \in 0..q.quantity /\ q.quantity # 0
  BY <1>1, <1>2, <1>3
<1>5. PICK c \in Nat : c = ReleasedCost(q.cost, q.quantity, n) /\ (n = q.quantity => c = q.cost) /\ c <= q.cost
  <2>1. /\ ReleasedCost(q.cost, q.quantity, n) \in 0..q.cost
        /\ n = q.quantity => ReleasedCost(q.cost, q.quantity, n) = q.cost
    BY <1>1, <1>4, ReleasedPart
  <2> QED BY <1>1, <2>1
<1>6. PICK u \in Nat, f \in Nat, k \in Nat :
        u = q.quantity - n /\ f = q.frozen - n /\ k = q.cost - c /\ (u = 0 => k = 0) /\ f <= y /\ n <= x
  <2>1. PICK h \in Nat, z \in Nat, e \in Nat : h = q.quantity /\ z = q.frozen /\ e = q.cost
    BY <1>1
  <2>2. c <= e /\ (n = h => c = e) /\ n <= z /\ z <= x /\ x <= h /\ y = x - n /\ n \in Nat
    BY <1>2, <1>3, <1>5, <2>1
  <2>3. /\ h - n \in Nat /\ z - n \in Nat /\ e - c \in Nat
        /\ h - n = 0 => e - c = 0
        /\ z - n <= y /\ n <= x
    BY <2>2, LessIs
  <2> QED BY <2>1, <2>3
<1>7. p = [quantity |-> u, frozen |-> f, cost |-> k, lots |-> lots]
  BY <1>5, <1>6 DEF Shrinks
<1>8. p \in PositionSet /\ p.quantity = u /\ p.frozen = f /\ p.cost = k /\ p.lots = lots
  BY <1>1, <1>7 DEF PositionSet
<1>9. u = Weight(Sizes, lots)
  BY <1>6 DEF Holding, Shrinks
<1>10. Holding(p, s, day, R)
  BY <1>1, <1>2, <1>6, <1>8, <1>9 DEF Holding
<1> QED
  BY <1>2, <1>5, <1>6, <1>8, <1>10

\* What is earned on a sale.
LEMMA EarnedIs ==
  ASSUME NEW cash \in Int, NEW proceeds \in Int, NEW cost \in Int, NEW released \in Int, NEW realized \in Int
  PROVE  ((cash + proceeds) + (cost - released)) - (cash + cost) = (realized + proceeds - released) - realized
OBVIOUS

\* A sale: shares go, oldest first, and what they bring after tax comes in.
LEMMA SoldSound ==
  ASSUME NEW a, Sound(a), NEW id \in Orders, a.reserved[id].side = "sell",
         NEW quantity \in 1..a.reserved[id].left, NEW value \in Nat,
         quantity <= a.position[a.reserved[id].s].frozen,
         Sold(a, id, quantity, value).cash >= Others(a, id),
         Frozen(Sold(a, id, quantity, value)) <= Sold(a, id, quantity, value).cash
  PROVE  /\ Sound(Sold(a, id, quantity, value))
         /\ Traded(a, Sold(a, id, quantity, value), a.reserved[id].s, -quantity)
<1>1. PICK r \in ReservationSet, s \in Securities :
        r = a.reserved[id] /\ s = r.s /\ Booking(r) /\ r.side = "sell" /\ r.cash \in Nat /\ r.cash <= a.frozen
  BY SoundOrder DEF Booking
<1>2. PICK q \in PositionSet : q = a.position[s] /\ Holding(q, s, a.day, Registers(a.action))
  BY SoundHolding
<1>3. /\ a \in AccountSet /\ a.cash \in Nat /\ a.frozen \in Nat /\ a.blocked \in Nat /\ a.realized \in Int /\ a.day \in Nat
      /\ Others(a, id) \in Nat /\ Others(a, id) = a.frozen + a.blocked - r.cash
      /\ a.position \in [Securities -> PositionSet] /\ a.reserved \in [Orders -> ReservationSet]
      /\ a.blocked = Locked(a.locks) /\ a.locks \in [Days -> Nat] /\ a.day + 1 \in Days
      /\ q.cost \in Nat /\ q.quantity \in Nat /\ q.frozen \in Nat
  BY <1>1, <1>2, OthersThere, AccountFields DEF Sound, Money, PositionSet
<1>4. PICK fee, rest : fee = Charge(r, value) /\ Filling(rest, r, quantity, value, fee)
  BY DEF Filling
<1>5. /\ fee \in Nat /\ rest \in ReservationSet /\ rest.paid <= Commission(rest.notional)
      /\ rest.left = r.left - quantity /\ rest.estimate = r.estimate
      /\ Leaves(rest, r, quantity, value, fee)
  <2>1. r.side # "none" /\ quantity \in 1..r.left
    BY <1>1
  <2> QED BY <1>1, <1>4, <2>1, Refilled
<1>6. PICK d : d = Disposed(a, s, quantity)
  OBVIOUS
<1>7. PICK p : p = [quantity |-> q.quantity - quantity, frozen |-> q.frozen - quantity,
                    cost |-> q.cost - ReleasedCost(q.cost, q.quantity, quantity), lots |-> d.lots]
  OBVIOUS
<1>8. quantity \in Nat \ {0} /\ quantity \in Nat /\ quantity <= q.frozen /\ r.left \in Nat
  BY <1>1, <1>2 DEF ReservationSet
<1>9. DisposesAll(d, a, s, quantity)
  <2>1. PICK x \in Int : x = Weight(Ripe(a.day), q.lots) /\ q.frozen <= x
    <3>1. Ripe(a.day) \in [LotSet -> Int] /\ q.lots \in Seq(LotSet)
      BY <1>3, LotMeasures DEF PositionSet
    <3> QED BY <1>2, <3>1, WeightInteger DEF Holding
  <2>2. quantity <= x
    BY <1>3, <1>8, <2>1
  <2> QED BY <1>2, <1>6, <1>8, <2>1, <2>2, DisposedAll
<1>10. /\ p \in PositionSet /\ Holding(p, s, a.day, Registers(a.action))
       /\ p.quantity = q.quantity - quantity /\ p.frozen = q.frozen - quantity /\ p.lots = d.lots
       /\ p.cost = q.cost - ReleasedCost(q.cost, q.quantity, quantity)
       /\ ReleasedCost(q.cost, q.quantity, quantity) \in Nat
  <2>1. Shrinks(p, q, d.lots, quantity, s, a.day, Registers(a.action))
    BY <1>2, <1>7, <1>9 DEF Shrinks, DisposesAll
  <2> QED BY <1>2, <1>3, <1>8, <2>1, HoldsLess
<1>11. PICK proceeds \in Int, released \in Nat :
         proceeds = value - fee - d.tax /\ released = ReleasedCost(q.cost, q.quantity, quantity)
  BY <1>5, <1>9, <1>10, SMTT(40) DEF DisposesAll
<1>12. PICK more \in Nat : more = IF Delayed /\ proceeds > 0 THEN proceeds ELSE 0
  OBVIOUS
<1>13. PICK b : b = Sold(a, id, quantity, value)
  OBVIOUS
<1>14. PICK keep, new : /\ keep = IF rest.left = 0 THEN 0 ELSE Lesser(r.cash, a.cash + proceeds - Others(a, id))
                        /\ new = RestFor(r, quantity, value, fee, keep)
  OBVIOUS
<1>15. b = [a EXCEPT !.cash = a.cash + proceeds, !.frozen = a.frozen - r.cash + keep,
                     !.blocked = a.blocked + more, !.locks[a.day + 1] = a.locks[a.day + 1] + more,
                     !.realized = a.realized + proceeds - released, !.action = d.action,
                     !.position[s] = Kept(p), !.reserved[id] = new]
  <2> DEFINE x == a.reserved[id]
             o == a.position[x.s]
             y == [x EXCEPT !.left = @ - quantity, !.notional = @ + value, !.paid = @ + fee]
             P == value - fee - d.tax
             L == Delayed /\ P > 0
             G == ReleasedCost(o.cost, o.quantity, quantity)
             K == IF y.left = 0 THEN 0 ELSE Lesser(x.cash, a.cash + P - Others(a, id))
             M == IF L THEN P ELSE 0
             H == Kept([quantity |-> o.quantity - quantity, frozen |-> o.frozen - quantity,
                        cost |-> o.cost - G, lots |-> d.lots])
             N == IF y.left = 0 THEN NoReservation ELSE [y EXCEPT !.cash = K]
  <2>1. b = SoldFor(a, id, quantity, value, fee, d)
    BY <1>1, <1>4, <1>6, <1>13 DEF Sold
  <2>2. b = [a EXCEPT !.cash = a.cash + P, !.frozen = a.frozen - x.cash + K, !.blocked = a.blocked + M,
                      !.locks[a.day + 1] = a.locks[a.day + 1] + M, !.realized = a.realized + P - G,
                      !.action = d.action, !.position[x.s] = H, !.reserved[id] = N]
    BY <2>1 DEF SoldFor
  <2>3. x = r /\ y = rest /\ P = proceeds
    BY <1>1, <1>4, <1>11 DEF Filling
  <2>4. o = q
    BY <1>1, <1>2
  <2> HIDE DEF x, y, o
  <2>5. G = released
    BY <1>11, <2>4
  <2>6. K = keep
    BY <1>14, <2>3
  <2>7. M = more
    BY <1>12, <2>3
  <2> HIDE DEF K, M, G
  <2>8. H = Kept(p)
    BY <1>7, <1>11, <2>4, <2>5
  <2>9. N = new
    BY <1>5, <1>14, <2>3, <2>6 DEF Leaves
  <2> HIDE DEF H, N, P
  <2> QED BY <1>1, <2>2, <2>3, <2>5, <2>6, <2>7, <2>8, <2>9
<1>16. b.cash >= Others(a, id) /\ Frozen(b) <= b.cash
  BY <1>13
<1>17. PICK cash \in Nat, there \in Nat : cash = a.cash + proceeds /\ there = cash - Others(a, id)
  <2>1. b.cash = a.cash + proceeds
    BY <1>3, <1>15 DEF AccountSet
  <2>2. a.cash + proceeds \in Int
    BY <1>3
  <2> QED BY <1>3, <1>16, <2>1, <2>2
<1>18. keep \in Nat /\ keep <= there /\ (rest.left = 0 => keep = 0)
  <2>1. a.cash + proceeds - Others(a, id) = there
    BY <1>3, <1>17
  <2>2. keep = IF rest.left = 0 THEN 0 ELSE Lesser(r.cash, a.cash + proceeds - Others(a, id))
    BY <1>14
  <2>3. keep = IF rest.left = 0 THEN 0 ELSE Lesser(r.cash, there)
    BY <2>1, <2>2, Zenon
  <2> QED BY <1>1, <1>17, <2>3 DEF Lesser
<1>19. RestsFit(new, r, quantity, keep)
  <2>1. r.left \in Nat /\ r.side # "none" /\ quantity \in 1..r.left
    BY <1>1, <1>8
  <2>2. r.left = quantity => keep = 0
    BY <1>5, <1>18, <2>1
  <2> QED BY <1>1, <1>4, <1>14, <1>18, <2>1, <2>2, RestFits
<1>20. /\ new \in ReservationSet /\ Booking(new) /\ new.cash = keep
       /\ SellLeft(new, s) = r.left - quantity /\ SellLeft(r, s) = r.left
       /\ \A z \in Securities \ {s} : SellLeft(new, z) = 0 /\ SellLeft(r, z) = 0
  <2>1. SellLeft(r, s) = r.left /\ \A z \in Securities \ {s} : SellLeft(r, z) = 0
    BY <1>1 DEF SellLeft
  <2>2. SellLeft(new, s) = r.left - quantity
    BY <1>1, <1>19, <2>1 DEF RestsFit
  <2>3. \A z \in Securities \ {s} : SellLeft(new, z) = 0 - 0
    BY <1>1, <1>19, <2>1 DEF RestsFit
  <2> QED BY <1>19, <2>1, <2>2, <2>3 DEF RestsFit
<1>21. PICK frozen \in Nat, blocked \in Nat, realized \in Int :
         /\ frozen = a.frozen - r.cash + keep /\ frozen = a.frozen + keep - r.cash
         /\ blocked = a.blocked + more /\ realized = a.realized + proceeds - released
  BY <1>1, <1>3, <1>18
<1>22. /\ Kept(p) \in PositionSet /\ Holding(Kept(p), s, a.day, Registers(a.action))
       /\ Kept(p).cost = p.cost /\ Kept(p).quantity = p.quantity /\ Kept(p).frozen = p.frozen /\ Kept(p).lots = p.lots
  BY <1>3, <1>10, KeptHolding
<1>23. PICK e : e = Kept(p)
  OBVIOUS
<1>24. PICK locks \in [Days -> Nat], position \in [Securities -> PositionSet], reserved \in [Orders -> ReservationSet] :
         /\ locks = [a.locks EXCEPT ![a.day + 1] = a.locks[a.day + 1] + more]
         /\ position = [a.position EXCEPT ![s] = e] /\ reserved = [a.reserved EXCEPT ![id] = new]
  <2>1. [a.locks EXCEPT ![a.day + 1] = a.locks[a.day + 1] + more] \in [Days -> Nat]
    BY <1>3
  <2>2. [a.position EXCEPT ![s] = e] \in [Securities -> PositionSet] /\ [a.reserved EXCEPT ![id] = new] \in [Orders -> ReservationSet]
    BY <1>3, <1>20, <1>22, <1>23
  <2> QED BY <2>1, <2>2
<1>25. SoldAs(b, a, cash, frozen, blocked, locks, realized, d.action, position, reserved)
  <2>1. b = [a EXCEPT !.cash = cash, !.frozen = frozen, !.blocked = blocked, !.locks = locks, !.realized = realized,
                      !.action = d.action, !.position = position, !.reserved = reserved]
    BY <1>15, <1>17, <1>21, <1>23, <1>24
  <2>2. d.action \in [DOMAIN Actions -> ActionSet]
    BY <1>9 DEF DisposesAll
  <2> QED BY <1>3, <2>1, <2>2, SoldMade
<1>26. Rebooks(a, b, id, new, s, e)
  <2>1. b.frozen = a.frozen + new.cash - a.reserved[id].cash
    BY <1>1, <1>20, <1>21, <1>25 DEF SoldAs
  <2>2. (b.cash + e.cost) - (a.cash + a.position[s].cost) = b.realized - a.realized
    <3>1. ((a.cash + proceeds) + (q.cost - released)) - (a.cash + q.cost) = (a.realized + proceeds - released) - a.realized
      BY <1>3, EarnedIs
    <3> QED BY <1>2, <1>10, <1>11, <1>17, <1>21, <1>22, <1>23, <1>25, <3>1 DEF SoldAs
  <2>3. b.blocked = Locked(b.locks)
    <3>1. PICK v \in Nat : v = a.locks[a.day + 1] + more
      BY <1>3
    <3>2. Locked(locks) = Locked(a.locks) + v - a.locks[a.day + 1] /\ Locked(a.locks) \in Nat
      BY <1>3, <1>24, <3>1, LocksChange
    <3>3. a.locks[a.day + 1] \in Nat
      BY <1>3
    <3>4. Locked(locks) = blocked
      BY <1>3, <1>21, <3>1, <3>2, <3>3
    <3> QED BY <1>25, <3>4 DEF SoldAs
  <2> QED BY <1>16, <1>24, <1>25, <2>1, <2>2, <2>3 DEF Rebooks, SoldAs
<1>27. RebooksRights(a, b, s, e)
  <2> SUFFICES ASSUME NEW i \in DOMAIN Actions
               PROVE  /\ SameRight(d.action[i], a.action[i])
                      /\ i \notin Registers(a.action) =>
                           SoldOf(d.action[i]) = SoldOf(a.action[i]) /\ d.action[i].withheld = a.action[i].withheld
                      /\ Shared(d.action[i], i, IF Actions[i].s = s THEN e.lots ELSE a.position[Actions[i].s].lots)
    BY <1>25 DEF RebooksRights, SoldAs
  <2>1. /\ SameRight(d.action[i], a.action[i])
        /\ i \notin Registers(a.action) =>
             SoldOf(d.action[i]) = SoldOf(a.action[i]) /\ d.action[i].withheld = a.action[i].withheld
        /\ Weight(GrossOf(i), d.lots) + SoldOf(d.action[i]) = Weight(GrossOf(i), q.lots) + SoldOf(a.action[i])
        /\ Weight(InitialOf(i), d.lots) + d.action[i].withheld = Weight(InitialOf(i), q.lots) + a.action[i].withheld
    BY <1>2, <1>9 DEF DisposesAll
  <2>2. Shared(a.action[i], i, a.position[Actions[i].s].lots)
    BY DEF Sound, Sharing
  <2>3. d.action[i].gross = a.action[i].gross /\ d.action[i].initial = a.action[i].initial
    BY <2>1 DEF SameRight
  <2>4. CASE Actions[i].s = s
    BY <1>2, <1>10, <1>22, <1>23, <2>1, <2>2, <2>3, <2>4 DEF Shared
  <2>5. CASE Actions[i].s # s
    <3>1. Weight(GrossOf(i), d.lots) = 0 /\ Weight(InitialOf(i), d.lots) = 0
      BY <1>9, <2>5, NoClaims DEF DisposesAll
    <3>2. Weight(GrossOf(i), q.lots) = 0 /\ Weight(InitialOf(i), q.lots) = 0
      BY <1>2, <2>5, NoClaims DEF Holding
    <3>3. d.action[i] \in ActionSet /\ a.action[i] \in ActionSet
      BY <1>3, <1>9, AccountFields DEF DisposesAll
    <3>4. /\ SoldOf(d.action[i]) \in Nat /\ SoldOf(a.action[i]) \in Nat
          /\ d.action[i].withheld \in Nat /\ a.action[i].withheld \in Nat
      BY <3>3, SoldInteger DEF ActionSet
    <3>5. SoldOf(d.action[i]) = SoldOf(a.action[i]) /\ d.action[i].withheld = a.action[i].withheld
      BY <2>1, <3>1, <3>2, <3>4
    <3>6. Shared(d.action[i], i, a.position[Actions[i].s].lots)
      BY <2>2, <2>3, <3>5 DEF Shared
    <3> QED BY <2>1, <2>5, <3>6
  <2> QED BY <2>1, <2>4, <2>5
<1>28. RebooksShares(a, id, new, s, e)
  <2>1. e.frozen = a.position[s].frozen + SellLeft(new, s) - SellLeft(a.reserved[id], s)
    <3>1. r = a.reserved[id] /\ q = a.position[s]
      BY <1>1, <1>2
    <3>2. e.frozen = q.frozen - quantity
      BY <1>10, <1>22, <1>23
    <3>3. SellLeft(new, s) = r.left - quantity /\ SellLeft(a.reserved[id], s) = r.left
      BY <1>20, <3>1
    <3>4. q.frozen - quantity = q.frozen + (r.left - quantity) - r.left
      BY <1>3, <1>8
    <3> QED BY <3>1, <3>2, <3>3, <3>4
  <2> QED BY <1>1, <1>20, <2>1, SMTT(40) DEF RebooksShares
<1>29. Sound(b)
  BY <1>20, <1>22, <1>23, <1>25, <1>26, <1>27, <1>28, Rebooked DEF SoldAs
<1>30. Traded(a, b, s, -quantity)
  <2>1. \A z \in Securities : a.position[z].quantity \in Nat
    BY SoundHolding
  <2>2. \A z \in Securities : b.position[z].quantity = a.position[z].quantity + IF z = s THEN -quantity ELSE 0
    <3>1. e.quantity = a.position[s].quantity + (-quantity)
      BY <1>2, <1>3, <1>8, <1>10, <1>22, <1>23
    <3> QED BY <1>3, <1>24, <1>25, <2>1, <3>1 DEF SoldAs
  <2>3. \A i \in DOMAIN Actions : SameRight(b.action[i], a.action[i])
    BY <1>9, <1>25 DEF SoldAs, DisposesAll
  <2> QED BY <1>25, <2>2, <2>3 DEF Traded, SoldAs
<1> QED
  BY <1>1, <1>13, <1>29, <1>30

\* A fill that may be made, of a buy or of a sale, with its fee, its lots, the
\* tax on the dividends of the lots it sells and the sale's delayed proceeds,
\* leaves the account sound and moves as many shares as it says.
THEOREM FilledSound ==
  ASSUME NEW a, Sound(a), NEW id \in Orders, a.reserved[id].side # "none", NEW quantity, NEW price \in Nat,
         MayFill(a, id, quantity, price, Filled(a, id, quantity, price))
  PROVE  /\ Sound(Filled(a, id, quantity, price))
         /\ Traded(a, Filled(a, id, quantity, price), a.reserved[id].s,
                   IF a.reserved[id].side = "buy" THEN quantity ELSE -quantity)
<1>1. a.reserved[id].side \in {"buy", "sell"} /\ a.reserved[id].left \in Nat
  BY SoundOrder DEF ReservationSet
<1>2. quantity \in 1..a.reserved[id].left /\ quantity \in Nat
  <2>1. quantity \in 1..a.reserved[id].left
    BY DEF MayFill
  <2> QED BY <1>1, <2>1
<1>3. PICK value \in Nat : value = quantity * price
  <2> SUFFICES ASSUME NEW x \in Nat, NEW y \in Nat PROVE x * y \in Nat
    BY <1>2
  <2> QED OBVIOUS
<1>4. CASE a.reserved[id].side = "buy"
  <2>1. value + Charge(a.reserved[id], value) <= a.cash - Others(a, id)
    BY <1>3, <1>4 DEF MayFill
  <2>2. Filled(a, id, quantity, price) = Bought(a, id, quantity, value)
    BY <1>3, <1>4 DEF Filled
  <2> QED BY <1>2, <1>4, <2>1, <2>2, BoughtSound
<1>5. CASE a.reserved[id].side = "sell"
  <2>1. Filled(a, id, quantity, price) = Sold(a, id, quantity, value)
    BY <1>3, <1>5 DEF Filled
  <2>2. /\ quantity <= a.position[a.reserved[id].s].frozen
        /\ Sold(a, id, quantity, value).cash >= Others(a, id)
        /\ Frozen(Sold(a, id, quantity, value)) <= Sold(a, id, quantity, value).cash
    BY <1>5, <2>1 DEF MayFill
  <2> QED BY <1>2, <1>5, <2>1, <2>2, SoldSound
<1> QED
  BY <1>1, <1>4, <1>5

-----------------------------------------------------------------------------
(* The next session.                                                       *)

\* What waits for the sessions up to a day, and the rest.
Unlocks(new, ready, locks, day) ==
  /\ new = [d \in Days |-> IF d <= day THEN 0 ELSE locks[d]]
  /\ ready = Total(LAMBDA d : locks[d], 1..day)
LEMMA LocksReady ==
  ASSUME NEW locks \in [Days -> Nat], NEW day \in Nat, day <= Sessions,
         NEW new, NEW ready, Unlocks(new, ready, locks, day)
  PROVE  /\ new \in [Days -> Nat] /\ ready \in Nat /\ Locked(new) \in Nat
         /\ Locked(locks) = ready + Locked(new)
<1> DEFINE T == 1..day
           g == [d \in Days |-> locks[d]]
           h == [d \in Days |-> new[d]]
<1>1. IsFiniteSet(Days) /\ Days \subseteq Nat /\ T \in SUBSET Days
  <2>1. Sessions \in Nat
    BY AccountShape
  <2> QED BY <2>1, AccountParts DEF Days
<1>2. new = [d \in Days |-> IF d <= day THEN 0 ELSE locks[d]] /\ new \in [Days -> Nat]
  BY DEF Unlocks
<1>3. g \in [Days -> Int] /\ h \in [Days -> Int] /\ h \in [Days -> Nat]
  BY <1>2
<1>4. ready = SumFunction(Restrict(g, T))
  <2>1. Restrict(g, T) = [d \in 1..day |-> locks[d]]
    BY <1>1 DEF Restrict
  <2> QED BY <2>1 DEF Total, Unlocks
<1>5. Restrict(h, Days \ T) = Restrict(g, Days \ T)
  <2>1. \A d \in Days \ T : d > day
    BY <1>1, 1 \in Nat DEF Days
  <2>2. \A d \in Days \ T : h[d] = g[d]
    BY <1>1, <1>2, <2>1
  <2> HIDE DEF g, h, T
  <2> QED BY <2>2 DEF Restrict
<1>6. \A d \in Days \ (Days \ T) : h[d] = 0
  BY <1>1, <1>2
<1>7. Restrict(g, T) \in [T -> Nat] /\ IsFiniteSet(T)
  <2>1. IsFiniteSet(T)
    BY <1>1, FS_Subset
  <2> QED BY <1>1, <2>1 DEF Restrict
<1>8. Locked(locks) = SumFunction(g) /\ Locked(new) = SumFunction(h)
  BY DEF Locked
<1> HIDE DEF g, h, T
<1>9. SumFunction(g) = SumFunction(Restrict(g, T)) + SumFunction(Restrict(g, Days \ T))
  BY <1>1, <1>3, SumInParts
<1>10. SumFunction(h) = SumFunction(Restrict(h, Days \ T))
  <2>1. PICK U \in SUBSET Days : U = Days \ T
    OBVIOUS
  <2>2. \A d \in Days \ U : h[d] = 0
    BY <1>6, <2>1
  <2>3. SumFunction(h) = SumFunction(Restrict(h, U))
    BY <1>1, <1>3, <2>2, SumInside
  <2> QED BY <2>1, <2>3
<1>11. SumFunction(Restrict(g, T)) \in Nat /\ SumFunction(h) \in Nat
  BY <1>1, <1>3, <1>7, SumNatural
<1> QED
  BY <1>2, <1>4, <1>5, <1>8, <1>9, <1>10, <1>11

\* A day later more of the lots are ripe.
LEMMA HoldingLater ==
  ASSUME NEW p \in PositionSet, NEW s, NEW day \in Nat, NEW R, Holding(p, s, day, R), NEW later \in Nat, day <= later
  PROVE  Holding(p, s, later, R)
<1>1. p.lots \in Seq(LotSet) /\ p.frozen \in Nat
  BY DEF PositionSet
<1>2. FineLots(p.lots, s, later, R)
  BY <1>1, SequenceShape, SMTT(40) DEF Holding, FineLots, FineLot, LotSet
<1>3. Ripe(day) \in [LotSet -> Int] /\ Ripe(later) \in [LotSet -> Int]
  BY LotMeasures
<1>4. Lighter(Ripe(day), Ripe(later))
  BY DEF Lighter, Ripe, LotSet
<1>5. PICK x \in Int, y \in Int : x = Weight(Ripe(day), p.lots) /\ y = Weight(Ripe(later), p.lots) /\ x <= y
  BY <1>1, <1>3, <1>4, WeightInteger, WeightLighter
<1>6. p.frozen <= y
  <2>1. p.frozen <= x
    BY <1>5 DEF Holding
  <2> QED BY <1>1, <1>5, <2>1
<1> QED
  BY <1>2, <1>5, <1>6 DEF Holding

\* Cash that a session unlocks was locked before: settling leaves the account
\* sound and touches no position and no right.
THEOREM SettleSound ==
  ASSUME NEW a, Sound(a), NEW day \in Nat, a.day <= day, day <= Sessions
  PROVE  /\ Sound(Settle(a, day))
         /\ Settle(a, day).action = a.action /\ Settle(a, day).position = a.position /\ Settle(a, day).day = day
<1>1. /\ a \in AccountSet
      /\ Holdings(a) /\ Bookings(a) /\ Rights(a) /\ Sharing(a) /\ Freezes(a) /\ Money(a)
  BY DEF Sound
<1>2. /\ a.cash \in Nat /\ a.frozen \in Nat /\ a.blocked \in Nat /\ a.locks \in [Days -> Nat] /\ a.day \in Nat
      /\ a.realized \in Int /\ a.receivable \in Nat /\ a.position \in [Securities -> PositionSet]
      /\ a.action \in [DOMAIN Actions -> ActionSet]
  BY <1>1, AccountFields
<1>3. PICK locks, ready : Unlocks(locks, ready, a.locks, day)
  BY DEF Unlocks
<1>4. /\ locks \in [Days -> Nat] /\ ready \in Nat /\ Locked(locks) \in Nat
      /\ Locked(a.locks) = ready + Locked(locks)
  BY <1>2, <1>3, LocksReady
<1>5. PICK blocked \in Nat : blocked = a.blocked - ready /\ blocked = Locked(locks) /\ blocked <= a.blocked
  BY <1>1, <1>2, <1>4 DEF Money
<1>6. PICK b : b = Settle(a, day)
  OBVIOUS
<1>7. b = [a EXCEPT !.day = day, !.blocked = blocked, !.locks = locks]
  BY <1>3, <1>5, <1>6 DEF Settle, Unlocks
<1>8. day \in 0..Sessions
  BY AccountShape
<1>9. /\ b \in AccountSet /\ b.cash = a.cash /\ b.frozen = a.frozen /\ b.blocked = blocked /\ b.locks = locks
      /\ b.day = day /\ b.realized = a.realized /\ b.receivable = a.receivable /\ b.action = a.action
      /\ b.position = a.position /\ b.reserved = a.reserved
  BY <1>1, <1>4, <1>7, <1>8 DEF AccountSet
<1>10. Holdings(b)
  BY <1>1, <1>2, <1>9, HoldingLater DEF Holdings
<1>11. Rights(b)
  <2> SUFFICES ASSUME NEW i \in DOMAIN Actions PROVE Right(a.action[i], day)
    BY <1>1, <1>9 DEF Rights
  <2>1. Right(a.action[i], a.day) /\ a.action[i].recorded \in Seq(LotSet)
    BY <1>1, <1>2 DEF Rights, ActionSet
  <2>2. \A k \in DOMAIN a.action[i].recorded : a.action[i].recorded[k].acquired \in Nat
    <3>1. \A l \in LotSet : l.acquired \in Nat
      BY DEF LotSet
    <3> QED BY <2>1, <3>1, SequenceShape
  <2>3. \A k \in DOMAIN a.action[i].recorded : a.action[i].recorded[k].acquired <= day
    BY <1>2, <2>1, <2>2 DEF Right
  <2> QED BY <2>1, <2>3 DEF Right
<1>12. Money(b)
  <2>1. Frozen(b) <= b.cash
    BY <1>1, <1>2, <1>5, <1>9 DEF Money, Frozen
  <2> QED BY <1>1, <1>5, <1>9, <2>1 DEF Money
<1>13. Bookings(b) /\ Sharing(b) /\ Freezes(b)
  BY <1>1, <1>9 DEF Bookings, Sharing, Freezes
<1> QED
  BY <1>6, <1>9, <1>10, <1>11, <1>12, <1>13 DEF Sound

-----------------------------------------------------------------------------
(* Corporate actions: one action and the position of its security change.  *)

\* More rights may be claimed.
LEMMA HoldingMore ==
  ASSUME NEW p, NEW s, NEW day, NEW R, NEW T, R \subseteq T, Holding(p, s, day, R)
  PROVE  Holding(p, s, day, T)
<1> QED
  BY DEF Holding, FineLots, FineLot

\* One action and one position are replaced, and with them what is on its way.
Reacts(a, b, i, x, s, p) ==
  /\ b.day = a.day /\ b.frozen = a.frozen /\ b.blocked = a.blocked /\ b.locks = a.locks /\ b.reserved = a.reserved
  /\ b.action = [a.action EXCEPT ![i] = x] /\ b.position = [a.position EXCEPT ![s] = p]
  /\ Frozen(b) <= b.cash
  /\ b.receivable = a.receivable + NetDue(x) - NetDue(a.action[i])
  /\ (b.cash + b.receivable + p.cost) - (a.cash + a.receivable + a.position[s].cost) = b.realized - a.realized
ReactsRights(a, i, x, s, p) ==
  /\ Right(x, a.day) /\ Unpaid(x, i) /\ Shared(x, i, p.lots)
  /\ a.action[i].registered => x.registered
  /\ \A j \in DOMAIN Actions \ {i} : Actions[j].s = s =>
       /\ Weight(GrossOf(j), p.lots) = Weight(GrossOf(j), a.position[s].lots)
       /\ Weight(InitialOf(j), p.lots) = Weight(InitialOf(j), a.position[s].lots)

LEMMA Reacted ==
  ASSUME NEW a, Sound(a), NEW b \in AccountSet, NEW i \in DOMAIN Actions, NEW x \in ActionSet,
         NEW s, s = Actions[i].s, NEW p \in PositionSet, p.frozen = a.position[s].frozen,
         Holding(p, s, a.day, Registers(b.action)),
         Reacts(a, b, i, x, s, p), ReactsRights(a, i, x, s, p)
  PROVE  Sound(b)
<1>1. /\ a \in AccountSet /\ s \in Securities
      /\ Holdings(a) /\ Bookings(a) /\ Rights(a) /\ Sharing(a) /\ Freezes(a) /\ Money(a)
  BY AccountParts DEF Sound
<1>2. /\ a.action \in [DOMAIN Actions -> ActionSet] /\ a.position \in [Securities -> PositionSet]
      /\ a.cash \in Nat /\ a.receivable \in Nat /\ a.realized \in Int
      /\ b.cash \in Nat /\ b.receivable \in Nat /\ b.realized \in Int
      /\ a.position[s].cost \in Nat /\ p.cost \in Nat
  BY <1>1, AccountFields DEF PositionSet
<1>3. /\ b.day = a.day /\ b.frozen = a.frozen /\ b.blocked = a.blocked /\ b.locks = a.locks /\ b.reserved = a.reserved
      /\ b.action = [a.action EXCEPT ![i] = x] /\ b.position = [a.position EXCEPT ![s] = p]
      /\ Frozen(b) <= b.cash
      /\ b.receivable = a.receivable + NetDue(x) - NetDue(a.action[i])
      /\ (b.cash + b.receivable + p.cost) - (a.cash + a.receivable + a.position[s].cost) = b.realized - a.realized
  BY DEF Reacts
<1>4. /\ b.action[i] = x /\ \A j \in DOMAIN Actions \ {i} : b.action[j] = a.action[j]
      /\ b.position[s] = p /\ \A z \in Securities \ {s} : b.position[z] = a.position[z]
  BY <1>1, <1>2, <1>3
<1>5. Registers(a.action) \subseteq Registers(b.action)
  BY <1>4 DEF Registers, ReactsRights
<1>6. Holdings(b)
  <2> SUFFICES ASSUME NEW z \in Securities PROVE Holding(b.position[z], z, b.day, Registers(b.action))
    BY DEF Holdings
  <2>1. Holding(a.position[z], z, a.day, Registers(a.action))
    BY <1>1 DEF Holdings
  <2>2. Holding(a.position[z], z, a.day, Registers(b.action))
    BY <1>5, <2>1, HoldingMore
  <2> QED BY <1>3, <1>4, <2>2
<1>7. Rights(b)
  BY <1>1, <1>3, <1>4 DEF Rights, ReactsRights
<1>8. Sharing(b)
  <2> SUFFICES ASSUME NEW j \in DOMAIN Actions PROVE Shared(b.action[j], j, b.position[Actions[j].s].lots)
    BY DEF Sharing
  <2>1. CASE j = i
    BY <1>4, <2>1 DEF ReactsRights
  <2>2. CASE j # i
    <3>1. Shared(a.action[j], j, a.position[Actions[j].s].lots) /\ b.action[j] = a.action[j] /\ Actions[j].s \in Securities
      BY <1>1, <1>4, <2>2, AccountParts DEF Sharing
    <3>2. CASE Actions[j].s = s
      BY <1>4, <2>2, <3>1, <3>2 DEF Shared, ReactsRights
    <3>3. CASE Actions[j].s # s
      BY <1>4, <3>1, <3>3
    <3> QED BY <3>2, <3>3
  <2> QED BY <2>1, <2>2
<1>9. Freezes(b) /\ Bookings(b)
  BY <1>1, <1>3, <1>4 DEF Freezes, Bookings
<1>10. Money(b)
  <2>1. /\ a.frozen = Reserved(a.reserved) /\ a.blocked = Locked(a.locks) /\ a.receivable = Coming(a.action)
        /\ a.cash + a.receivable + Costs(a.position) = InitialCash + a.realized
    BY <1>1 DEF Money
  <2>2. b.receivable = Coming(b.action)
    BY <1>2, <1>3, <2>1, ComingChange
  <2>3. Costs(a.position) \in Nat /\ Costs(b.position) = Costs(a.position) + p.cost - a.position[s].cost
    BY <1>1, <1>2, <1>3, CostsChange
  <2>4. b.cash + b.receivable + Costs(b.position) = InitialCash + b.realized
    <3>1. InitialCash \in Nat
      BY AccountShape
    <3> QED BY <1>2, <1>3, <2>1, <2>3, <3>1
  <2> QED BY <1>3, <2>1, <2>2, <2>4 DEF Money
<1> QED
  BY <1>6, <1>7, <1>8, <1>9, <1>10 DEF Sound

\* What an account is of its parts.
ActedAs(b, a, cash, realized, receivable, action, position) ==
  /\ b \in AccountSet
  /\ b.cash = cash /\ b.frozen = a.frozen /\ b.blocked = a.blocked /\ b.locks = a.locks /\ b.day = a.day
  /\ b.realized = realized /\ b.receivable = receivable /\ b.action = action
  /\ b.position = position /\ b.reserved = a.reserved
LEMMA ActedMade ==
  ASSUME NEW a \in AccountSet, NEW cash \in Nat, NEW realized \in Int, NEW receivable \in Nat,
         NEW action \in [DOMAIN Actions -> ActionSet], NEW position \in [Securities -> PositionSet], NEW b,
         b = [a EXCEPT !.cash = cash, !.realized = realized, !.receivable = receivable, !.action = action,
                       !.position = position]
  PROVE  ActedAs(b, a, cash, realized, receivable, action, position)
BY DEF AccountSet, ActedAs

\* What is on its way of one dividend is there.
LEMMA ComingCovers ==
  ASSUME NEW a, Sound(a), NEW i \in DOMAIN Actions
  PROVE  /\ Net(a.action[i]) \in Nat /\ NetDue(a.action[i]) \in Nat
         /\ NetDue(a.action[i]) <= a.receivable
<1> DEFINE g == [j \in DOMAIN Actions |-> NetDue(a.action[j])]
<1>1. a.receivable = Coming(a.action) /\ a.action \in [DOMAIN Actions -> ActionSet] /\ Rights(a)
  BY AccountFields DEF Sound, Money
<1>2. \A j \in DOMAIN Actions : Net(a.action[j]) \in Nat /\ NetDue(a.action[j]) \in Nat
  <2> SUFFICES ASSUME NEW j \in DOMAIN Actions PROVE Net(a.action[j]) \in Nat /\ NetDue(a.action[j]) \in Nat
    OBVIOUS
  <2>1. PICK gross \in Nat, initial \in Nat : gross = a.action[j].gross /\ initial = a.action[j].initial /\ initial <= gross
    BY <1>1 DEF Rights, Right, ActionSet
  <2>2. gross - initial \in Nat
    BY <2>1
  <2> QED BY <2>1, <2>2 DEF Net, NetDue
<1>3. g \in [DOMAIN Actions -> Nat] /\ IsFiniteSet(DOMAIN Actions)
  BY <1>2, AccountParts
<1>4. g[i] = NetDue(a.action[i]) /\ Coming(a.action) = SumFunction(g)
  BY DEF Coming
<1> HIDE DEF g
<1>5. g[i] <= SumFunction(g)
  BY <1>3, TermInSum
<1> QED
  BY <1>1, <1>2, <1>4, <1>5

\* From account a to b by action i, which gets the flags f.
FlagsOf(x) == <<x.registered, x.ex, x.paid>>
Turns(a, b, i, f) ==
  /\ b.day = a.day
  /\ FlagsOf(b.action[i]) = f /\ \A j \in DOMAIN Actions \ {i} : FlagsOf(b.action[j]) = FlagsOf(a.action[j])
  /\ \A z \in Securities \ {Actions[i].s} : b.position[z] = a.position[z]
KeepsShares(a, b) == \A s \in Securities : b.position[s].quantity = a.position[s].quantity

\* What an action that turns looks like.
PaidAction(y, x) ==
  /\ y \in ActionSet /\ y.registered = x.registered /\ y.ex = x.ex /\ y.paid /\ y.recorded = x.recorded
  /\ y.gross = x.gross /\ y.initial = x.initial /\ SoldOf(y) = SoldOf(x) /\ y.withheld = x.withheld
LEMMA PaidMade ==
  ASSUME NEW x \in ActionSet, NEW y, y = [x EXCEPT !.paid = TRUE]
  PROVE  PaidAction(y, x)
<1>1. /\ y \in ActionSet /\ y.registered = x.registered /\ y.ex = x.ex /\ y.paid /\ y.recorded = x.recorded
      /\ y.gross = x.gross /\ y.initial = x.initial /\ y.sold = x.sold /\ y.withheld = x.withheld
  BY DEF ActionSet
<1>2. SoldOf(y) = SoldOf(x)
  BY <1>1 DEF SoldOf
<1> QED
  BY <1>1, <1>2 DEF PaidAction

\* A dividend that is on its way is paid once: what was receivable is cash, and
\* the account stays sound.
THEOREM PaySound ==
  ASSUME NEW a, Sound(a), NEW i \in DOMAIN Actions, a.action[i].ex, ~a.action[i].paid
  PROVE  /\ Sound(Pay(a, i)) /\ KeepsShares(a, Pay(a, i))
         /\ Turns(a, Pay(a, i), i, <<a.action[i].registered, TRUE, TRUE>>)
<1>1. /\ a \in AccountSet /\ a.action \in [DOMAIN Actions -> ActionSet] /\ a.position \in [Securities -> PositionSet]
      /\ a.cash \in Nat /\ a.receivable \in Nat /\ a.realized \in Int /\ a.frozen \in Nat /\ a.blocked \in Nat
      /\ Rights(a) /\ Sharing(a) /\ Frozen(a) <= a.cash
  BY AccountFields DEF Sound, Money
<1>2. PICK s \in Securities : s = Actions[i].s
  BY AccountParts
<1>3. PICK q \in PositionSet : q = a.position[s] /\ Holding(q, s, a.day, Registers(a.action)) /\ q.cost \in Nat
  BY <1>1, SoundHolding
<1>4. PICK x \in ActionSet : x = a.action[i] /\ Right(x, a.day) /\ Unpaid(x, i) /\ Shared(x, i, q.lots) /\ x.ex /\ ~x.paid
  BY <1>1, <1>2, <1>3 DEF Rights, Sharing
<1>5. PICK y : y = [x EXCEPT !.paid = TRUE]
  OBVIOUS
<1>6. PaidAction(y, x)
  BY <1>5, PaidMade
<1>7. PICK net \in Nat : net = Net(x) /\ net = NetDue(x) /\ net <= a.receivable
  BY <1>4, ComingCovers DEF NetDue
<1>8. PICK cash \in Nat, receivable \in Nat : cash = a.cash + net /\ receivable = a.receivable - net
  BY <1>1, <1>7
<1>9. PICK action \in [DOMAIN Actions -> ActionSet] : action = [a.action EXCEPT ![i] = y]
  BY <1>1, <1>6 DEF PaidAction
<1>10. PICK b : b = Pay(a, i)
  OBVIOUS
<1>11. PICK position, realized : position = a.position /\ realized = a.realized
  OBVIOUS
<1>12. b = [a EXCEPT !.cash = cash, !.realized = realized, !.receivable = receivable, !.action = action,
                     !.position = position]
  BY <1>1, <1>4, <1>5, <1>7, <1>8, <1>9, <1>10, <1>11 DEF Pay, AccountSet
<1>13. ActedAs(b, a, cash, realized, receivable, action, position)
  BY <1>1, <1>11, <1>12, ActedMade
<1>14. /\ b \in AccountSet
       /\ b.cash = cash /\ b.frozen = a.frozen /\ b.blocked = a.blocked /\ b.locks = a.locks /\ b.day = a.day
       /\ b.realized = realized /\ b.receivable = receivable /\ b.action = action
       /\ b.position = position /\ b.reserved = a.reserved
  BY <1>13 DEF ActedAs
<1>15. b.action[i] = y /\ \A j \in DOMAIN Actions \ {i} : b.action[j] = a.action[j]
  BY <1>1, <1>9, <1>14
<1>16. NetDue(y) = 0
  BY <1>6 DEF NetDue, PaidAction
<1>17. Frozen(b) <= b.cash
  BY <1>1, <1>7, <1>8, <1>14 DEF Frozen
<1>18. b.receivable = a.receivable + NetDue(y) - NetDue(a.action[i])
  BY <1>1, <1>4, <1>7, <1>8, <1>14, <1>16
<1>19. (b.cash + b.receivable + q.cost) - (a.cash + a.receivable + a.position[s].cost) = b.realized - a.realized
  <2>1. PICK c \in Nat : c = q.cost /\ c = a.position[s].cost
    BY <1>3
  <2> QED BY <1>1, <1>7, <1>8, <1>11, <1>14, <2>1
<1>20. b.position = [a.position EXCEPT ![s] = q]
  BY <1>1, <1>3, <1>11, <1>14
<1>21. Reacts(a, b, i, y, s, q)
  BY <1>9, <1>14, <1>17, <1>18, <1>19, <1>20 DEF Reacts
<1>22. Right(y, a.day) /\ Unpaid(y, i) /\ Shared(y, i, q.lots)
  BY <1>4, <1>6 DEF PaidAction, Right, Unpaid, Shared
<1>23. ReactsRights(a, i, y, s, q)
  BY <1>3, <1>4, <1>6, <1>22 DEF ReactsRights, PaidAction
<1>24. Registers(b.action) = Registers(a.action)
  BY <1>4, <1>6, <1>15 DEF Registers, PaidAction
<1>25. Sound(b)
  BY <1>2, <1>3, <1>6, <1>14, <1>21, <1>23, <1>24, Reacted DEF PaidAction
<1>26. KeepsShares(a, b)
  BY <1>11, <1>14 DEF KeepsShares
<1>27. Turns(a, b, i, <<a.action[i].registered, TRUE, TRUE>>)
  BY <1>4, <1>6, <1>11, <1>14, <1>15 DEF Turns, FlagsOf, PaidAction
<1> QED
  BY <1>10, <1>25, <1>26, <1>27

\* The lots that have a right, and what they are together.
EntitledLots(a, i) ==
  LET lots == a.position[Actions[i].s].lots
  IN  {k \in DOMAIN lots : Actions[i].settled => lots[k].from <= a.day}
LEMMA EntitledAll ==
  ASSUME NEW a, Sound(a), NEW i \in DOMAIN Actions
  PROVE  /\ Entitled(a, i) \in Seq(LotSet) /\ Shares(Entitled(a, i)) \in Nat
         /\ Shares(Entitled(a, i))
              = SumFunction([k \in EntitledLots(a, i) |-> Sizes[a.position[Actions[i].s].lots[k]]])
         /\ \A j \in DOMAIN Entitled(a, i) : Entitled(a, i)[j].acquired <= a.day
<1>1. PICK s \in Securities : s = Actions[i].s
  BY AccountParts
<1>2. PICK lots \in Seq(LotSet) : lots = a.position[s].lots /\ FineLots(lots, s, a.day, Registers(a.action))
  BY SoundHolding DEF Holding
<1>3. PICK T \in SUBSET DOMAIN lots : T = EntitledLots(a, i) /\ Entitled(a, i) = Picked(lots, T)
  BY <1>1, <1>2 DEF Entitled, EntitledLots
<1>4. Sizes \in [LotSet -> Int]
  BY LotMeasures, 0 \in Nat
<1>5. /\ Picked(lots, T) \in Seq(LotSet)
      /\ \A j \in DOMAIN Picked(lots, T) : \E k \in T : Picked(lots, T)[j] = lots[k]
      /\ Weight(Sizes, Picked(lots, T)) = SumFunction([k \in T |-> Sizes[lots[k]]])
  BY <1>4, PickedAll
<1>6. Shares(Picked(lots, T)) = Weight(Sizes, Picked(lots, T)) /\ Shares(Picked(lots, T)) \in Nat
  BY <1>5, SharesAre
<1>7. \A j \in DOMAIN Picked(lots, T) : Picked(lots, T)[j].acquired <= a.day
  BY <1>2, <1>5 DEF FineLots, FineLot
<1> QED
  BY <1>1, <1>2, <1>3, <1>5, <1>6, <1>7

RecordedAction(y, x, quantity, gross, initial, recorded) ==
  /\ y \in ActionSet /\ y.registered /\ y.ex = x.ex /\ y.paid = x.paid /\ y.recorded = recorded
  /\ y.quantity = quantity /\ y.gross = gross /\ y.initial = initial /\ SoldOf(y) = SoldOf(x) /\ y.withheld = x.withheld
Records(y, x, quantity, gross, initial, recorded) ==
  y = [x EXCEPT !.registered = TRUE, !.quantity = quantity, !.gross = gross, !.initial = initial, !.recorded = recorded]
LEMMA RecordedMade ==
  ASSUME NEW x \in ActionSet, NEW quantity \in Nat, NEW gross \in Nat, NEW initial \in Nat, NEW recorded \in Seq(LotSet),
         NEW y, Records(y, x, quantity, gross, initial, recorded)
  PROVE  RecordedAction(y, x, quantity, gross, initial, recorded)
<1>1. /\ y \in ActionSet /\ y.registered /\ y.ex = x.ex /\ y.paid = x.paid /\ y.recorded = recorded
      /\ y.quantity = quantity /\ y.gross = gross /\ y.initial = initial /\ y.sold = x.sold /\ y.withheld = x.withheld
  BY DEF ActionSet, Records
<1>2. SoldOf(y) = SoldOf(x)
  BY <1>1 DEF SoldOf
<1> QED
  BY <1>1, <1>2 DEF RecordedAction

\* The lots of a position are replaced by as many shares.
Relots(p, q, lots, s, day, R) ==
  /\ p = [q EXCEPT !.lots = lots]
  /\ FineLots(lots, s, day, R)
  /\ Weight(Sizes, lots) = Weight(Sizes, q.lots) /\ Weight(Ripe(day), lots) = Weight(Ripe(day), q.lots)
LEMMA HoldsSame ==
  ASSUME NEW q \in PositionSet, NEW s, NEW day, NEW R, NEW T, Holding(q, s, day, R),
         NEW lots, NEW p, Relots(p, q, lots, s, day, T)
  PROVE  /\ p \in PositionSet /\ Holding(p, s, day, T)
         /\ p.quantity = q.quantity /\ p.frozen = q.frozen /\ p.cost = q.cost /\ p.lots = lots
<1>1. lots \in Seq(LotSet)
  BY DEF Relots, FineLots
<1>2. /\ p \in PositionSet
      /\ p.quantity = q.quantity /\ p.frozen = q.frozen /\ p.cost = q.cost /\ p.lots = lots
  BY <1>1 DEF Relots, PositionSet
<1> QED
  BY <1>2 DEF Relots, Holding

\* A right is recorded: no money moves, and no share.
RegistersAs(b, a, i, y, s, p) ==
  b = [a EXCEPT !.action = [a.action EXCEPT ![i] = y], !.position = [a.position EXCEPT ![s] = p]]
RegisterFits(x, y, i, quantity, gross, initial, recorded, lots, day) ==
  /\ Records(y, x, quantity, gross, initial, recorded)
  /\ \A k \in DOMAIN recorded : recorded[k].acquired <= day
  /\ initial <= gross /\ (Actions[i].kind # "dividend" => gross = 0 /\ initial = 0)
  /\ Weight(GrossOf(i), lots) = gross /\ Weight(InitialOf(i), lots) = initial
RegisterKeeps(i, s, lots, q) ==
  \A j \in DOMAIN Actions \ {i} : Actions[j].s = s =>
    /\ Weight(GrossOf(j), lots) = Weight(GrossOf(j), q.lots)
    /\ Weight(InitialOf(j), lots) = Weight(InitialOf(j), q.lots)
LEMMA RecordSound ==
  ASSUME NEW a, Sound(a), NEW i \in DOMAIN Actions, ~a.action[i].registered,
         NEW quantity \in Nat, NEW gross \in Nat, NEW initial \in Nat, NEW recorded \in Seq(LotSet),
         NEW s, s = Actions[i].s, NEW lots, NEW y, NEW p, NEW b,
         RegisterFits(a.action[i], y, i, quantity, gross, initial, recorded, lots, a.day),
         Relots(p, a.position[s], lots, s, a.day, Registers(a.action) \cup {i}),
         RegisterKeeps(i, s, lots, a.position[s]), RegistersAs(b, a, i, y, s, p)
  PROVE  Sound(b) /\ KeepsShares(a, b) /\ Turns(a, b, i, <<TRUE, FALSE, FALSE>>)
<1>1. /\ a \in AccountSet /\ a.action \in [DOMAIN Actions -> ActionSet] /\ a.position \in [Securities -> PositionSet]
      /\ a.cash \in Nat /\ a.receivable \in Nat /\ a.realized \in Int /\ a.frozen \in Nat /\ a.blocked \in Nat
      /\ Rights(a) /\ Frozen(a) <= a.cash /\ s \in Securities
  BY AccountFields, AccountParts DEF Sound, Money
<1>2. PICK q \in PositionSet : q = a.position[s] /\ Holding(q, s, a.day, Registers(a.action)) /\ q.cost \in Nat
  BY <1>1, SoundHolding
<1>3. PICK x \in ActionSet : x = a.action[i] /\ Right(x, a.day) /\ ~x.registered /\ ~x.ex /\ ~x.paid
  BY <1>1 DEF Rights, Right
<1>4. SoldOf(x) = 0 /\ x.withheld = 0
  BY <1>3 DEF Right
<1>5. RecordedAction(y, x, quantity, gross, initial, recorded)
  BY <1>3, RecordedMade DEF RegisterFits
<1>6. /\ y \in ActionSet /\ y.registered /\ ~y.ex /\ ~y.paid /\ y.recorded = recorded /\ y.quantity = quantity
      /\ y.gross = gross /\ y.initial = initial /\ SoldOf(y) = 0 /\ y.withheld = 0
  BY <1>3, <1>4, <1>5 DEF RecordedAction
<1>7. PICK R : R = Registers(a.action) \cup {i}
  OBVIOUS
<1>8. /\ p \in PositionSet /\ Holding(p, s, a.day, R)
      /\ p.quantity = q.quantity /\ p.frozen = q.frozen /\ p.cost = q.cost /\ p.lots = lots
  BY <1>2, <1>7, HoldsSame
<1>9. PICK action \in [DOMAIN Actions -> ActionSet], position \in [Securities -> PositionSet] :
        action = [a.action EXCEPT ![i] = y] /\ position = [a.position EXCEPT ![s] = p]
  BY <1>1, <1>6, <1>8
<1>10. PICK cash \in Nat, receivable \in Nat, realized \in Int :
         cash = a.cash /\ receivable = a.receivable /\ realized = a.realized
  BY <1>1
<1>11. b = [a EXCEPT !.cash = cash, !.realized = realized, !.receivable = receivable, !.action = action,
                     !.position = position]
  BY <1>1, <1>9, <1>10 DEF RegistersAs, AccountSet
<1>12. ActedAs(b, a, cash, realized, receivable, action, position)
  BY <1>1, <1>11, ActedMade
<1>13. /\ b \in AccountSet
       /\ b.cash = a.cash /\ b.frozen = a.frozen /\ b.blocked = a.blocked /\ b.locks = a.locks /\ b.day = a.day
       /\ b.realized = a.realized /\ b.receivable = a.receivable /\ b.action = action
       /\ b.position = position /\ b.reserved = a.reserved
  BY <1>10, <1>12 DEF ActedAs
<1>14. /\ b.action[i] = y /\ \A j \in DOMAIN Actions \ {i} : b.action[j] = a.action[j]
       /\ b.position[s] = p /\ \A z \in Securities \ {s} : b.position[z] = a.position[z]
  BY <1>1, <1>9, <1>13
<1>15. NetDue(y) = 0 /\ NetDue(a.action[i]) = 0
  BY <1>3, <1>6 DEF NetDue
<1>16. Frozen(b) <= b.cash
  BY <1>1, <1>13 DEF Frozen
<1>17. b.receivable = a.receivable + NetDue(y) - NetDue(a.action[i])
  BY <1>1, <1>13, <1>15
<1>18. (b.cash + b.receivable + p.cost) - (a.cash + a.receivable + a.position[s].cost) = b.realized - a.realized
  <2>1. PICK c \in Nat : c = p.cost /\ c = a.position[s].cost
    BY <1>2, <1>8
  <2>2. PICK before, after, earned :
          /\ before = a.cash + a.receivable + a.position[s].cost /\ after = b.cash + b.receivable + p.cost
          /\ earned = b.realized - a.realized
    OBVIOUS
  <2>3. before = cash + receivable + c /\ after = cash + receivable + c /\ earned = realized - realized
    BY <1>10, <1>13, <2>1, <2>2
  <2>4. after - before = earned
    BY <2>3
  <2> QED BY <2>2, <2>4
<1>19. Reacts(a, b, i, y, s, p)
  BY <1>9, <1>13, <1>16, <1>17, <1>18 DEF Reacts
<1>20. /\ gross = Weight(GrossOf(i), lots) /\ initial = Weight(InitialOf(i), lots)
       /\ initial <= gross /\ (Actions[i].kind # "dividend" => gross = 0 /\ initial = 0)
       /\ \A k \in DOMAIN recorded : recorded[k].acquired <= a.day
  BY DEF RegisterFits
<1>21. Right(y, a.day) /\ Unpaid(y, i)
  BY <1>6, <1>20 DEF Right, Unpaid
<1>22. Shared(y, i, p.lots)
  BY <1>6, <1>8, <1>20 DEF Shared
<1>23. ReactsRights(a, i, y, s, p)
  BY <1>2, <1>3, <1>8, <1>6, <1>21, <1>22 DEF ReactsRights, RegisterKeeps
<1>24. Registers(b.action) = R
  BY <1>6, <1>7, <1>14 DEF Registers
<1>25. Sound(b)
  BY <1>1, <1>2, <1>6, <1>8, <1>13, <1>19, <1>23, <1>24, Reacted
<1>26. KeepsShares(a, b)
  BY <1>2, <1>8, <1>14 DEF KeepsShares
<1>27. Turns(a, b, i, <<TRUE, FALSE, FALSE>>)
  <2>1. y.registered = TRUE /\ y.ex = FALSE /\ y.paid = FALSE
    BY <1>6 DEF ActionSet
  <2>2. \A z \in Securities \ {Actions[i].s} : b.position[z] = a.position[z]
    BY <1>14
  <2>3. \A j \in DOMAIN Actions \ {i} : FlagsOf(b.action[j]) = FlagsOf(a.action[j])
    BY <1>14
  <2> QED BY <1>13, <1>14, <2>1, <2>2, <2>3 DEF Turns, FlagsOf
<1> QED
  BY <1>25, <1>26, <1>27

LEMMA PositionSame ==
  ASSUME NEW q \in PositionSet
  PROVE  [q EXCEPT !.lots = q.lots] = q
BY DEF PositionSet

LEMMA ActionSame ==
  ASSUME NEW x \in ActionSet, x.gross = 0, x.initial = 0, NEW quantity, NEW recorded,
         NEW y, y = [x EXCEPT !.registered = TRUE, !.quantity = quantity, !.recorded = recorded]
  PROVE  Records(y, x, quantity, 0, 0, recorded)
BY DEF ActionSet, Records

\* A right to shares, or to nothing, is recorded.
LEMMA RegisterSharesSound ==
  ASSUME NEW a, Sound(a), NEW i \in DOMAIN Actions, ~a.action[i].registered, Actions[i].kind # "dividend"
  PROVE  /\ Sound(Register(a, i)) /\ KeepsShares(a, Register(a, i))
         /\ Turns(a, Register(a, i), i, <<TRUE, FALSE, FALSE>>)
<1>1. /\ a \in AccountSet /\ a.action \in [DOMAIN Actions -> ActionSet] /\ a.position \in [Securities -> PositionSet]
      /\ Rights(a) /\ Sharing(a)
  BY AccountFields DEF Sound
<1>2. PICK s \in Securities : s = Actions[i].s
  BY AccountParts
<1>3. PICK q \in PositionSet : q = a.position[s] /\ Holding(q, s, a.day, Registers(a.action))
  BY SoundHolding
<1>4. PICK x \in ActionSet : x = a.action[i] /\ Right(x, a.day) /\ Shared(x, i, q.lots) /\ ~x.registered
  BY <1>1, <1>2, <1>3 DEF Rights, Sharing
<1>5. x.gross = 0 /\ x.initial = 0 /\ SoldOf(x) = 0 /\ x.withheld = 0
  BY <1>4 DEF Right
<1>6. PICK quantity \in Nat, recorded \in Seq(LotSet) :
        /\ quantity = Shares(Entitled(a, i)) /\ recorded = Entitled(a, i)
        /\ \A k \in DOMAIN recorded : recorded[k].acquired <= a.day
  BY EntitledAll
<1>7. PICK y : y = [x EXCEPT !.registered = TRUE, !.quantity = quantity, !.recorded = recorded]
  OBVIOUS
<1>8. Records(y, x, quantity, 0, 0, recorded)
  BY <1>5, <1>7, ActionSame
<1>9. PICK lots \in Seq(LotSet) : lots = q.lots
  BY <1>3 DEF PositionSet
<1>10. Weight(GrossOf(i), lots) = 0 /\ Weight(InitialOf(i), lots) = 0
  <2>1. PICK g \in Int, h \in Int : g = Weight(GrossOf(i), lots) /\ h = Weight(InitialOf(i), lots)
    BY LotMeasures, 0 \in Nat, WeightInteger
  <2>2. 0 = g + 0 /\ 0 = h + 0
    BY <1>4, <1>5, <1>9, <2>1 DEF Shared
  <2> QED BY <2>1, <2>2
<1>11. RegisterFits(a.action[i], y, i, quantity, 0, 0, recorded, lots, a.day)
  BY <1>4, <1>6, <1>8, <1>10 DEF RegisterFits
<1>12. Relots(q, q, lots, s, a.day, Registers(a.action) \cup {i})
  <2>1. Holding(q, s, a.day, Registers(a.action) \cup {i})
    BY <1>3, HoldingMore
  <2>2. q = [q EXCEPT !.lots = lots]
    BY <1>9, PositionSame
  <2> QED BY <1>9, <2>1, <2>2 DEF Holding, Relots
<1>13. RegisterKeeps(i, s, lots, q)
  BY <1>9 DEF RegisterKeeps
<1>14. PICK b : b = Register(a, i)
  OBVIOUS
<1>15. RegistersAs(b, a, i, y, s, q)
  <2>1. b = [a EXCEPT !.action = [a.action EXCEPT ![i] = y]]
    BY <1>4, <1>6, <1>7, <1>14, <1>1 DEF Register, AccountSet
  <2>2. a.position = [a.position EXCEPT ![s] = q]
    BY <1>1, <1>3
  <2>3. [a EXCEPT !.action = [a.action EXCEPT ![i] = y]]
          = [a EXCEPT !.action = [a.action EXCEPT ![i] = y], !.position = a.position]
    BY <1>1 DEF AccountSet
  <2> QED BY <2>1, <2>2, <2>3 DEF RegistersAs
<1>16. 0 \in Nat
  OBVIOUS
<1>17. Sound(b) /\ KeepsShares(a, b) /\ Turns(a, b, i, <<TRUE, FALSE, FALSE>>)
  BY <1>2, <1>3, <1>11, <1>12, <1>13, <1>15, <1>16, RecordSound
<1> QED
  BY <1>14, <1>17

-----------------------------------------------------------------------------
(* A dividend is attached lot by lot.                                      *)

\* The shares of a lot that have a right to dividend i.
Owed(i, day) == [l \in LotSet |-> IF Actions[i].settled /\ l.from > day THEN 0 ELSE l.quantity]
Claiming(lot, i, c) == [lot EXCEPT !.claims = [j \in DOMAIN @ \cup {i} |-> IF j = i THEN c ELSE @[j]]]
ClaimsMore(l, lot, i, c, s, day, R) ==
  /\ FineLot(l, s, day, R \cup {i})
  /\ Sizes[l] = Sizes[lot] /\ Ripe(day)[l] = Ripe(day)[lot]
  /\ GrossOf(i)[l] = c.gross /\ InitialOf(i)[l] = c.initial
  /\ \A j \in DOMAIN Actions \ {i} : GrossOf(j)[l] = GrossOf(j)[lot] /\ InitialOf(j)[l] = InitialOf(j)[lot]
LEMMA ClaimingOne ==
  ASSUME NEW s, NEW day \in Nat, NEW R, NEW lot, FineLot(lot, s, day, R), NEW i \in DOMAIN Actions, i \notin R,
         Actions[i].s = s, NEW c \in ClaimSet, c.quantity = lot.quantity
  PROVE  ClaimsMore(Claiming(lot, i, c), lot, i, c, s, day, R) /\ GrossOf(i)[lot] = 0 /\ InitialOf(i)[lot] = 0
<1>1. lot \in LotSet /\ lot.acquired <= day
      /\ \A j \in DOMAIN lot.claims : lot.claims[j].quantity = lot.quantity /\ Actions[j].s = s /\ j \in R
  BY DEF FineLot
<1>2. PICK D \in SUBSET DOMAIN Actions : D = DOMAIN lot.claims /\ \A j \in D : lot.claims[j] \in ClaimSet
  BY <1>1, ClaimsShape
<1>3. i \notin D
  BY <1>1, <1>2
<1>4. PICK f : f = [j \in D \cup {i} |-> IF j = i THEN c ELSE lot.claims[j]]
  OBVIOUS
<1>5. f \in [D \cup {i} -> ClaimSet] /\ D \cup {i} \in SUBSET DOMAIN Actions
  BY <1>2, <1>4
<1>6. f \in ClaimMaps /\ DOMAIN f = D \cup {i} /\ f[i] = c /\ \A j \in D : f[j] = lot.claims[j]
  BY <1>3, <1>4, <1>5, ClaimsMade
<1>7. PICK l : l = Claiming(lot, i, c)
  OBVIOUS
<1>8. l = [lot EXCEPT !.claims = f]
  BY <1>1, <1>2, <1>4, <1>7 DEF Claiming, LotSet
<1>9. l \in LotSet /\ l.acquired = lot.acquired /\ l.from = lot.from /\ l.quantity = lot.quantity /\ l.claims = f
  BY <1>1, <1>6, <1>8 DEF LotSet
<1>10. FineLot(l, s, day, R \cup {i})
  BY <1>1, <1>2, <1>6, <1>9 DEF FineLot
<1>11. Sizes[l] = Sizes[lot] /\ Ripe(day)[l] = Ripe(day)[lot]
  BY <1>1, <1>9 DEF Sizes, Ripe
<1>12. GrossOf(i)[l] = c.gross /\ InitialOf(i)[l] = c.initial
  BY <1>6, <1>9 DEF GrossOf, InitialOf
<1>13. GrossOf(i)[lot] = 0 /\ InitialOf(i)[lot] = 0
  BY <1>1, <1>2, <1>3 DEF GrossOf, InitialOf
<1>14. \A j \in DOMAIN Actions \ {i} : GrossOf(j)[l] = GrossOf(j)[lot] /\ InitialOf(j)[l] = InitialOf(j)[lot]
  BY <1>1, <1>2, <1>6, <1>9 DEF GrossOf, InitialOf
<1> QED
  BY <1>7, <1>10, <1>11, <1>12, <1>13, <1>14 DEF ClaimsMore

AttachState(n, s, day, T) ==
  /\ n = [quantity |-> n.quantity, gross |-> n.gross, initial |-> n.initial, day |-> n.day, lots |-> n.lots]
  /\ n.quantity \in Nat /\ n.gross \in Nat /\ n.initial \in Nat /\ n.day = day /\ FineLots(n.lots, s, day, T)
  /\ n.quantity = 0 => n.gross = 0 /\ n.initial = 0
\* What one lot gets.
GotShares(n, lot, i, day, m) ==
  /\ m.quantity = n.quantity - Owed(i, day)[lot]
  /\ Weight(Sizes, m.lots) = Weight(Sizes, n.lots) + Sizes[lot]
  /\ Weight(Ripe(day), m.lots) = Weight(Ripe(day), n.lots) + Ripe(day)[lot]
GotClaims(n, lot, i, m) ==
  /\ Weight(GrossOf(i), m.lots) + m.gross = Weight(GrossOf(i), n.lots) + n.gross
  /\ Weight(InitialOf(i), m.lots) + m.initial = Weight(InitialOf(i), n.lots) + n.initial
  /\ \A j \in DOMAIN Actions \ {i} :
       /\ Weight(GrossOf(j), m.lots) = Weight(GrossOf(j), n.lots) + GrossOf(j)[lot]
       /\ Weight(InitialOf(j), m.lots) = Weight(InitialOf(j), n.lots) + InitialOf(j)[lot]
AttachesTo(m, n, quantity, gross, initial, l) ==
  m = [n EXCEPT !.quantity = quantity, !.gross = gross, !.initial = initial, !.lots = Append(@, l)]
AttachedAs(m, n, quantity, gross, initial, l) ==
  /\ m.quantity = quantity /\ m.gross = gross /\ m.initial = initial
  /\ \A f \in [LotSet -> Int] : Weight(f, m.lots) = Weight(f, n.lots) + f[l] /\ Weight(f, n.lots) \in Int /\ f[l] \in Int
LEMMA AttachMade ==
  ASSUME NEW s, NEW day \in Nat, NEW T, NEW n, AttachState(n, s, day, T), NEW l, FineLot(l, s, day, T),
         NEW quantity \in Nat, NEW gross \in Nat, NEW initial \in Nat, quantity = 0 => gross = 0 /\ initial = 0,
         NEW m, AttachesTo(m, n, quantity, gross, initial, l)
  PROVE  AttachState(m, s, day, T) /\ AttachedAs(m, n, quantity, gross, initial, l)
<1>1. n = [quantity |-> n.quantity, gross |-> n.gross, initial |-> n.initial, day |-> n.day, lots |-> n.lots]
      /\ n.day = day /\ FineLots(n.lots, s, day, T)
  BY DEF AttachState
<1>2. PICK lots : lots = Append(n.lots, l) /\ FineLots(lots, s, day, T)
  BY <1>1, FineAppend
<1>3. m = [quantity |-> quantity, gross |-> gross, initial |-> initial, day |-> n.day, lots |-> lots]
  BY <1>1, <1>2 DEF AttachesTo
<1>4. n.lots \in Seq(LotSet) /\ l \in LotSet
  BY <1>1 DEF FineLots, FineLot
<1>5. \A f \in [LotSet -> Int] : Weight(f, lots) = Weight(f, n.lots) + f[l] /\ Weight(f, n.lots) \in Int /\ f[l] \in Int
  BY <1>2, <1>4, WeightAppend, WeightInteger
<1> QED
  BY <1>1, <1>2, <1>3, <1>5 DEF AttachState, AttachedAs

\* A lot without a right stays as it is.
LEMMA AttachNone ==
  ASSUME NEW s, NEW day \in Nat, NEW R, NEW i \in DOMAIN Actions, i \notin R, Actions[i].s = s,
         NEW n, AttachState(n, s, day, R \cup {i}), NEW lot, FineLot(lot, s, day, R),
         Actions[i].settled /\ lot.from > day
  PROVE  LET m == AttachOne(n, lot, i)
         IN  AttachState(m, s, day, R \cup {i}) /\ GotShares(n, lot, i, day, m) /\ GotClaims(n, lot, i, m)
<1>1. PICK T : T = R \cup {i}
  OBVIOUS
<1>2. /\ n.quantity \in Nat /\ n.gross \in Nat /\ n.initial \in Nat /\ n.day = day
      /\ n.quantity = 0 => n.gross = 0 /\ n.initial = 0
      /\ n = [quantity |-> n.quantity, gross |-> n.gross, initial |-> n.initial, day |-> n.day, lots |-> n.lots]
  BY DEF AttachState
<1>3. PICK m : m = AttachOne(n, lot, i)
  OBVIOUS
<1>4. PICK quantity \in Nat, gross \in Nat, initial \in Nat :
        quantity = n.quantity /\ gross = n.gross /\ initial = n.initial
  BY <1>2
<1>5. AttachesTo(m, n, quantity, gross, initial, lot)
  <2>1. m = [n EXCEPT !.lots = Append(@, lot)]
    BY <1>2, <1>3 DEF AttachOne
  <2> QED BY <1>2, <1>4, <2>1 DEF AttachesTo
<1>6. FineLot(lot, s, day, T) /\ lot \in LotSet
  BY <1>1 DEF FineLot
<1>7. /\ AttachState(m, s, day, T)
      /\ m.quantity = quantity /\ m.gross = gross /\ m.initial = initial
      /\ \A f \in [LotSet -> Int] : Weight(f, m.lots) = Weight(f, n.lots) + f[lot] /\ Weight(f, n.lots) \in Int /\ f[lot] \in Int
  <2>1. AttachState(n, s, day, T) /\ (quantity = 0 => gross = 0 /\ initial = 0)
    BY <1>1, <1>2, <1>4
  <2>2. AttachState(m, s, day, T) /\ AttachedAs(m, n, quantity, gross, initial, lot)
    BY <1>5, <1>6, <2>1, AttachMade
  <2> QED BY <2>2 DEF AttachedAs
<1>8. Owed(i, day)[lot] = 0
  BY <1>6 DEF Owed
<1>9. GrossOf(i)[lot] = 0 /\ InitialOf(i)[lot] = 0
  <2>1. i \notin DOMAIN lot.claims
    BY DEF FineLot
  <2> QED BY <1>6, <2>1 DEF GrossOf, InitialOf
<1>10. GotShares(n, lot, i, day, m)
  BY <1>2, <1>4, <1>7, <1>8, LotMeasures DEF GotShares
<1>11. GotClaims(n, lot, i, m)
  <2>1. Weight(GrossOf(i), m.lots) = Weight(GrossOf(i), n.lots) /\ Weight(InitialOf(i), m.lots) = Weight(InitialOf(i), n.lots)
    BY <1>7, <1>9, LotMeasures
  <2> QED BY <1>4, <1>7, <2>1, LotMeasures DEF GotClaims
<1> QED
  BY <1>1, <1>3, <1>7, <1>10, <1>11

LEMMA PartOf ==
  ASSUME NEW g \in Nat, NEW h \in Nat, NEW q \in Nat, NEW n \in Nat \ {0}, n <= q
  PROVE  ReleasedCost(g, q, n) \in 0..g /\ (n = q => ReleasedCost(g, q, n) = g) /\ q - n \in Nat /\ q # 0
<1>1. q # 0 /\ n \in 0..q /\ q - n \in Nat
  OBVIOUS
<1> QED
  BY <1>1, ReleasedPart

\* A lot with a right gets its part.
LEMMA AttachPart ==
  ASSUME NEW s, NEW day \in Nat, NEW R, NEW i \in DOMAIN Actions, i \notin R, Actions[i].s = s,
         NEW n, AttachState(n, s, day, R \cup {i}), NEW lot, FineLot(lot, s, day, R),
         ~(Actions[i].settled /\ lot.from > day), Owed(i, day)[lot] <= n.quantity
  PROVE  LET m == AttachOne(n, lot, i)
         IN  AttachState(m, s, day, R \cup {i}) /\ GotShares(n, lot, i, day, m) /\ GotClaims(n, lot, i, m)
<1>1. PICK T : T = R \cup {i}
  OBVIOUS
<1>2. /\ n.quantity \in Nat /\ n.gross \in Nat /\ n.initial \in Nat /\ n.day = day
      /\ n.quantity = 0 => n.gross = 0 /\ n.initial = 0
      /\ n = [quantity |-> n.quantity, gross |-> n.gross, initial |-> n.initial, day |-> n.day, lots |-> n.lots]
  BY DEF AttachState
<1>3. lot \in LotSet
  BY DEF FineLot
<1>4. PICK t \in Nat \ {0} : t = lot.quantity /\ t = Owed(i, day)[lot] /\ t <= n.quantity
  BY <1>3 DEF LotSet, Owed
<1>5. PICK g \in Nat, h \in Nat : g = ReleasedCost(n.gross, n.quantity, t) /\ h = ReleasedCost(n.initial, n.quantity, t)
                                  /\ g <= n.gross /\ h <= n.initial
                                  /\ (t = n.quantity => g = n.gross /\ h = n.initial)
  BY <1>2, <1>4, PartOf
<1>6. PICK c \in ClaimSet : c = [quantity |-> t, gross |-> g, initial |-> h]
  BY DEF ClaimSet
<1>7. PICK l : l = Claiming(lot, i, c)
  OBVIOUS
<1>8. ClaimsMore(l, lot, i, c, s, day, R)
  BY <1>4, <1>6, <1>7, ClaimingOne
<1>9. /\ FineLot(l, s, day, T)
      /\ Sizes[l] = Sizes[lot] /\ Ripe(day)[l] = Ripe(day)[lot]
      /\ GrossOf(i)[l] = g /\ InitialOf(i)[l] = h
      /\ \A j \in DOMAIN Actions \ {i} : GrossOf(j)[l] = GrossOf(j)[lot] /\ InitialOf(j)[l] = InitialOf(j)[lot]
  BY <1>1, <1>6, <1>8 DEF ClaimsMore
<1>10. PICK quantity \in Nat, gross \in Nat, initial \in Nat :
         /\ quantity = n.quantity - t /\ gross = n.gross - g /\ initial = n.initial - h
         /\ quantity = 0 => gross = 0 /\ initial = 0
  BY <1>2, <1>4, <1>5
<1>11. PICK m : m = AttachOne(n, lot, i)
  OBVIOUS
<1>12. AttachesTo(m, n, quantity, gross, initial, l)
  BY <1>2, <1>4, <1>5, <1>6, <1>7, <1>10, <1>11 DEF AttachOne, Claiming, AttachesTo
<1>13. /\ AttachState(m, s, day, T)
       /\ m.quantity = quantity /\ m.gross = gross /\ m.initial = initial
       /\ \A f \in [LotSet -> Int] : Weight(f, m.lots) = Weight(f, n.lots) + f[l] /\ Weight(f, n.lots) \in Int /\ f[l] \in Int
  <2>1. AttachState(n, s, day, T)
    BY <1>1
  <2>2. AttachState(m, s, day, T) /\ AttachedAs(m, n, quantity, gross, initial, l)
    BY <1>9, <1>10, <1>12, <2>1, AttachMade
  <2> QED BY <2>2 DEF AttachedAs
<1>14. GotShares(n, lot, i, day, m)
  BY <1>4, <1>9, <1>10, <1>13, LotMeasures DEF GotShares
<1>15. Weight(GrossOf(i), m.lots) + m.gross = Weight(GrossOf(i), n.lots) + n.gross
  <2>1. PICK v \in Int, w \in Int : v = Weight(GrossOf(i), m.lots) /\ w = Weight(GrossOf(i), n.lots) /\ v = w + g
    BY <1>9, <1>13, LotMeasures
  <2> QED BY <1>2, <1>10, <1>13, <2>1
<1>16. Weight(InitialOf(i), m.lots) + m.initial = Weight(InitialOf(i), n.lots) + n.initial
  <2>1. PICK v \in Int, w \in Int : v = Weight(InitialOf(i), m.lots) /\ w = Weight(InitialOf(i), n.lots) /\ v = w + h
    BY <1>9, <1>13, LotMeasures
  <2> QED BY <1>2, <1>10, <1>13, <2>1
<1>17. GotClaims(n, lot, i, m)
  BY <1>9, <1>13, <1>15, <1>16, LotMeasures DEF GotClaims
<1> QED
  BY <1>1, <1>11, <1>13, <1>14, <1>17

LEMMA AttachAny ==
  ASSUME NEW s, NEW day \in Nat, NEW R, NEW i \in DOMAIN Actions, i \notin R, Actions[i].s = s,
         NEW n, AttachState(n, s, day, R \cup {i}), NEW lot, FineLot(lot, s, day, R), Owed(i, day)[lot] <= n.quantity
  PROVE  LET m == AttachOne(n, lot, i)
         IN  AttachState(m, s, day, R \cup {i}) /\ GotShares(n, lot, i, day, m) /\ GotClaims(n, lot, i, m)
<1>1. CASE Actions[i].settled /\ lot.from > day
  BY <1>1, AttachNone
<1>2. CASE ~(Actions[i].settled /\ lot.from > day)
  BY <1>2, AttachPart
<1> QED
  BY <1>1, <1>2

LEMMA OwedMeasures ==
  ASSUME NEW i, NEW day \in Nat
  PROVE  Owed(i, day) \in [LotSet -> Nat] /\ Owed(i, day) \in [LotSet -> Int]
BY DEF Owed, LotSet

\* The first j weigh no more than all.
LEMMA UptoBound ==
  ASSUME NEW L, NEW f \in [L -> Nat], NEW seq \in Seq(L), NEW j \in 0..Len(seq)
  PROVE  Upto(f, seq, j) \in Nat /\ Upto(f, seq, j) <= Weight(f, seq)
<1> DEFINE S == DOMAIN seq
           g == [k \in S |-> f[seq[k]]]
           T == 1..j
           h == Restrict(g, T)
<1>1. IsFiniteSet(S) /\ g \in [S -> Nat] /\ T \in SUBSET S
  BY SequenceShape
<1>2. h \in [T -> Nat] /\ \A x \in T : h[x] = g[x]
  BY <1>1 DEF Restrict
<1>3. Upto(f, seq, j) = SumFunctionOnSet(h, T) /\ Weight(f, seq) = SumFunctionOnSet(g, S)
  BY DEF Upto, Weight, SumFunction, Restrict
<1> HIDE DEF g, h, S, T
<1>4. SumFunctionOnSet(h, T) \in Nat /\ SumFunctionOnSet(h, T) <= SumFunctionOnSet(g, S)
  BY <1>1, <1>2, SumGrows
<1> QED
  BY <1>3, <1>4

\* After the first j lots.
FirstOwed(n, j, lots, i, day, quantity) ==
  /\ n.quantity = quantity - Upto(Owed(i, day), lots, j)
  /\ Weight(Sizes, n.lots) = Upto(Sizes, lots, j)
  /\ Weight(Ripe(day), n.lots) = Upto(Ripe(day), lots, j)
FirstClaimed(n, j, lots, i, gross, initial) ==
  /\ Weight(GrossOf(i), n.lots) + n.gross = gross
  /\ Weight(InitialOf(i), n.lots) + n.initial = initial
  /\ \A k \in DOMAIN Actions \ {i} : /\ Weight(GrossOf(k), n.lots) = Upto(GrossOf(k), lots, j)
                                    /\ Weight(InitialOf(k), n.lots) = Upto(InitialOf(k), lots, j)
FirstAttached(n, j, lots, i, s, day, T, quantity, gross, initial) ==
  AttachState(n, s, day, T) /\ FirstOwed(n, j, lots, i, day, quantity) /\ FirstClaimed(n, j, lots, i, gross, initial)
LEMMA AttachedMore ==
  ASSUME NEW s, NEW day \in Nat, NEW R, NEW i \in DOMAIN Actions, i \notin R, Actions[i].s = s,
         NEW lots, FineLots(lots, s, day, R), NEW quantity, quantity = Weight(Owed(i, day), lots),
         NEW gross \in Nat, NEW initial \in Nat, NEW j \in 1..Len(lots),
         NEW n, FirstAttached(n, j - 1, lots, i, s, day, R \cup {i}, quantity, gross, initial)
  PROVE  FirstAttached(AttachOne(n, lots[j], i), j, lots, i, s, day, R \cup {i}, quantity, gross, initial)
<1>1. lots \in Seq(LotSet) /\ \A k \in DOMAIN lots : FineLot(lots[k], s, day, R)
  BY DEF FineLots
<1>2. PICK l : l = lots[j] /\ l \in LotSet /\ FineLot(l, s, day, R)
  BY <1>1, SequenceShape
<1>3. PICK T : T = R \cup {i}
  OBVIOUS
<1>4. AttachState(n, s, day, T) /\ FirstOwed(n, j - 1, lots, i, day, quantity) /\ FirstClaimed(n, j - 1, lots, i, gross, initial)
  BY <1>3 DEF FirstAttached
<1>5. PICK f : f = Owed(i, day) /\ f \in [LotSet -> Nat] /\ f \in [LotSet -> Int]
  BY OwedMeasures
<1>6. j \in 0..Len(lots) /\ j - 1 \in 0..Len(lots)
  BY <1>1, SequenceShape
<1>7. \A h \in [LotSet -> Int] : /\ Upto(h, lots, j - 1) \in Int /\ h[l] \in Int
                                 /\ Upto(h, lots, j) = Upto(h, lots, j - 1) + h[l]
  BY <1>1, <1>2, UptoGrows
<1>8. PICK u \in Int, v \in Int, w \in Int, x \in Nat :
        /\ u = Upto(f, lots, j - 1) /\ v = Upto(f, lots, j) /\ w = Weight(f, lots) /\ x = f[l]
        /\ v = u + x /\ v <= w
  <2>1. Weight(f, lots) \in Nat /\ Upto(f, lots, j) \in Nat /\ Upto(f, lots, j) <= Weight(f, lots)
    BY <1>1, <1>5, <1>6, UptoBound, WeightNatural
  <2>2. Upto(f, lots, j - 1) \in Int /\ f[l] \in Nat /\ Upto(f, lots, j) = Upto(f, lots, j - 1) + f[l]
    BY <1>2, <1>5, <1>7
  <2> QED BY <2>1, <2>2
<1>9. n.quantity = w - u /\ quantity = w
  BY <1>4, <1>5, <1>8 DEF FirstOwed
<1>10. x <= n.quantity
  BY <1>8, <1>9, SMTT(40)
<1>11. PICK m : m = AttachOne(n, l, i)
  OBVIOUS
<1>12. AttachState(m, s, day, T) /\ GotShares(n, l, i, day, m) /\ GotClaims(n, l, i, m)
  <2>1. AttachState(n, s, day, R \cup {i}) /\ Owed(i, day)[l] <= n.quantity
    BY <1>3, <1>4, <1>5, <1>8, <1>10
  <2> QED BY <1>2, <1>3, <1>11, <2>1, AttachAny
<1>13. FirstOwed(m, j, lots, i, day, quantity)
  <2>1. m.quantity = n.quantity - x
    BY <1>5, <1>8, <1>12 DEF GotShares
  <2>2. m.quantity = w - v
    <3>1. n.quantity = w - u /\ v = u + x /\ w \in Int /\ u \in Int /\ x \in Int /\ v \in Int
      BY <1>8, <1>9, SMTT(40)
    <3> QED BY <2>1, <3>1
  <2>3. Weight(Sizes, m.lots) = Upto(Sizes, lots, j) /\ Weight(Ripe(day), m.lots) = Upto(Ripe(day), lots, j)
    BY <1>4, <1>7, <1>12, LotMeasures DEF FirstOwed, GotShares
  <2> QED BY <1>5, <1>8, <1>9, <2>2, <2>3 DEF FirstOwed
<1>14. FirstClaimed(m, j, lots, i, gross, initial)
  <2>1. \A k \in DOMAIN Actions \ {i} : /\ Weight(GrossOf(k), m.lots) = Upto(GrossOf(k), lots, j)
                                       /\ Weight(InitialOf(k), m.lots) = Upto(InitialOf(k), lots, j)
    BY <1>4, <1>7, <1>12, LotMeasures DEF FirstClaimed, GotClaims
  <2> QED BY <1>4, <1>12, <2>1 DEF FirstClaimed, GotClaims
<1> QED
  BY <1>2, <1>3, <1>11, <1>12, <1>13, <1>14 DEF FirstAttached

\* A dividend on all the lots.
LotsAttached(lots, i, day, quantity, gross, initial) ==
  FoldLeft(LAMBDA n, lot : AttachOne(n, lot, i),
           [quantity |-> quantity, gross |-> gross, initial |-> initial, day |-> day, lots |-> <<>>], lots)
Attaches(F, base, lots, i) ==
  F = [t \in SUBSET DOMAIN lots |-> IF t = {} THEN base ELSE AttachOne(F[t \ {Max(t)}], lots[Max(t)], i)]

LEMMA LotsAttachedIs ==
  ASSUME NEW L, NEW lots \in Seq(L), NEW i, NEW day, NEW quantity, NEW gross, NEW initial
  PROVE  \E F : Folds(F, Attaching(lots, i),
                      [quantity |-> quantity, gross |-> gross, initial |-> initial, day |-> day, lots |-> <<>>], DOMAIN lots)
                /\ LotsAttached(lots, i, day, quantity, gross, initial) = F[DOMAIN lots]
<1> DEFINE base == [quantity |-> quantity, gross |-> gross, initial |-> initial, day |-> day, lots |-> <<>>]
           S == DOMAIN lots
           C == CHOOSE F : Attaches(F, base, lots, i)
<1>1. LotsAttached(lots, i, day, quantity, gross, initial) = C[S]
  BY DEF LotsAttached, FoldLeft, MapThenFoldSet, Attaches
<1>2. \A F : Folds(F, Attaching(lots, i), base, S) <=> Attaches(F, base, lots, i)
  BY DEF Folds, Attaches, Attaching, OneMore, Taking
<1>3. IsFiniteSet(S) /\ S \subseteq Int
  BY SequenceShape
<1> HIDE DEF base, S, C
<1>4. Chooses(Attaching(lots, i), S)
  BY <1>3, Chosen
<1>5. \E F : Folds(F, Attaching(lots, i), base, S)
  BY <1>3, <1>4, FoldExists
<1>6. Attaches(C, base, lots, i)
  BY <1>2, <1>5 DEF C
<1> QED
  BY <1>1, <1>2, <1>6 DEF base, S

\* All of a dividend is attached, and nothing else changes.
AllAttached(new, lots, i, s, day, T, gross, initial) ==
  /\ FineLots(new, s, day, T)
  /\ Weight(Sizes, new) = Weight(Sizes, lots) /\ Weight(Ripe(day), new) = Weight(Ripe(day), lots)
  /\ Weight(GrossOf(i), new) = gross /\ Weight(InitialOf(i), new) = initial
  /\ \A k \in DOMAIN Actions \ {i} : /\ Weight(GrossOf(k), new) = Weight(GrossOf(k), lots)
                                    /\ Weight(InitialOf(k), new) = Weight(InitialOf(k), lots)
LEMMA AttachedAll ==
  ASSUME NEW s, NEW day \in Nat, NEW R, NEW i \in DOMAIN Actions, i \notin R, Actions[i].s = s,
         NEW lots, FineLots(lots, s, day, R), NEW quantity, quantity = Weight(Owed(i, day), lots), quantity # 0,
         NEW gross \in Nat, NEW initial \in Nat
  PROVE  AllAttached(LotsAttached(lots, i, day, quantity, gross, initial).lots, lots, i, s, day, R \cup {i}, gross, initial)
<1>1. PICK T : T = R \cup {i}
  OBVIOUS
<1>2. lots \in Seq(LotSet)
  BY DEF FineLots
<1>3. PICK N \in Nat : N = Len(lots) /\ DOMAIN lots = 1..N
  BY <1>2, SequenceShape
<1>4. PICK base : base = [quantity |-> quantity, gross |-> gross, initial |-> initial, day |-> day, lots |-> <<>>]
  OBVIOUS
<1>5. PICK n : n = LotsAttached(lots, i, day, quantity, gross, initial)
  OBVIOUS
<1>6. PICK k : k = Attaching(lots, i)
  OBVIOUS
<1>7. PICK F : Folds(F, k, base, 1..N) /\ n = F[1..N]
  BY <1>2, <1>3, <1>4, <1>5, <1>6, LotsAttachedIs
<1>8. k.fold # "release" /\ \A v, x : OneMore(k, x, v) = AttachOne(v, lots[x], i)
  BY <1>6 DEF Attaching, OneMore
<1>9. PICK G : G[0] = base /\ G[N] = F[1..N] /\ \A j \in 1..N : G[j] = OneMore(k, j, G[j - 1])
  BY <1>3, <1>7, <1>8, FoldAlong
<1>10. \A f \in [LotSet -> Int] : Upto(f, lots, 0) = 0 /\ Upto(f, lots, N) = Weight(f, lots)
  BY <1>2, <1>3, UptoGrows
<1>11. quantity \in Nat /\ Owed(i, day) \in [LotSet -> Int]
  BY <1>2, OwedMeasures, WeightNatural
<1>12. FirstAttached(base, 0, lots, i, s, day, T, quantity, gross, initial)
  <2>1. /\ base.quantity = quantity /\ base.gross = gross /\ base.initial = initial /\ base.day = day /\ base.lots = <<>>
        /\ base = [quantity |-> base.quantity, gross |-> base.gross, initial |-> base.initial, day |-> base.day,
                   lots |-> base.lots]
    BY <1>4
  <2>2. \A f \in [LotSet -> Int] : Weight(f, <<>>) = 0
    BY WeightInteger, EmptySeq
  <2>3. FineLots(<<>>, s, day, T)
    BY EmptySeq DEF FineLots
  <2>4. AttachState(base, s, day, T)
    BY <1>11, <2>1, <2>3 DEF AttachState
  <2>5. FirstOwed(base, 0, lots, i, day, quantity)
    <3>1. Upto(Owed(i, day), lots, 0) = 0 /\ Upto(Sizes, lots, 0) = 0 /\ Upto(Ripe(day), lots, 0) = 0
          /\ Weight(Sizes, <<>>) = 0 /\ Weight(Ripe(day), <<>>) = 0
      BY <1>10, <1>11, <2>2, LotMeasures
    <3> QED BY <1>11, <2>1, <3>1 DEF FirstOwed
  <2>6. FirstClaimed(base, 0, lots, i, gross, initial)
    <3>1. \A j : /\ Upto(GrossOf(j), lots, 0) = 0 /\ Upto(InitialOf(j), lots, 0) = 0
                 /\ Weight(GrossOf(j), <<>>) = 0 /\ Weight(InitialOf(j), <<>>) = 0
      BY <1>10, <2>2, LotMeasures
    <3> QED BY <2>1, <3>1 DEF FirstClaimed
  <2> QED BY <2>4, <2>5, <2>6 DEF FirstAttached
<1>13. PICK B : B = {j \in 0..N : FirstAttached(G[j], j, lots, i, s, day, T, quantity, gross, initial)}
  OBVIOUS
<1>14. 0 \in B
  BY <1>3, <1>9, <1>12, <1>13
<1>15. \A j \in 1..N : j - 1 \in B => j \in B
  <2> SUFFICES ASSUME NEW j \in 1..N, FirstAttached(G[j - 1], j - 1, lots, i, s, day, T, quantity, gross, initial)
               PROVE  FirstAttached(G[j], j, lots, i, s, day, T, quantity, gross, initial)
    BY <1>3, <1>13
  <2>1. PICK m : m = G[j - 1]
    OBVIOUS
  <2>2. G[j] = AttachOne(m, lots[j], i)
    BY <1>8, <1>9, <2>1
  <2>3. FirstAttached(m, j - 1, lots, i, s, day, R \cup {i}, quantity, gross, initial) /\ j \in 1..Len(lots)
    BY <1>1, <1>3, <2>1
  <2>4. FirstAttached(AttachOne(m, lots[j], i), j, lots, i, s, day, R \cup {i}, quantity, gross, initial)
    BY <2>3, AttachedMore
  <2> QED BY <1>1, <2>2, <2>4
<1>16. N \in B
  <2>1. \A j \in 0..N : j \in B
    BY <1>3, <1>14, <1>15, CountInduction
  <2> QED BY <1>3, <2>1
<1>17. FirstAttached(n, N, lots, i, s, day, T, quantity, gross, initial)
  BY <1>7, <1>9, <1>13, <1>16
<1>18. AttachState(n, s, day, T) /\ FirstOwed(n, N, lots, i, day, quantity) /\ FirstClaimed(n, N, lots, i, gross, initial)
  BY <1>17 DEF FirstAttached
<1>19. n.quantity = 0
  <2>1. n.quantity = quantity - quantity
    BY <1>10, <1>11, <1>18 DEF FirstOwed
  <2> QED BY <1>11, <2>1
<1>20. n.gross = 0 /\ n.initial = 0 /\ FineLots(n.lots, s, day, T) /\ n.lots \in Seq(LotSet)
  BY <1>18, <1>19 DEF AttachState, FineLots
<1>21. Weight(GrossOf(i), n.lots) = gross /\ Weight(InitialOf(i), n.lots) = initial
  <2>1. PICK v \in Int, w \in Int : v = Weight(GrossOf(i), n.lots) /\ w = Weight(InitialOf(i), n.lots)
    BY <1>20, LotMeasures, WeightInteger
  <2>2. v + 0 = gross /\ w + 0 = initial
    BY <1>18, <1>20, <2>1 DEF FirstClaimed
  <2> QED BY <2>1, <2>2
<1>22. \A j \in DOMAIN Actions \ {i} : /\ Weight(GrossOf(j), n.lots) = Weight(GrossOf(j), lots)
                                      /\ Weight(InitialOf(j), n.lots) = Weight(InitialOf(j), lots)
  BY <1>10, <1>18, LotMeasures DEF FirstClaimed
<1>23. Weight(Sizes, n.lots) = Weight(Sizes, lots) /\ Weight(Ripe(day), n.lots) = Weight(Ripe(day), lots)
  BY <1>10, <1>18, LotMeasures DEF FirstOwed
<1> QED
  BY <1>1, <1>5, <1>20, <1>21, <1>22, <1>23 DEF AllAttached

LEMMA NothingSettled == Settled(0, 1) = 0
<1>1. Cent \in Nat \ {0}
  BY AccountShape
<1>2. PICK d \in Nat \ {0} : d = 1 * Cent
  BY <1>1
<1>3. PICK h \in 0..0 : h = HalfEven(0, d)
  <2>1. 0 \in Nat /\ 0 <= 0 * d
    BY <1>2
  <2> QED BY <1>2, <2>1, HalfEvenBound
<1>4. Cent * 0 = 0
  BY <1>1
<1> QED
  BY <1>2, <1>3, <1>4 DEF Settled

\* The amounts of a dividend of so much on each share.
DividendIs(each, quantity, first, gross, initial) ==
  gross = Settled(each * quantity, 1) /\ initial = Settled(gross * first, 10)
LEMMA DividendAmounts ==
  ASSUME NEW each \in Nat, NEW quantity \in Nat, NEW first \in 0..10,
         NEW gross, NEW initial, DividendIs(each, quantity, first, gross, initial)
  PROVE  gross \in Nat /\ initial \in Nat /\ initial <= gross /\ (quantity = 0 => gross = 0 /\ initial = 0)
<1>1. PICK n \in Nat : n = each * quantity
  OBVIOUS
<1>2. gross \in Nat /\ initial \in Nat /\ initial <= gross
  BY <1>1, WithheldFirst DEF DividendIs
<1>3. ASSUME quantity = 0 PROVE gross = 0 /\ initial = 0
  <2>1. n = 0
    BY <1>1, <1>3
  <2>2. gross = 0
    BY <1>1, <2>1, NothingSettled DEF DividendIs
  <2> QED BY <1>2, <2>2
<1> QED
  BY <1>2, <1>3

\* Who has a right has it for what is owed.
LEMMA OwedShares ==
  ASSUME NEW a, Sound(a), NEW i \in DOMAIN Actions
  PROVE  Shares(Entitled(a, i)) = Weight(Owed(i, a.day), a.position[Actions[i].s].lots)
<1>1. PICK s \in Securities : s = Actions[i].s
  BY AccountParts
<1>2. PICK lots \in Seq(LotSet), day \in Nat : lots = a.position[s].lots /\ day = a.day
  BY <1>1, SoundHolding
<1>3. PICK T \in SUBSET DOMAIN lots :
        /\ T = EntitledLots(a, i) /\ T = {k \in DOMAIN lots : Actions[i].settled => lots[k].from <= day}
  BY <1>1, <1>2 DEF EntitledLots
<1>4. PICK f : f = Owed(i, day) /\ f \in [LotSet -> Int]
  BY OwedMeasures
<1>5. \A k \in DOMAIN lots : lots[k] \in LotSet
  BY SequenceShape
<1>6. PICK g : g = [k \in T |-> f[lots[k]]]
  OBVIOUS
<1>7. g = [k \in T |-> Sizes[lots[k]]]
  <2>1. \A k \in T : Owed(i, day)[lots[k]] = Sizes[lots[k]]
    <3> SUFFICES ASSUME NEW k \in T PROVE Owed(i, day)[lots[k]] = Sizes[lots[k]]
      OBVIOUS
    <3>1. lots[k] \in LotSet /\ lots[k].from \in Nat /\ (Actions[i].settled => lots[k].from <= day)
      BY <1>3, <1>5 DEF LotSet
    <3> QED BY <3>1, <1>2 DEF Owed, Sizes
  <2> QED BY <1>4, <1>6, <2>1
<1>8. \A k \in DOMAIN lots \ T : f[lots[k]] = 0
  <2> SUFFICES ASSUME NEW k \in DOMAIN lots \ T PROVE Owed(i, day)[lots[k]] = 0
    BY <1>4
  <2>1. lots[k] \in LotSet /\ lots[k].from \in Nat /\ Actions[i].settled /\ ~(lots[k].from <= day)
    BY <1>3, <1>5 DEF LotSet
  <2> QED BY <2>1, <1>2 DEF Owed
<1>9. SumFunction(g) = Weight(f, lots)
  BY <1>3, <1>4, <1>6, <1>8, WeightOfSome, ZenonT(40)
<1>10. Shares(Entitled(a, i)) = SumFunction(g)
  BY <1>1, <1>2, <1>3, <1>7, EntitledAll
<1> QED
  BY <1>1, <1>2, <1>4, <1>9, <1>10

WritesDividend(c, a, i, quantity, gross, initial) ==
  c = [a EXCEPT !.action[i].registered = TRUE, !.action[i].quantity = quantity, !.action[i].gross = gross,
                !.action[i].initial = initial]
Rewrites(c, a, i, y) == c = [a EXCEPT !.action = [a.action EXCEPT ![i] = y]]
LEMMA DividendWritten ==
  ASSUME NEW a \in AccountSet, NEW i \in DOMAIN Actions, NEW x, x = a.action[i], NEW quantity, NEW gross, NEW initial,
         NEW y, y = [x EXCEPT !.registered = TRUE, !.quantity = quantity, !.gross = gross, !.initial = initial],
         NEW c, WritesDividend(c, a, i, quantity, gross, initial)
  PROVE  Rewrites(c, a, i, y)
<1>1. [a.action EXCEPT ![i].registered = TRUE, ![i].quantity = quantity, ![i].gross = gross, ![i].initial = initial]
        = [a.action EXCEPT ![i] = y]
  BY AccountFields DEF ActionSet
<1> QED
  BY <1>1 DEF AccountSet, WritesDividend, Rewrites

LEMMA DividendRecords ==
  ASSUME NEW x \in ActionSet, NEW quantity, NEW gross, NEW initial,
         NEW y, y = [x EXCEPT !.registered = TRUE, !.quantity = quantity, !.gross = gross, !.initial = initial]
  PROVE  Records(y, x, quantity, gross, initial, x.recorded)
BY DEF ActionSet, Records

\* A dividend is recorded and attached.
LEMMA RegisterDividendSound ==
  ASSUME NEW a, Sound(a), NEW i \in DOMAIN Actions, ~a.action[i].registered, Actions[i].kind = "dividend"
  PROVE  /\ Sound(Register(a, i)) /\ KeepsShares(a, Register(a, i))
         /\ Turns(a, Register(a, i), i, <<TRUE, FALSE, FALSE>>)
<1>1. /\ a \in AccountSet /\ a.action \in [DOMAIN Actions -> ActionSet] /\ a.position \in [Securities -> PositionSet]
      /\ Rights(a) /\ a.day \in Nat
  BY AccountFields DEF Sound
<1>2. PICK s \in Securities : s = Actions[i].s
  BY AccountParts
<1>3. PICK R : R = Registers(a.action) /\ i \notin R
  <2>1. i \notin Registers(a.action)
    BY DEF Registers
  <2> QED BY <2>1
<1>4. PICK q \in PositionSet : q = a.position[s] /\ Holding(q, s, a.day, R) /\ FineLots(q.lots, s, a.day, R)
  BY <1>3, SoundHolding DEF Holding
<1>5. PICK x \in ActionSet : x = a.action[i] /\ Right(x, a.day) /\ ~x.registered /\ x.recorded = <<>>
  BY <1>1 DEF Rights, Right
<1>6. PICK quantity \in Nat : quantity = Shares(Entitled(a, i)) /\ quantity = Weight(Owed(i, a.day), q.lots)
  BY <1>2, <1>4, EntitledAll, OwedShares
<1>7. Actions[i].each \in Nat /\ Actions[i].first \in 0..10
  BY ActionShape
<1>8. PICK gross \in Nat, initial \in Nat :
        /\ gross = Settled(Actions[i].each * quantity, 1) /\ initial = Settled(gross * Actions[i].first, 10)
        /\ initial <= gross /\ (quantity = 0 => gross = 0 /\ initial = 0)
  <2>1. PICK each \in Nat, first \in 0..10 : each = Actions[i].each /\ first = Actions[i].first
    BY <1>7
  <2>2. PICK gross, initial : DividendIs(each, quantity, first, gross, initial)
    BY DEF DividendIs
  <2>3. gross \in Nat /\ initial \in Nat /\ initial <= gross /\ (quantity = 0 => gross = 0 /\ initial = 0)
    BY <2>2, DividendAmounts
  <2> QED BY <2>1, <2>2, <2>3 DEF DividendIs
<1>9. PICK y : y = [x EXCEPT !.registered = TRUE, !.quantity = quantity, !.gross = gross, !.initial = initial]
  OBVIOUS
<1>10. Records(y, x, quantity, gross, initial, <<>>) /\ <<>> \in Seq(LotSet) /\ DOMAIN <<>> = {}
  <2>1. Records(y, x, quantity, gross, initial, x.recorded)
    BY <1>9, DividendRecords
  <2> QED BY <1>5, <2>1, EmptySeq
<1>11. PICK lots : lots = IF quantity = 0 THEN q.lots ELSE LotsAttached(q.lots, i, a.day, quantity, gross, initial).lots
  OBVIOUS
<1>12. AllAttached(lots, q.lots, i, s, a.day, R \cup {i}, gross, initial)
  <2>1. CASE quantity = 0
    <3>1. lots = q.lots /\ gross = 0 /\ initial = 0
      BY <1>8, <1>11, <2>1
    <3>2. FineLots(lots, s, a.day, R \cup {i})
      BY <1>4, <3>1 DEF FineLots, FineLot
    <3>3. Weight(GrossOf(i), lots) = 0 /\ Weight(InitialOf(i), lots) = 0
      BY <1>3, <1>4, <3>1, NoClaims
    <3> QED BY <3>1, <3>2, <3>3 DEF AllAttached
  <2>2. CASE quantity # 0
    <3>1. lots = LotsAttached(q.lots, i, a.day, quantity, gross, initial).lots
      BY <1>11, <2>2
    <3>2. PICK day, old : day \in Nat /\ day = a.day /\ old = q.lots
      BY <1>1
    <3>3. FineLots(old, s, day, R) /\ quantity = Weight(Owed(i, day), old)
      BY <1>4, <1>6, <3>2
    <3>5. day \in Nat /\ i \notin R /\ Actions[i].s = s
      BY <1>2, <1>3, <3>2
    <3>4. AllAttached(LotsAttached(old, i, day, quantity, gross, initial).lots, old, i, s, day, R \cup {i}, gross, initial)
      BY <2>2, <3>3, <3>5, AttachedAll
    <3> QED BY <3>1, <3>2, <3>4
  <2> QED BY <2>1, <2>2
<1>13. PICK p : p = [q EXCEPT !.lots = lots]
  OBVIOUS
<1>14. Relots(p, q, lots, s, a.day, Registers(a.action) \cup {i})
  BY <1>3, <1>12, <1>13 DEF Relots, AllAttached
<1>15. RegisterKeeps(i, s, lots, q)
  BY <1>12 DEF RegisterKeeps, AllAttached
<1>16. RegisterFits(x, y, i, quantity, gross, initial, <<>>, lots, a.day)
  BY <1>8, <1>10, <1>12 DEF RegisterFits, AllAttached
<1>17. PICK b : b = Register(a, i)
  OBVIOUS
<1>18. b = Recorded(a, i, quantity, gross, initial)
  BY <1>6, <1>8, <1>17 DEF Register, Dividend
<1>19. lots = IF quantity = 0 THEN q.lots ELSE Attached(a, i, quantity, gross, initial)
  BY <1>2, <1>4, <1>11 DEF Attached, LotsAttached
<1>20. RegistersAs(b, a, i, y, s, p)
  <2>1. b = [a EXCEPT !.action = [a.action EXCEPT ![i] = y], !.position = [a.position EXCEPT ![s] = [a.position[s] EXCEPT !.lots = lots]]]
    <3>1. b = [a EXCEPT !.action[i].registered = TRUE, !.action[i].quantity = quantity,
                        !.action[i].gross = gross, !.action[i].initial = initial, !.position[s].lots = lots]
      BY <1>2, <1>4, <1>18, <1>19 DEF Recorded
    <3>2. PICK c : WritesDividend(c, a, i, quantity, gross, initial)
      BY DEF WritesDividend
    <3>3. b = [c EXCEPT !.position[s].lots = lots]
      BY <3>1, <3>2 DEF WritesDividend
    <3>4. Rewrites(c, a, i, y)
      BY <1>1, <1>5, <1>9, <3>2, DividendWritten
    <3> QED BY <1>1, <3>3, <3>4 DEF AccountSet, Rewrites
  <2> QED BY <1>4, <1>13, <2>1 DEF RegistersAs
<1>21. Sound(b) /\ KeepsShares(a, b) /\ Turns(a, b, i, <<TRUE, FALSE, FALSE>>)
  BY <1>2, <1>4, <1>5, <1>10, <1>14, <1>15, <1>16, <1>20, RecordSound
<1> QED
  BY <1>17, <1>21

\* At the close of a record day each lot that has the right carries its claim,
\* and the claims are together what the action owes.
THEOREM RegisterSound ==
  ASSUME NEW a, Sound(a), NEW i \in DOMAIN Actions, ~a.action[i].registered
  PROVE  /\ Sound(Register(a, i)) /\ KeepsShares(a, Register(a, i))
         /\ Turns(a, Register(a, i), i, <<TRUE, FALSE, FALSE>>)
<1>1. CASE Actions[i].kind = "dividend"
  BY <1>1, RegisterDividendSound
<1>2. CASE Actions[i].kind # "dividend"
  BY <1>2, RegisterSharesSound
<1> QED
  BY <1>1, <1>2

-----------------------------------------------------------------------------
(* An ex session begins.                                                   *)

ExAction(y, x) ==
  /\ y \in ActionSet /\ y.registered = x.registered /\ y.ex /\ y.paid = x.paid /\ y.recorded = <<>>
  /\ y.gross = x.gross /\ y.initial = x.initial /\ SoldOf(y) = SoldOf(x) /\ y.withheld = x.withheld
LEMMA ExActionMade ==
  ASSUME NEW x \in ActionSet, NEW y, y = [x EXCEPT !.ex = TRUE, !.recorded = <<>>]
  PROVE  ExAction(y, x)
<1>1. <<>> \in Seq(LotSet)
  BY EmptySeq
<1>2. /\ y \in ActionSet /\ y.registered = x.registered /\ y.ex /\ y.paid = x.paid /\ y.recorded = <<>>
      /\ y.gross = x.gross /\ y.initial = x.initial /\ y.sold = x.sold /\ y.withheld = x.withheld
  BY <1>1 DEF ActionSet
<1>3. SoldOf(y) = SoldOf(x)
  BY <1>2 DEF SoldOf
<1> QED
  BY <1>2, <1>3 DEF ExAction

\* The position of an ex session, at the cost it had.
ExPosition(p, q, s, day, R) ==
  /\ p \in PositionSet /\ Holding(p, s, day, R) /\ p.frozen = q.frozen /\ p.cost = q.cost
  /\ \A j : Weight(GrossOf(j), p.lots) = Weight(GrossOf(j), q.lots) /\ Weight(InitialOf(j), p.lots) = Weight(InitialOf(j), q.lots)
\* A dividend is on its way, or a tax is paid.
ExMoney(a, cash, realized, receivable, net, tax) ==
  cash = a.cash - tax /\ realized = a.realized + net - tax /\ receivable = a.receivable + net
ExAs(b, a, i, cash, realized, receivable, y, s, p) ==
  b = [a EXCEPT !.cash = cash, !.realized = realized, !.receivable = receivable,
                !.action = [a.action EXCEPT ![i] = y], !.position = [a.position EXCEPT ![s] = p]]

\* What an ex session needs.
ExReady(a, i) == a.action[i].registered /\ ~a.action[i].ex

LEMMA ExMoved ==
  ASSUME NEW a, Sound(a), NEW i \in DOMAIN Actions, ExReady(a, i),
         NEW tax \in Nat, tax <= Available(a), NEW net, net = Net(a.action[i]),
         NEW cash, NEW realized, NEW receivable, ExMoney(a, cash, realized, receivable, net, tax),
         NEW s, s = Actions[i].s, NEW p, ExPosition(p, a.position[s], s, a.day, Registers(a.action)),
         NEW y, y = [a.action[i] EXCEPT !.ex = TRUE, !.recorded = <<>>],
         NEW b, ExAs(b, a, i, cash, realized, receivable, y, s, p)
  PROVE  Sound(b) /\ Turns(a, b, i, <<TRUE, TRUE, FALSE>>)
<1>1. /\ a \in AccountSet /\ a.action \in [DOMAIN Actions -> ActionSet] /\ a.position \in [Securities -> PositionSet]
      /\ a.cash \in Nat /\ a.receivable \in Nat /\ a.realized \in Int /\ a.frozen \in Nat /\ a.blocked \in Nat
      /\ Rights(a) /\ Sharing(a) /\ Frozen(a) <= a.cash /\ s \in Securities
  BY AccountFields, AccountParts DEF Sound, Money
<1>2. PICK q \in PositionSet : q = a.position[s] /\ Holding(q, s, a.day, Registers(a.action)) /\ q.cost \in Nat
  BY <1>1, SoundHolding
<1>3. PICK x \in ActionSet : x = a.action[i] /\ Right(x, a.day) /\ Unpaid(x, i) /\ Shared(x, i, q.lots)
                             /\ x.registered /\ ~x.ex /\ ~x.paid
  BY <1>1, <1>2 DEF Rights, Sharing, ExReady, Right
<1>4. ExAction(y, x)
  BY <1>3, ExActionMade
<1>5. /\ y \in ActionSet /\ y.registered /\ y.ex /\ ~y.paid /\ y.recorded = <<>>
      /\ y.gross = x.gross /\ y.initial = x.initial /\ SoldOf(y) = SoldOf(x) /\ y.withheld = x.withheld
  BY <1>3, <1>4 DEF ExAction
<1>6. net \in Nat /\ net = Net(x) /\ NetDue(y) = net /\ NetDue(a.action[i]) = 0
  BY <1>3, <1>5, ComingCovers DEF Net, NetDue
<1>7. /\ cash \in Nat /\ realized \in Int /\ receivable \in Nat
      /\ cash = a.cash - tax /\ realized = a.realized + net - tax /\ receivable = a.receivable + net
      /\ a.frozen + a.blocked <= cash
  BY <1>1, <1>6 DEF ExMoney, Available, Frozen
<1>8. /\ p \in PositionSet /\ Holding(p, s, a.day, Registers(a.action)) /\ p.frozen = q.frozen /\ p.cost = q.cost
      /\ \A j : Weight(GrossOf(j), p.lots) = Weight(GrossOf(j), q.lots) /\ Weight(InitialOf(j), p.lots) = Weight(InitialOf(j), q.lots)
  BY <1>2 DEF ExPosition
<1>9. PICK action \in [DOMAIN Actions -> ActionSet], position \in [Securities -> PositionSet] :
        action = [a.action EXCEPT ![i] = y] /\ position = [a.position EXCEPT ![s] = p]
  BY <1>1, <1>5, <1>8
<1>10. b = [a EXCEPT !.cash = cash, !.realized = realized, !.receivable = receivable, !.action = action,
                     !.position = position]
  BY <1>9 DEF ExAs
<1>11. ActedAs(b, a, cash, realized, receivable, action, position)
  BY <1>1, <1>7, <1>10, ActedMade
<1>12. /\ b \in AccountSet
       /\ b.cash = cash /\ b.frozen = a.frozen /\ b.blocked = a.blocked /\ b.locks = a.locks /\ b.day = a.day
       /\ b.realized = realized /\ b.receivable = receivable /\ b.action = action
       /\ b.position = position /\ b.reserved = a.reserved
  BY <1>11 DEF ActedAs
<1>13. /\ b.action[i] = y /\ \A j \in DOMAIN Actions \ {i} : b.action[j] = a.action[j]
       /\ b.position[s] = p /\ \A z \in Securities \ {s} : b.position[z] = a.position[z]
  BY <1>1, <1>9, <1>12
<1>14. Frozen(b) <= b.cash
  BY <1>7, <1>12 DEF Frozen
<1>15. b.receivable = a.receivable + NetDue(y) - NetDue(a.action[i])
  BY <1>1, <1>6, <1>7, <1>12
<1>16. (b.cash + b.receivable + p.cost) - (a.cash + a.receivable + a.position[s].cost) = b.realized - a.realized
  <2>1. PICK c \in Nat : c = p.cost /\ c = a.position[s].cost
    BY <1>2, <1>8
  <2> QED BY <1>1, <1>6, <1>7, <1>12, <2>1
<1>17. Reacts(a, b, i, y, s, p)
  BY <1>9, <1>12, <1>14, <1>15, <1>16 DEF Reacts
<1>18. Right(y, a.day) /\ Unpaid(y, i)
  BY <1>3, <1>5, EmptySeq DEF Right, Unpaid
<1>19. Shared(y, i, p.lots)
  BY <1>3, <1>5, <1>8 DEF Shared
<1>20. ReactsRights(a, i, y, s, p)
  BY <1>2, <1>5, <1>8, <1>18, <1>19 DEF ReactsRights
<1>21. Registers(b.action) = Registers(a.action)
  BY <1>3, <1>5, <1>13 DEF Registers
<1>22. Sound(b)
  BY <1>1, <1>2, <1>5, <1>8, <1>12, <1>17, <1>20, <1>21, Reacted
<1>23. Turns(a, b, i, <<TRUE, TRUE, FALSE>>)
  <2>1. y.registered = TRUE /\ y.ex = TRUE /\ y.paid = FALSE
    BY <1>5 DEF ActionSet
  <2>2. \A z \in Securities \ {Actions[i].s} : b.position[z] = a.position[z]
    BY <1>13
  <2>3. \A j \in DOMAIN Actions \ {i} : FlagsOf(b.action[j]) = FlagsOf(a.action[j])
    BY <1>13
  <2> QED BY <1>12, <1>13, <2>1, <2>2, <2>3 DEF Turns, FlagsOf
<1> QED
  BY <1>22, <1>23

\* When no share is given or taken.
LEMMA ExQuietSound ==
  ASSUME NEW a, Sound(a), NEW i \in DOMAIN Actions, ExReady(a, i), Actions[i].kind \notin {"shares", "split"}
  PROVE  /\ Sound(Ex(a, i)) /\ KeepsShares(a, Ex(a, i))
         /\ Turns(a, Ex(a, i), i, <<TRUE, TRUE, FALSE>>)
<1>1. /\ a \in AccountSet /\ a.action \in [DOMAIN Actions -> ActionSet] /\ a.position \in [Securities -> PositionSet]
      /\ a.cash \in Nat /\ a.receivable \in Nat /\ a.realized \in Int /\ a.frozen \in Nat /\ a.blocked \in Nat
      /\ Rights(a) /\ Frozen(a) <= a.cash
  BY AccountFields DEF Sound, Money
<1>2. PICK s \in Securities : s = Actions[i].s
  BY AccountParts
<1>3. PICK q \in PositionSet : q = a.position[s] /\ Holding(q, s, a.day, Registers(a.action))
  BY SoundHolding
<1>4. PICK x \in ActionSet : x = a.action[i] /\ Unpaid(x, i)
  BY <1>1 DEF Rights
<1>5. PICK net \in Nat : net = Net(a.action[i])
  BY ComingCovers
<1>6. Actions[i].kind # "dividend" => net = 0
  BY <1>4, <1>5 DEF Unpaid, Net
<1>7. PICK cash, realized, receivable :
        cash = a.cash /\ realized = a.realized + net /\ receivable = a.receivable + net
  OBVIOUS
<1>8. ExMoney(a, cash, realized, receivable, net, 0) /\ 0 <= Available(a) /\ 0 \in Nat
  BY <1>1, <1>7 DEF ExMoney, Available, Frozen
<1>9. PICK y : y = [a.action[i] EXCEPT !.ex = TRUE, !.recorded = <<>>]
  OBVIOUS
<1>10. PICK b : b = Ex(a, i)
  OBVIOUS
<1>11. ExAs(b, a, i, cash, realized, receivable, y, s, q)
  <2>1. PICK c : c = [a EXCEPT !.action[i].ex = TRUE, !.action[i].recorded = <<>>]
    OBVIOUS
  <2>2. c = [a EXCEPT !.action = [a.action EXCEPT ![i] = y]]
    BY <1>1, <1>9, <2>1 DEF AccountSet
  <2>3. CASE Actions[i].kind = "dividend"
    <3>1. b = [c EXCEPT !.receivable = @ + net, !.realized = @ + net]
      BY <1>5, <1>10, <2>1, <2>3 DEF Ex
    <3>2. b = [a EXCEPT !.cash = cash, !.realized = realized, !.receivable = receivable,
                        !.action = [a.action EXCEPT ![i] = y], !.position = a.position]
      BY <1>1, <1>7, <2>2, <3>1 DEF AccountSet
    <3>3. a.position = [a.position EXCEPT ![s] = q]
      BY <1>1, <1>3
    <3> QED BY <3>2, <3>3 DEF ExAs
  <2>4. CASE Actions[i].kind # "dividend"
    <3>1. b = c
      BY <1>10, <2>1, <2>4 DEF Ex
    <3>2. realized = a.realized /\ receivable = a.receivable
      BY <1>1, <1>6, <1>7, <2>4
    <3>3. b = [a EXCEPT !.cash = cash, !.realized = realized, !.receivable = receivable,
                        !.action = [a.action EXCEPT ![i] = y], !.position = a.position]
      BY <1>1, <1>7, <2>2, <3>1, <3>2 DEF AccountSet
    <3>4. a.position = [a.position EXCEPT ![s] = q]
      BY <1>1, <1>3
    <3> QED BY <3>3, <3>4 DEF ExAs
  <2> QED BY <2>3, <2>4
<1>12. ExPosition(q, a.position[s], s, a.day, Registers(a.action))
  BY <1>3 DEF ExPosition
<1>13. Sound(b) /\ Turns(a, b, i, <<TRUE, TRUE, FALSE>>)
  BY <1>2, <1>5, <1>8, <1>9, <1>11, <1>12, ExMoved
<1>14. KeepsShares(a, b)
  <2>1. b.position = a.position
    <3>1. b.position = [a.position EXCEPT ![s] = q]
      BY <1>1, <1>11 DEF ExAs, AccountSet
    <3> QED BY <1>1, <1>3, <3>1
  <2> QED BY <2>1 DEF KeepsShares
<1> QED
  BY <1>10, <1>13, <1>14

\* The tax on new shares.
LEMMA ShareTaxNatural ==
  ASSUME NEW a, Sound(a), NEW i \in DOMAIN Actions, Actions[i].kind \in {"shares", "split"}
  PROVE  ShareTax(a, i) \in Nat
<1>1. PICK t \in Nat, n \in Nat : t = Actions[i].tax /\ n = a.action[i].quantity
  <2>1. Actions[i].tax \in Nat
    BY ActionShape
  <2>2. a.action[i] \in ActionSet
    BY AccountFields DEF Sound
  <2> QED BY <2>1, <2>2 DEF ActionSet
<1>2. PICK m \in Nat : m = t * n
  OBVIOUS
<1>3. Settled(m, 1) \in Nat
  BY SettledNatural
<1> QED
  BY <1>1, <1>2, <1>3 DEF ShareTax

\* Two sequences weigh what both weigh.
Joint(f, s, t) == Weight(f, s \o t) = Weight(f, s) + Weight(f, t)
LEMMA WeightJoint ==
  ASSUME NEW L, NEW f \in [L -> Int], NEW s \in Seq(L), NEW t \in Seq(L)
  PROVE  s \o t \in Seq(L) /\ Joint(f, s, t)
<1>1. PICK m \in Nat, n \in Nat : m = Len(s) /\ n = Len(t) /\ DOMAIN s = 1..m /\ DOMAIN t = 1..n
  BY SequenceShape
<1>2. PICK u \in Seq(L) : u = s \o t
  BY ConcatProperties
<1>3. /\ DOMAIN u = 1..(m + n)
      /\ \A k \in 1..m : u[k] = s[k]
      /\ \A k \in 1..n : u[m + k] = t[k]
  BY <1>1, <1>2
<1>4. PICK S, A, B : S = 1..(m + n) /\ A = 1..m /\ B = S \ A
  OBVIOUS
<1>5. IsFiniteSet(S) /\ A \in SUBSET S /\ IsFiniteSet(B) /\ IsFiniteSet(1..n)
  <2>1. m + n \in Int /\ 1 \in Int /\ n \in Int
    OBVIOUS
  <2>2. IsFiniteSet(1..(m + n)) /\ IsFiniteSet(1..n)
    BY <2>1, FS_Interval
  <2> QED BY <1>4, <2>2, FS_Subset
<1>6. PICK g : g = [k \in S |-> f[u[k]]] /\ g \in [S -> Int]
  <2>1. \A k \in S : u[k] \in L
    BY <1>2, <1>3, <1>4, SequenceShape
  <2>2. \A k \in S : f[u[k]] \in Int
    BY <2>1
  <2>3. PICK g : g = [k \in S |-> f[u[k]]]
    OBVIOUS
  <2>4. g \in [S -> Int]
    BY <2>2, <2>3
  <2> QED BY <2>3, <2>4
<1>7. Weight(f, u) = SumFunction(g)
  BY <1>3, <1>4, <1>6 DEF Weight
<1>8. SumFunction(g) = SumFunction(Restrict(g, A)) + SumFunction(Restrict(g, S \ A))
  BY <1>5, <1>6, SumInParts
<1>9. Restrict(g, A) = [k \in DOMAIN s |-> f[s[k]]]
  BY <1>1, <1>3, <1>4, <1>6 DEF Restrict
<1>10. PICK h : h = [k \in 1..n |-> f[t[k]]] /\ h \in [1..n -> Int]
  <2>1. \A k \in 1..n : t[k] \in L
    BY <1>1, SequenceShape
  <2>2. \A k \in 1..n : f[t[k]] \in Int
    BY <2>1
  <2>3. PICK h : h = [k \in 1..n |-> f[t[k]]]
    OBVIOUS
  <2>4. h \in [1..n -> Int]
    BY <2>2, <2>3
  <2> QED BY <2>3, <2>4
<1>11. PICK r : r = Restrict(g, B) /\ r \in [B -> Int] /\ \A z \in B : r[z] = g[z]
  <2>1. B \subseteq S
    BY <1>4
  <2>2. Restrict(g, B) = [z \in B |-> g[z]]
    BY DEF Restrict
  <2>3. [z \in B |-> g[z]] \in [B -> Int]
    BY <1>6, <2>1
  <2>4. PICK r : r = [z \in B |-> g[z]]
    OBVIOUS
  <2>5. r = Restrict(g, B) /\ r \in [B -> Int] /\ \A z \in B : r[z] = g[z]
    BY <2>2, <2>3, <2>4
  <2> QED BY <2>5
<1>12. PICK e : e = [k \in 1..n |-> m + k]
  OBVIOUS
<1>13. Renames(e, 1..n, B)
  <2>1. \A k \in 1..n : m + k \in B
    BY <1>4
  <2>2. \A z \in B : z - m \in 1..n /\ m + (z - m) = z
    BY <1>4
  <2>3. \A z \in B : \E k \in 1..n : e[k] = z
    BY <1>12, <2>2
  <2>4. e \in [1..n -> B]
    BY <1>12, <2>1
  <2>5. \A x, y \in 1..n : e[x] = e[y] => x = y
    BY <1>12
  <2> QED BY <2>3, <2>4, <2>5 DEF Renames
<1>14. Renamed(h, r, e, 1..n)
  <2> SUFFICES ASSUME NEW k \in 1..n PROVE h[k] = r[e[k]]
    BY DEF Renamed
  <2>1. PICK z \in B : z = m + k /\ z \in S /\ e[k] = z
    BY <1>4, <1>12
  <2>2. r[z] = f[u[z]] /\ u[z] = t[k]
    BY <1>3, <1>6, <1>11, <2>1
  <2> QED BY <1>10, <2>1, <2>2
<1>15. SumFunction(h) = SumFunction(r)
  <2>1. PICK N : N = 1..n
    OBVIOUS
  <2>2. IsFiniteSet(N) /\ h \in [N -> Int] /\ Renames(e, N, B) /\ Renamed(h, r, e, N)
    BY <1>5, <1>10, <1>13, <1>14, <2>1
  <2>3. IsFiniteSet(B) /\ r \in [B -> Int]
    BY <1>5, <1>11
  <2> QED BY <2>2, <2>3, SumRenamed
<1>16. Weight(f, s) = SumFunction(Restrict(g, A)) /\ Weight(f, t) = SumFunction(h)
  BY <1>1, <1>9, <1>10 DEF Weight
<1> QED
  BY <1>2, <1>4, <1>7, <1>8, <1>11, <1>15, <1>16 DEF Joint

\* Shares that are given at a ratio that divides them.
LEMMA RatioDivides ==
  ASSUME NEW num \in Nat \ {0}, NEW den \in Nat \ {0}, NEW n \in Nat, (n * num) % den = 0,
         NEW m, m = (n * num) \div den
  PROVE  m \in Nat /\ den * m = n * num /\ (m = 0 <=> n = 0)
<1>1. PICK p \in Nat : p = n * num
  OBVIOUS
<1>2. m \in Nat /\ p = den * m + 0
  BY <1>1, Division
<1>3. p = den * m
  BY <1>2
<1>4. m = 0 => p = 0
  BY <1>3
<1>5. p = 0 => n = 0
  BY <1>1
<1>6. n = 0 => p = 0
  BY <1>1
<1>7. p = 0 => m = 0
  BY <1>2, <1>3
<1> QED
  BY <1>1, <1>2, <1>3, <1>4, <1>5, <1>6, <1>7

LEMMA ScaledAre ==
  ASSUME NEW i \in DOMAIN Actions, Actions[i].kind \in {"shares", "split"}, NEW n \in Nat, Divisible(Actions[i], n)
  PROVE  /\ Actions[i].num \in Nat \ {0} /\ Actions[i].den \in Nat \ {0}
         /\ Scaled(Actions[i], n) \in Nat /\ Actions[i].den * Scaled(Actions[i], n) = n * Actions[i].num
         /\ Scaled(Actions[i], n) = 0 <=> n = 0
<1>1. PICK num \in Nat \ {0}, den \in Nat \ {0} : num = Actions[i].num /\ den = Actions[i].den
  BY ActionShape
<1>2. PICK m : m = (n * num) \div den /\ m = Scaled(Actions[i], n)
  BY <1>1 DEF Scaled
<1>3. (n * num) % den = 0
  BY <1>1 DEF Divisible
<1>4. m \in Nat /\ den * m = n * num /\ (m = 0 <=> n = 0)
  BY <1>2, <1>3, RatioDivides
<1> QED
  BY <1>1, <1>2, <1>4

\* New shares are free of claims.
LEMMA GrantedAll ==
  ASSUME NEW a, Sound(a), NEW i \in DOMAIN Actions, Actions[i].kind = "shares", MayEx(a, i), NEW s
  PROVE  FineLots(Granted(a, i), s, a.day, {})
<1>1. PICK x \in ActionSet : x = a.action[i] /\ Right(x, a.day)
  BY AccountFields DEF Sound, Rights
<1>2. PICK recorded \in Seq(LotSet) : recorded = x.recorded /\ \A k \in DOMAIN recorded : recorded[k].acquired <= a.day
  BY <1>1 DEF ActionSet, Right
<1>3. PICK n \in Nat : DOMAIN recorded = 1..n /\ \A k \in 1..n : recorded[k] \in LotSet
  BY SequenceShape
<1>4. a.day \in Nat /\ Actions[i].from \in Nat
  BY AccountFields, ActionShape DEF Sound
<1>5. PICK lots : lots = [k \in 1..n |->
        [acquired |-> IF Actions[i].inherit THEN recorded[k].acquired ELSE a.day, from |-> Actions[i].from,
         quantity |-> Scaled(Actions[i], recorded[k].quantity), claims |-> <<>>]]
  OBVIOUS
<1>6. \A k \in 1..n : FineLot(lots[k], s, a.day, {})
  <2> SUFFICES ASSUME NEW k \in 1..n PROVE FineLot(lots[k], s, a.day, {})
    OBVIOUS
  <2>1. PICK old \in Nat \ {0} : old = recorded[k].quantity /\ recorded[k].acquired \in Nat
    BY <1>3 DEF LotSet
  <2>2. Divisible(Actions[i], old)
    BY <1>1, <1>2, <1>3, <2>1 DEF MayEx
  <2>3. PICK quantity \in Nat \ {0} : quantity = Scaled(Actions[i], old)
    BY <2>1, <2>2, ScaledAre
  <2>4. PICK acquired \in Nat : acquired = (IF Actions[i].inherit THEN recorded[k].acquired ELSE a.day) /\ acquired <= a.day
    BY <1>2, <1>3, <1>4, <2>1
  <2>5. PICK from \in Nat : from = Actions[i].from
    BY <1>4
  <2>6. PICK l : l = [acquired |-> acquired, from |-> from, quantity |-> quantity, claims |-> <<>>]
    OBVIOUS
  <2>7. l \in LotSet /\ DOMAIN l.claims = {}
    BY <2>6, NewLot
  <2>8. lots[k] = l
    BY <1>5, <2>1, <2>3, <2>4, <2>5, <2>6
  <2>9. l.acquired <= a.day
    BY <2>4, <2>6
  <2> QED BY <2>7, <2>8, <2>9 DEF FineLot
<1>7. lots \in Seq(LotSet) /\ DOMAIN lots = 1..n
  <2>1. lots \in [1..n -> LotSet]
    <3>1. \A k \in 1..n : lots[k] \in LotSet
      BY <1>6 DEF FineLot
    <3> QED BY <1>5, <3>1
  <2> QED BY <2>1, IsASeq
<1>8. PICK T \in SUBSET DOMAIN lots : T = {k \in DOMAIN lots : lots[k].quantity > 0}
  OBVIOUS
<1>9. Granted(a, i) = Picked(lots, T)
  BY <1>1, <1>2, <1>3, <1>5, <1>8 DEF Granted
<1>10. /\ Picked(lots, T) \in Seq(LotSet)
       /\ \A j \in DOMAIN Picked(lots, T) : \E k \in T : Picked(lots, T)[j] = lots[k]
  BY <1>7, PickedAll
<1>11. \A j \in DOMAIN Picked(lots, T) : FineLot(Picked(lots, T)[j], s, a.day, {})
  BY <1>6, <1>7, <1>10
<1> QED
  BY <1>9, <1>10, <1>11 DEF FineLots

\* Lots that join others, oldest first.
JoinedLots(new, old, more, s, day, R) ==
  /\ FineLots(new, s, day, R)
  /\ Weight(Sizes, new) = Weight(Sizes, old) + Weight(Sizes, more)
  /\ \A j : Weight(GrossOf(j), new) = Weight(GrossOf(j), old) /\ Weight(InitialOf(j), new) = Weight(InitialOf(j), old)
LEMMA LotsJoin ==
  ASSUME NEW s, NEW day, NEW R, NEW old, FineLots(old, s, day, R), NEW more, FineLots(more, s, day, {})
  PROVE  JoinedLots(ByAge(old \o more), old, more, s, day, R)
<1>1. /\ old \in Seq(LotSet) /\ more \in Seq(LotSet)
      /\ \A k \in DOMAIN old : FineLot(old[k], s, day, R)
      /\ \A k \in DOMAIN more : FineLot(more[k], s, day, R)
  BY DEF FineLots, FineLot
<1>2. PICK all \in Seq(LotSet) : all = old \o more /\ \A f \in [LotSet -> Int] : Joint(f, old, more)
  <2>1. Sizes \in [LotSet -> Int]
    BY LotMeasures, 0 \in Nat
  <2>2. old \o more \in Seq(LotSet)
    BY <1>1, <2>1, WeightJoint
  <2>3. \A f \in [LotSet -> Int] : Joint(f, old, more)
    BY <1>1, WeightJoint
  <2> QED BY <2>2, <2>3
<1>3. \A k \in DOMAIN all : FineLot(all[k], s, day, R)
  <2> SUFFICES ASSUME NEW k \in DOMAIN all PROVE FineLot(all[k], s, day, R)
    OBVIOUS
  <2>1. PICK m \in Nat, n \in Nat : m = Len(old) /\ n = Len(more) /\ DOMAIN old = 1..m /\ DOMAIN more = 1..n
    BY <1>1, SequenceShape
  <2>2. k \in 1..(m + n) /\ all[k] = IF k <= m THEN old[k] ELSE more[k - m]
    BY <1>1, <1>2, <2>1, ConcatProperties
  <2>3. CASE k <= m
    BY <1>1, <2>1, <2>2, <2>3
  <2>4. CASE ~(k <= m)
    <3>1. k - m \in 1..n
      BY <2>2, <2>4
    <3> QED BY <1>1, <2>1, <2>2, <2>4, <3>1
  <2> QED BY <2>3, <2>4
<1>4. PICK new : new = ByAge(all)
  OBVIOUS
<1>5. /\ new \in Seq(LotSet)
      /\ \A j \in DOMAIN new : \E k \in DOMAIN all : new[j] = all[k]
      /\ \A f \in [LotSet -> Int] : Weight(f, new) = Weight(f, all)
  BY <1>4, ByAgeAll
<1>6. FineLots(new, s, day, R)
  BY <1>3, <1>5 DEF FineLots
<1>7. \A f \in [LotSet -> Int] : Weight(f, new) = Weight(f, old) + Weight(f, more)
  BY <1>2, <1>5 DEF Joint
<1>8. Weight(Sizes, new) = Weight(Sizes, old) + Weight(Sizes, more)
  BY <1>7, LotMeasures, 0 \in Nat
<1>9. \A j : Weight(GrossOf(j), new) = Weight(GrossOf(j), old) /\ Weight(InitialOf(j), new) = Weight(InitialOf(j), old)
  <2> SUFFICES ASSUME NEW j
               PROVE  Weight(GrossOf(j), new) = Weight(GrossOf(j), old) /\ Weight(InitialOf(j), new) = Weight(InitialOf(j), old)
    OBVIOUS
  <2>1. GrossOf(j) \in [LotSet -> Int] /\ InitialOf(j) \in [LotSet -> Int]
    BY LotMeasures, 0 \in Nat
  <2>2. Weight(GrossOf(j), more) = 0 /\ Weight(InitialOf(j), more) = 0
    BY NoClaims
  <2>3. PICK u \in Int, v \in Int : u = Weight(GrossOf(j), old) /\ v = Weight(InitialOf(j), old)
    BY <1>1, <2>1, WeightInteger
  <2>4. Weight(GrossOf(j), new) = u + 0 /\ Weight(InitialOf(j), new) = v + 0
    BY <1>7, <2>1, <2>2, <2>3
  <2> QED BY <2>3, <2>4
<1> QED
  BY <1>2, <1>4, <1>6, <1>8, <1>9 DEF JoinedLots

\* A position with new shares, at the cost it had.
LEMMA HoldsGiven ==
  ASSUME NEW q \in PositionSet, NEW s, NEW day \in Nat, NEW R, Holding(q, s, day, R), q.frozen = 0,
         NEW more, FineLots(more, s, day, {}), NEW new, JoinedLots(new, q.lots, more, s, day, R),
         NEW m, m = q.quantity + Shares(more), NEW p, Holds(p, q, m, q.cost, new)
  PROVE  ExPosition(p, q, s, day, R)
<1>1. more \in Seq(LotSet) /\ new \in Seq(LotSet) /\ q.lots \in Seq(LotSet) /\ q.quantity \in Nat /\ q.cost \in Nat
  BY DEF FineLots, JoinedLots, PositionSet
<1>2. PICK g \in Nat : g = Shares(more) /\ g = Weight(Sizes, more)
  BY <1>1, SharesAre
<1>3. PICK k \in Nat, c \in Nat : k = q.quantity /\ c = q.cost /\ k = Weight(Sizes, q.lots) /\ (k = 0 => c = 0)
  BY <1>1 DEF Holding
<1>4. m \in Nat /\ m = k + g
  BY <1>2, <1>3
<1>5. p \in PositionSet /\ p.quantity = m /\ p.frozen = q.frozen /\ p.cost = c /\ p.lots = new
  BY <1>1, <1>3, <1>4, PositionMade
<1>6. FineLots(new, s, day, R) /\ Weight(Sizes, new) = k + g
  BY <1>2, <1>3 DEF JoinedLots
<1>7. p.frozen <= Weight(Ripe(day), new)
  <2>1. Ripe(day) \in [LotSet -> Nat]
    BY Measures
  <2>2. Weight(Ripe(day), new) \in Nat
    BY <1>1, <2>1, WeightNatural
  <2> QED BY <1>5, <2>2
<1>8. m = 0 => c = 0
  BY <1>2, <1>3, <1>4
<1>9. Holding(p, s, day, R)
  BY <1>4, <1>5, <1>6, <1>7, <1>8 DEF Holding
<1> QED
  BY <1>3, <1>5, <1>9 DEF ExPosition, JoinedLots

\* New shares, as the code writes them and as one position.
GivesTo(b, d, s, n, more) ==
  b = [d EXCEPT !.position[s].quantity = @ + n, !.position[s].lots = ByAge(@ \o more)]
Repositions(b, d, s, p) == b = [d EXCEPT !.position = [d.position EXCEPT ![s] = p]]
LEMMA GivenWritten ==
  ASSUME NEW d \in AccountSet, NEW s \in Securities, NEW n, NEW more, NEW q, q = d.position[s],
         NEW m, m = q.quantity + n, NEW new, new = ByAge(q.lots \o more),
         NEW p, p = [q EXCEPT !.quantity = m, !.lots = new], NEW b, GivesTo(b, d, s, n, more)
  PROVE  Repositions(b, d, s, p)
<1>1. PICK position \in [Securities -> PositionSet] : position = d.position
  BY AccountFields
<1>2. PICK r : r = [position EXCEPT ![s].quantity = @ + n]
  OBVIOUS
<1>3. r[s].lots = q.lots /\ r = [position EXCEPT ![s] = [q EXCEPT !.quantity = m]]
  BY <1>1, <1>2 DEF PositionSet
<1>4. [r EXCEPT ![s].lots = ByAge(@ \o more)] = [r EXCEPT ![s].lots = new]
  BY <1>3
<1>5. [r EXCEPT ![s].lots = new] = [position EXCEPT ![s] = p]
  BY <1>1, <1>3 DEF PositionSet
<1>6. PICK c : c = [d EXCEPT !.position = r]
  OBVIOUS
<1>7. b = [c EXCEPT !.position = [c.position EXCEPT ![s].lots = ByAge(@ \o more)]]
  BY <1>1, <1>2, <1>6 DEF GivesTo, AccountSet
<1>8. c.position = r
  BY <1>6 DEF AccountSet
<1>9. b = [c EXCEPT !.position = [position EXCEPT ![s] = p]]
  BY <1>4, <1>5, <1>7, <1>8
<1> QED
  BY <1>1, <1>6, <1>9 DEF Repositions, AccountSet

\* A distribution of shares.
LEMMA ExSharesSound ==
  ASSUME NEW a, Sound(a), NEW i \in DOMAIN Actions, ExReady(a, i), Actions[i].kind = "shares", MayEx(a, i),
         a.position[Actions[i].s].frozen = 0
  PROVE  Sound(Ex(a, i)) /\ Turns(a, Ex(a, i), i, <<TRUE, TRUE, FALSE>>)
<1>1. /\ a \in AccountSet /\ a.action \in [DOMAIN Actions -> ActionSet] /\ a.position \in [Securities -> PositionSet]
      /\ a.cash \in Nat /\ a.receivable \in Nat /\ a.realized \in Int /\ a.day \in Nat
      /\ Rights(a)
  BY AccountFields DEF Sound
<1>2. PICK s \in Securities : s = Actions[i].s
  BY AccountParts
<1>3. PICK R : R = Registers(a.action)
  OBVIOUS
<1>4. PICK q \in PositionSet : q = a.position[s] /\ Holding(q, s, a.day, R) /\ FineLots(q.lots, s, a.day, R) /\ q.frozen = 0
  BY <1>2, <1>3, SoundHolding DEF Holding
<1>5. PICK tax \in Nat : tax = ShareTax(a, i) /\ tax <= Available(a)
  BY ShareTaxNatural DEF MayEx
<1>6. PICK net \in Nat : net = Net(a.action[i]) /\ net = 0
  BY <1>1, ComingCovers DEF Rights, Unpaid, Net
<1>7. PICK cash, realized, receivable :
        cash = a.cash - tax /\ realized = a.realized - tax /\ receivable = a.receivable
  OBVIOUS
<1>8. ExMoney(a, cash, realized, receivable, net, tax)
  BY <1>1, <1>6, <1>7 DEF ExMoney
<1>9. PICK more : more = Granted(a, i) /\ FineLots(more, s, a.day, {})
  BY GrantedAll
<1>10. PICK new : new = ByAge(q.lots \o more) /\ JoinedLots(new, q.lots, more, s, a.day, R)
  BY <1>4, <1>9, LotsJoin
<1>11. PICK m, p : m = q.quantity + Shares(more) /\ Holds(p, q, m, q.cost, new)
  BY DEF Holds
<1>12. ExPosition(p, q, s, a.day, R)
  BY <1>1, <1>4, <1>9, <1>10, <1>11, HoldsGiven
<1>13. PICK y : y = [a.action[i] EXCEPT !.ex = TRUE, !.recorded = <<>>]
  OBVIOUS
<1>14. PICK b : b = Ex(a, i)
  OBVIOUS
<1>15. ExAs(b, a, i, cash, realized, receivable, y, s, p)
  <2>1. PICK c : c = [a EXCEPT !.action[i].ex = TRUE, !.action[i].recorded = <<>>]
    OBVIOUS
  <2>2. c = [a EXCEPT !.action = [a.action EXCEPT ![i] = y]]
    BY <1>1, <1>13, <2>1 DEF AccountSet
  <2>3. PICK d : d = [c EXCEPT !.cash = @ - tax, !.realized = @ - tax]
    OBVIOUS
  <2>4. d = [a EXCEPT !.cash = cash, !.realized = realized, !.action = [a.action EXCEPT ![i] = y]]
    BY <1>1, <1>7, <2>2, <2>3 DEF AccountSet
  <2>5. b = [d EXCEPT !.position[s].quantity = @ + Shares(more), !.position[s].lots = ByAge(@ \o more)]
    BY <1>2, <1>5, <1>9, <1>14, <2>1, <2>3 DEF Ex
  <2>6. d.position = a.position
    BY <1>1, <2>4 DEF AccountSet
  <2>7. p = [q EXCEPT !.quantity = m, !.lots = new]
    BY <1>11 DEF Holds, PositionSet
  <2>8. d \in AccountSet
    <3>1. cash \in Nat /\ realized \in Int
      <4>1. a.frozen \in Nat /\ a.blocked \in Nat
        BY <1>1, AccountFields
      <4> QED BY <1>1, <1>5, <1>7, <4>1 DEF Available, Frozen
    <3>2. ExAction(y, a.action[i])
      BY <1>1, <1>13, ExActionMade
    <3>3. [a.action EXCEPT ![i] = y] \in [DOMAIN Actions -> ActionSet]
      BY <1>1, <3>2 DEF ExAction
    <3>4. PICK action \in [DOMAIN Actions -> ActionSet] : action = [a.action EXCEPT ![i] = y]
      BY <3>3
    <3>5. d = [a EXCEPT !.cash = cash, !.realized = realized, !.action = action]
      BY <2>4, <3>4
    <3> QED BY <1>1, <3>1, <3>5 DEF AccountSet
  <2>9. b = [d EXCEPT !.position = [a.position EXCEPT ![s] = p]]
    <3>1. GivesTo(b, d, s, Shares(more), more)
      BY <2>5 DEF GivesTo
    <3>2. PICK n : n = Shares(more) /\ m = q.quantity + n
      BY <1>11
    <3>3. Repositions(b, d, s, p)
      BY <1>4, <1>10, <2>6, <2>7, <2>8, <3>1, <3>2, GivenWritten
    <3> QED BY <2>6, <3>3 DEF Repositions
  <2> QED BY <1>1, <1>7, <2>4, <2>9 DEF ExAs, AccountSet
<1>16. Sound(b) /\ Turns(a, b, i, <<TRUE, TRUE, FALSE>>)
  <2>1. ExPosition(p, a.position[s], s, a.day, Registers(a.action))
    BY <1>3, <1>4, <1>12
  <2> QED BY <1>2, <1>5, <1>6, <1>8, <1>13, <1>15, <2>1, ExMoved
<1> QED
  BY <1>14, <1>16

\* A claim on a lot that is split, and the lot.
LEMMA ClaimSplit ==
  ASSUME NEW i \in DOMAIN Actions, Actions[i].kind = "split", NEW c \in ClaimSet, c.quantity \in Nat \ {0},
         Divisible(Actions[i], c.quantity), NEW d, d = SplitClaim(Actions[i], c)
  PROVE  /\ d \in ClaimSet /\ d.quantity = Scaled(Actions[i], c.quantity) /\ d.gross = c.gross /\ d.initial = c.initial
<1>1. Scaled(Actions[i], c.quantity) \in Nat
  BY ScaledAre
<1> QED
  BY <1>1 DEF ClaimSet, SplitClaim

SplitsLot(l, lot, i, s, day, R) ==
  /\ FineLot(l, s, day, R)
  /\ Sizes[l] = Scaled(Actions[i], Sizes[lot])
  /\ \A j : GrossOf(j)[l] = GrossOf(j)[lot] /\ InitialOf(j)[l] = InitialOf(j)[lot]
LEMMA SplitOne ==
  ASSUME NEW s, NEW day, NEW R, NEW lot, FineLot(lot, s, day, R), NEW i \in DOMAIN Actions, Actions[i].kind = "split",
         Divisible(Actions[i], lot.quantity)
  PROVE  SplitsLot(SplitLot(Actions[i], lot), lot, i, s, day, R)
<1>1. lot \in LotSet /\ lot.acquired <= day /\ lot.quantity \in Nat \ {0} /\ lot.from \in Nat
      /\ \A j \in DOMAIN lot.claims : lot.claims[j].quantity = lot.quantity /\ Actions[j].s = s /\ j \in R
  BY DEF FineLot, LotSet
<1>2. PICK D \in SUBSET DOMAIN Actions : D = DOMAIN lot.claims /\ \A j \in D : lot.claims[j] \in ClaimSet
  BY <1>1, ClaimsShape
<1>3. PICK quantity \in Nat \ {0} : quantity = Scaled(Actions[i], lot.quantity)
  BY <1>1, ScaledAre
<1>4. PICK from \in Nat : from = Greater(lot.from, Actions[i].from)
  BY <1>1, ActionShape DEF Greater
<1>5. PICK f : f = [j \in D |-> SplitClaim(Actions[i], lot.claims[j])]
  OBVIOUS
<1>6. \A j \in D : /\ f[j] \in ClaimSet /\ f[j].quantity = quantity
                   /\ f[j].gross = lot.claims[j].gross /\ f[j].initial = lot.claims[j].initial
  <2> SUFFICES ASSUME NEW j \in D
               PROVE  /\ f[j] \in ClaimSet /\ f[j].quantity = quantity
                      /\ f[j].gross = lot.claims[j].gross /\ f[j].initial = lot.claims[j].initial
    OBVIOUS
  <2>1. PICK c \in ClaimSet : c = lot.claims[j] /\ c.quantity = lot.quantity
    BY <1>1, <1>2
  <2>2. f[j] = SplitClaim(Actions[i], c)
    BY <1>5, <2>1
  <2>3. c.quantity \in Nat \ {0} /\ Divisible(Actions[i], c.quantity)
    BY <1>1, <2>1
  <2>4. PICK d : d = SplitClaim(Actions[i], c)
    OBVIOUS
  <2>5. /\ d \in ClaimSet /\ d.quantity = Scaled(Actions[i], c.quantity) /\ d.gross = c.gross /\ d.initial = c.initial
    BY <2>3, <2>4, ClaimSplit
  <2> QED BY <1>3, <2>1, <2>2, <2>4, <2>5
<1>7. f \in ClaimMaps /\ DOMAIN f = D
  <2>1. f \in [D -> ClaimSet]
    BY <1>5, <1>6
  <2> QED BY <2>1, ClaimsMade
<1>8. PICK l : l = SplitLot(Actions[i], lot)
  OBVIOUS
<1>9. l = [lot EXCEPT !.quantity = quantity, !.from = from, !.claims = f]
  <2>1. l = [lot EXCEPT !.quantity = Scaled(Actions[i], lot.quantity), !.from = Greater(lot.from, Actions[i].from),
                        !.claims = [j \in DOMAIN lot.claims |-> SplitClaim(Actions[i], lot.claims[j])]]
    BY <1>1, <1>8 DEF SplitLot, LotSet
  <2> QED BY <1>2, <1>3, <1>4, <1>5, <2>1
<1>10. l \in LotSet /\ l.acquired = lot.acquired /\ l.quantity = quantity /\ l.claims = f
  BY <1>1, <1>7, <1>9 DEF LotSet
<1>11. FineLot(l, s, day, R)
  BY <1>1, <1>2, <1>6, <1>7, <1>10 DEF FineLot
<1>12. Sizes[l] = Scaled(Actions[i], Sizes[lot])
  BY <1>1, <1>3, <1>10 DEF Sizes
<1>13. \A j : GrossOf(j)[l] = GrossOf(j)[lot] /\ InitialOf(j)[l] = InitialOf(j)[lot]
  BY <1>1, <1>2, <1>6, <1>7, <1>10 DEF GrossOf, InitialOf
<1> QED
  BY <1>8, <1>11, <1>12, <1>13 DEF SplitsLot

LEMMA CancelFactor ==
  ASSUME NEW d \in Nat \ {0}, NEW x \in Nat, NEW y \in Nat, d * x = d * y
  PROVE  x = y
<1>1. ASSUME x < y PROVE FALSE
  <2>1. PICK k \in Nat \ {0} : y = x + k
    <3>1. y - x \in Nat \ {0} /\ y = x + (y - x)
      BY <1>1
    <3> QED BY <3>1
  <2>2. d * y = d * x + d * k
    BY <2>1
  <2>3. d * k > 0
    BY <2>1
  <2> QED BY <2>2, <2>3
<1>2. ASSUME y < x PROVE FALSE
  <2>1. PICK k \in Nat \ {0} : x = y + k
    <3>1. x - y \in Nat \ {0} /\ x = y + (x - y)
      BY <1>2
    <3> QED BY <3>1
  <2>2. d * x = d * y + d * k
    BY <2>1
  <2>3. d * k > 0
    BY <2>1
  <2> QED BY <2>2, <2>3
<1> QED
  BY <1>1, <1>2

\* Split lots are together what the position is when it is split.
SplitLots(new, lots, i, s, day, R) ==
  /\ FineLots(new, s, day, R)
  /\ Weight(Sizes, new) = Scaled(Actions[i], Weight(Sizes, lots))
  /\ \A j : Weight(GrossOf(j), new) = Weight(GrossOf(j), lots) /\ Weight(InitialOf(j), new) = Weight(InitialOf(j), lots)
LEMMA SplitAll ==
  ASSUME NEW s, NEW day, NEW R, NEW lots, FineLots(lots, s, day, R), NEW i \in DOMAIN Actions, Actions[i].kind = "split",
         Divisible(Actions[i], Weight(Sizes, lots)), \A k \in DOMAIN lots : Divisible(Actions[i], lots[k].quantity),
         NEW new, new = [k \in DOMAIN lots |-> SplitLot(Actions[i], lots[k])]
  PROVE  SplitLots(new, lots, i, s, day, R)
<1>1. lots \in Seq(LotSet) /\ \A k \in DOMAIN lots : FineLot(lots[k], s, day, R) /\ lots[k] \in LotSet
  BY DEF FineLots, FineLot
<1>2. PICK n \in Nat : DOMAIN lots = 1..n /\ IsFiniteSet(1..n)
  BY <1>1, SequenceShape
<1>3. \A k \in 1..n : SplitsLot(new[k], lots[k], i, s, day, R)
  BY <1>1, <1>2, SplitOne
<1>4. new \in Seq(LotSet) /\ DOMAIN new = 1..n
  <2>1. new \in [1..n -> LotSet]
    <3>1. \A k \in 1..n : new[k] \in LotSet
      BY <1>3 DEF SplitsLot, FineLot
    <3> QED BY <1>2, <3>1
  <2>2. PICK g \in [1..n -> LotSet] : g = new
    BY <2>1
  <2>3. g \in Seq(LotSet) /\ DOMAIN g = 1..n
    BY <2>2, IsASeq
  <2> QED BY <2>2, <2>3
<1>5. FineLots(new, s, day, R)
  BY <1>3, <1>4 DEF FineLots, SplitsLot
<1>6. \A j : Weight(GrossOf(j), new) = Weight(GrossOf(j), lots) /\ Weight(InitialOf(j), new) = Weight(InitialOf(j), lots)
  <2> SUFFICES ASSUME NEW j
               PROVE  Weight(GrossOf(j), new) = Weight(GrossOf(j), lots) /\ Weight(InitialOf(j), new) = Weight(InitialOf(j), lots)
    OBVIOUS
  <2>1. /\ [k \in DOMAIN new |-> GrossOf(j)[new[k]]] = [k \in DOMAIN lots |-> GrossOf(j)[lots[k]]]
        /\ [k \in DOMAIN new |-> InitialOf(j)[new[k]]] = [k \in DOMAIN lots |-> InitialOf(j)[lots[k]]]
    BY <1>2, <1>3, <1>4 DEF SplitsLot
  <2> QED BY <2>1 DEF Weight
<1>7. PICK num \in Nat \ {0}, den \in Nat \ {0} : num = Actions[i].num /\ den = Actions[i].den
  BY ActionShape
<1>8. PICK w \in Nat, v \in Nat : w = Weight(Sizes, lots) /\ v = Weight(Sizes, new)
  BY <1>1, <1>4, SharesAre
<1>9. PICK g, h : g = [k \in 1..n |-> Sizes[lots[k]]] /\ h = [k \in 1..n |-> Sizes[new[k]]]
  OBVIOUS
<1>10. /\ g \in [1..n -> Int] /\ h \in [1..n -> Int]
       /\ \A k \in 1..n : den * h[k] = num * g[k]
  <2>1. \A k \in 1..n : g[k] \in Int /\ h[k] \in Int /\ den * h[k] = num * g[k]
    <3> SUFFICES ASSUME NEW k \in 1..n PROVE g[k] \in Int /\ h[k] \in Int /\ den * h[k] = num * g[k]
      OBVIOUS
    <3>1. PICK z \in Nat : z = lots[k].quantity /\ z = g[k]
      BY <1>1, <1>2, <1>9 DEF LotSet, Sizes
    <3>2. h[k] = Scaled(Actions[i], z)
      BY <1>1, <1>2, <1>3, <1>9, <3>1 DEF SplitsLot
    <3>3. Divisible(Actions[i], z) /\ Actions[i].kind \in {"shares", "split"}
      BY <1>2, <3>1
    <3>4. Scaled(Actions[i], z) \in Nat /\ den * Scaled(Actions[i], z) = z * num
      BY <1>7, <3>3, ScaledAre
    <3> QED BY <3>1, <3>2, <3>4
  <2> QED BY <1>9, <2>1
<1>11. SumFunction(g) = w /\ SumFunction(h) = v
  BY <1>2, <1>4, <1>8, <1>9 DEF Weight
<1>12. den * v = num * w
  <2>1. PICK S : S = 1..n
    OBVIOUS
  <2>2. /\ IsFiniteSet(S) /\ g \in [S -> Int] /\ h \in [S -> Int] /\ den \in Int /\ num \in Int
        /\ \A k \in S : den * h[k] = num * g[k]
    BY <1>2, <1>10, <2>1
  <2>3. den * SumFunction(h) = num * SumFunction(g)
    BY <2>2, SumTimes
  <2> QED BY <1>11, <2>3
<1>13. PICK u \in Nat : u = Scaled(Actions[i], w) /\ den * u = w * num
  BY <1>7, <1>8, ScaledAre
<1>14. v = u
  <2>1. den * v = den * u
    BY <1>12, <1>13
  <2> QED BY <2>1, CancelFactor
<1> QED
  BY <1>5, <1>6, <1>8, <1>13, <1>14 DEF SplitLots

\* A position that is split, at the cost it had.
SplitsTo(p, q, i, new) == p = Kept([q EXCEPT !.quantity = Scaled(Actions[i], q.quantity), !.lots = new])
LEMMA HoldsSplit ==
  ASSUME NEW q \in PositionSet, NEW s, NEW day \in Nat, NEW R, Holding(q, s, day, R), q.frozen = 0,
         NEW i \in DOMAIN Actions, Actions[i].kind = "split", Divisible(Actions[i], q.quantity),
         NEW new, SplitLots(new, q.lots, i, s, day, R), NEW p, SplitsTo(p, q, i, new)
  PROVE  ExPosition(p, q, s, day, R)
<1>1. q.lots \in Seq(LotSet) /\ new \in Seq(LotSet) /\ FineLots(new, s, day, R)
  BY DEF PositionSet, SplitLots, FineLots
<1>2. PICK k \in Nat, c \in Nat : k = q.quantity /\ c = q.cost /\ k = Weight(Sizes, q.lots) /\ (k = 0 => c = 0)
  BY DEF Holding, PositionSet
<1>3. Divisible(Actions[i], k) /\ Actions[i].kind \in {"shares", "split"}
  BY <1>2
<1>4. PICK m \in Nat : m = Scaled(Actions[i], k) /\ (m = 0 <=> k = 0)
  BY <1>3, ScaledAre
<1>5. PICK r : r = [q EXCEPT !.quantity = m, !.lots = new]
  OBVIOUS
<1>6. r \in PositionSet /\ r.quantity = m /\ r.frozen = 0 /\ r.cost = c /\ r.lots = new
  BY <1>1, <1>2, <1>5 DEF PositionSet
<1>7. Weight(Ripe(day), new) \in Nat
  <2>1. Ripe(day) \in [LotSet -> Nat]
    BY Measures
  <2> QED BY <1>1, <2>1, WeightNatural
<1>8. Holding(r, s, day, R)
  BY <1>1, <1>2, <1>4, <1>6, <1>7 DEF Holding, SplitLots
<1>9. p = Kept(r)
  BY <1>2, <1>4, <1>5 DEF SplitsTo
<1>10. p \in PositionSet /\ Holding(p, s, day, R) /\ p.cost = r.cost /\ p.frozen = r.frozen /\ p.lots = r.lots
  BY <1>6, <1>8, <1>9, KeptHolding
<1> QED
  BY <1>2, <1>6, <1>10 DEF ExPosition, SplitLots

\* A split.
LEMMA ExSplitSound ==
  ASSUME NEW a, Sound(a), NEW i \in DOMAIN Actions, ExReady(a, i), Actions[i].kind = "split", MayEx(a, i),
         a.position[Actions[i].s].frozen = 0
  PROVE  Sound(Ex(a, i)) /\ Turns(a, Ex(a, i), i, <<TRUE, TRUE, FALSE>>)
<1>1. /\ a \in AccountSet /\ a.action \in [DOMAIN Actions -> ActionSet] /\ a.position \in [Securities -> PositionSet]
      /\ a.cash \in Nat /\ a.receivable \in Nat /\ a.realized \in Int /\ a.day \in Nat
      /\ Rights(a)
  BY AccountFields DEF Sound
<1>2. PICK s \in Securities : s = Actions[i].s
  BY AccountParts
<1>3. PICK R : R = Registers(a.action)
  OBVIOUS
<1>4. PICK q \in PositionSet : q = a.position[s] /\ Holding(q, s, a.day, R) /\ FineLots(q.lots, s, a.day, R) /\ q.frozen = 0
  BY <1>2, <1>3, SoundHolding DEF Holding
<1>5. PICK tax \in Nat : tax = ShareTax(a, i) /\ tax <= Available(a)
  BY ShareTaxNatural DEF MayEx
<1>6. PICK net \in Nat : net = Net(a.action[i]) /\ net = 0
  BY <1>1, ComingCovers DEF Rights, Unpaid, Net
<1>7. PICK cash, realized, receivable :
        cash = a.cash - tax /\ realized = a.realized - tax /\ receivable = a.receivable
  OBVIOUS
<1>8. ExMoney(a, cash, realized, receivable, net, tax)
  BY <1>1, <1>6, <1>7 DEF ExMoney
<1>9. Divisible(Actions[i], q.quantity) /\ \A k \in DOMAIN q.lots : Divisible(Actions[i], q.lots[k].quantity)
  BY <1>2, <1>4 DEF MayEx
<1>10. PICK new : new = [k \in DOMAIN q.lots |-> SplitLot(Actions[i], q.lots[k])]
  OBVIOUS
<1>11. SplitLots(new, q.lots, i, s, a.day, R)
  <2>1. Divisible(Actions[i], Weight(Sizes, q.lots))
    BY <1>4, <1>9 DEF Holding
  <2> QED BY <1>4, <1>9, <1>10, <2>1, SplitAll
<1>12. PICK p : SplitsTo(p, q, i, new)
  BY DEF SplitsTo
<1>13. ExPosition(p, q, s, a.day, R)
  BY <1>1, <1>4, <1>9, <1>11, <1>12, HoldsSplit
<1>14. PICK y : y = [a.action[i] EXCEPT !.ex = TRUE, !.recorded = <<>>]
  OBVIOUS
<1>15. PICK b : b = Ex(a, i)
  OBVIOUS
<1>16. ExAs(b, a, i, cash, realized, receivable, y, s, p)
  <2>1. PICK c : c = [a EXCEPT !.action[i].ex = TRUE, !.action[i].recorded = <<>>]
    OBVIOUS
  <2>2. c = [a EXCEPT !.action = [a.action EXCEPT ![i] = y]]
    BY <1>1, <1>14, <2>1 DEF AccountSet
  <2>3. PICK d : d = [c EXCEPT !.cash = @ - tax, !.realized = @ - tax]
    OBVIOUS
  <2>4. d = [a EXCEPT !.cash = cash, !.realized = realized, !.action = [a.action EXCEPT ![i] = y]]
    BY <1>1, <1>7, <2>2, <2>3 DEF AccountSet
  <2>5. Kept([q EXCEPT !.quantity = Scaled(Actions[i], @), !.lots = [k \in DOMAIN @ |-> SplitLot(Actions[i], @[k])]]) = p
    BY <1>10, <1>12 DEF SplitsTo, PositionSet
  <2>6. b = [d EXCEPT !.position[s] =
               Kept([q EXCEPT !.quantity = Scaled(Actions[i], @), !.lots = [k \in DOMAIN @ |-> SplitLot(Actions[i], @[k])]])]
    BY <1>2, <1>4, <1>5, <1>15, <2>1, <2>3 DEF Ex
  <2>7. d.position = a.position
    BY <1>1, <2>4 DEF AccountSet
  <2>8. b = [d EXCEPT !.position = [a.position EXCEPT ![s] = p]]
    BY <1>1, <2>4, <2>5, <2>6, <2>7 DEF AccountSet
  <2> QED BY <1>1, <1>7, <2>4, <2>8 DEF ExAs, AccountSet
<1>17. Sound(b) /\ Turns(a, b, i, <<TRUE, TRUE, FALSE>>)
  <2>1. ExPosition(p, a.position[s], s, a.day, Registers(a.action))
    BY <1>3, <1>4, <1>13
  <2> QED BY <1>2, <1>5, <1>6, <1>8, <1>14, <1>16, <2>1, ExMoved
<1> QED
  BY <1>15, <1>17

\* An ex session begins when no order on the security is left: bonus shares and
\* splits change lots, claims and cost together, so that the account stays sound.
THEOREM ExSound ==
  ASSUME NEW a, Sound(a), NEW i \in DOMAIN Actions, ExReady(a, i), MayEx(a, i), a.position[Actions[i].s].frozen = 0
  PROVE  Sound(Ex(a, i)) /\ Turns(a, Ex(a, i), i, <<TRUE, TRUE, FALSE>>)
<1>1. CASE Actions[i].kind = "shares"
  BY <1>1, ExSharesSound
<1>2. CASE Actions[i].kind = "split"
  BY <1>2, ExSplitSound
<1>3. CASE Actions[i].kind \notin {"shares", "split"}
  BY <1>3, ExQuietSound
<1> QED
  BY <1>1, <1>2, <1>3

-----------------------------------------------------------------------------
(* Rights are recorded, begin and are paid on time: k is 0 before the      *)
(* opening of a session, 1 until its close and 2 from then on.             *)

RecordedBy(i, day, k) == Actions[i].record < day \/ (Actions[i].record = day /\ k = 2)
BegunBy(i, day, k)    == Actions[i].ex < day \/ (Actions[i].ex = day /\ k # 0)
PaidBy(i, day, k) ==
  /\ Actions[i].kind = "dividend"
  /\ \/ Actions[i].pay[1] < day
     \/ Actions[i].pay[1] = day /\ (k = 2 \/ (k = 1 /\ Actions[i].pay[2] = "open"))
Stands(x, i, day, k) ==
  (x.registered <=> RecordedBy(i, day, k)) /\ (x.ex <=> BegunBy(i, day, k)) /\ (x.paid <=> PaidBy(i, day, k))
Timely(a, k) == \A i \in DOMAIN Actions : Stands(a.action[i], i, a.day, k)
PhaseOf(k)   == IF k = 1 THEN "open" ELSE "close"

\* The securities that begin an ex session.
Struck(day, phase) == IF phase = "open" THEN {Actions[j].s : j \in {j \in DOMAIN Actions : Actions[j].ex = day}} ELSE {}

LEMMA ActionTimes ==
  ASSUME NEW i \in DOMAIN Actions
  PROVE  /\ Actions[i].record \in Nat \ {0} /\ Actions[i].ex \in Nat /\ Actions[i].record < Actions[i].ex
         /\ Actions[i].kind = "dividend" =>
              /\ Actions[i].pay = <<Actions[i].pay[1], Actions[i].pay[2]>> /\ Actions[i].pay[1] \in Nat
              /\ Actions[i].pay[2] \in {"open", "close"} /\ Actions[i].ex <= Actions[i].pay[1]
<1>1. /\ Actions[i].record \in Nat \ {0} /\ Actions[i].ex \in Nat /\ Actions[i].record < Actions[i].ex
      /\ Actions[i].kind = "dividend" => Actions[i].pay \in Nat \X {"open", "close"} /\ Actions[i].ex <= Actions[i].pay[1]
  BY ActionShape
<1> QED
  BY <1>1

\* Whether a dividend is paid at the boundary.
Pays(i, day, phase) == Actions[i].kind = "dividend" /\ Actions[i].pay = <<day, phase>>

\* What stands when nothing happens at a boundary.
LEMMA StandsOn ==
  ASSUME NEW i \in DOMAIN Actions, NEW day \in Nat, NEW k \in {1, 2}, NEW x, Stands(x, i, day, k - 1),
         ~(k = 2 /\ Actions[i].record = day), ~(k = 1 /\ Actions[i].ex = day), ~Pays(i, day, PhaseOf(k))
  PROVE  Stands(x, i, day, k)
<1>1. Actions[i].record \in Nat /\ Actions[i].ex \in Nat
  BY ActionTimes
<1>2. RecordedBy(i, day, k) <=> RecordedBy(i, day, k - 1)
  BY DEF RecordedBy
<1>3. BegunBy(i, day, k) <=> BegunBy(i, day, k - 1)
  BY DEF BegunBy
<1>4. PaidBy(i, day, k) <=> PaidBy(i, day, k - 1)
  <2>1. CASE Actions[i].kind # "dividend"
    BY <2>1 DEF PaidBy
  <2>2. CASE Actions[i].kind = "dividend"
    <3>1. PICK p, q : p = Actions[i].pay[1] /\ q = Actions[i].pay[2] /\ Actions[i].pay = <<p, q>> /\ q \in {"open", "close"}
      BY <2>2, ActionTimes
    <3>2. p # day \/ q # PhaseOf(k)
      BY <2>2, <3>1 DEF Pays
    <3> QED BY <3>1, <3>2 DEF PaidBy, PhaseOf
  <2> QED BY <2>1, <2>2
<1> QED
  BY <1>2, <1>3, <1>4 DEF Stands

\* What stands when a right is recorded.
LEMMA StandsRecorded ==
  ASSUME NEW i \in DOMAIN Actions, NEW day \in Nat, Actions[i].record = day
  PROVE  /\ ~RecordedBy(i, day, 1) /\ ~Pays(i, day, "close")
         /\ \A x : x.registered = TRUE /\ x.ex = FALSE /\ x.paid = FALSE => Stands(x, i, day, 2)
<1>1. /\ Actions[i].record \in Nat \ {0} /\ Actions[i].ex \in Nat /\ Actions[i].record < Actions[i].ex
      /\ Actions[i].kind = "dividend" => Actions[i].pay[1] \in Nat /\ Actions[i].ex <= Actions[i].pay[1]
  BY ActionTimes
<1>2. ~RecordedBy(i, day, 1)
  BY <1>1 DEF RecordedBy
<1>3. RecordedBy(i, day, 2) /\ ~BegunBy(i, day, 2) /\ ~PaidBy(i, day, 2)
  BY <1>1 DEF RecordedBy, BegunBy, PaidBy
<1>4. ~Pays(i, day, "close")
  BY <1>1 DEF Pays
<1> QED
  BY <1>2, <1>3, <1>4 DEF Stands

\* What stands when an ex session begins.
LEMMA StandsBegun ==
  ASSUME NEW i \in DOMAIN Actions, NEW day \in Nat, Actions[i].ex = day
  PROVE  /\ RecordedBy(i, day, 0) /\ ~BegunBy(i, day, 0)
         /\ \A x : x.registered = TRUE /\ x.ex = TRUE /\ x.paid = Pays(i, day, "open") => Stands(x, i, day, 1)
<1>1. Actions[i].record \in Nat \ {0} /\ Actions[i].ex \in Nat /\ Actions[i].record < Actions[i].ex
  BY ActionTimes
<1>2. RecordedBy(i, day, 0) /\ ~BegunBy(i, day, 0) /\ RecordedBy(i, day, 1) /\ BegunBy(i, day, 1)
  BY <1>1 DEF RecordedBy, BegunBy
<1>3. PaidBy(i, day, 1) <=> Pays(i, day, "open")
  <2>1. CASE Actions[i].kind # "dividend"
    BY <2>1 DEF PaidBy, Pays
  <2>2. CASE Actions[i].kind = "dividend"
    <3>1. PICK p \in Nat, q \in {"open", "close"} :
            p = Actions[i].pay[1] /\ q = Actions[i].pay[2] /\ Actions[i].pay = <<p, q>> /\ day <= p
      BY <2>2, ActionTimes
    <3>2. ~(p < day)
      BY <3>1
    <3> QED BY <2>2, <3>1, <3>2 DEF PaidBy, Pays
  <2> QED BY <2>1, <2>2
<1> QED
  BY <1>2, <1>3 DEF Stands

\* What stands when a dividend is paid.
LEMMA StandsPaid ==
  ASSUME NEW i \in DOMAIN Actions, NEW day \in Nat, NEW k \in {1, 2}, Pays(i, day, PhaseOf(k)),
         k = 2 \/ Actions[i].ex # day
  PROVE  /\ RecordedBy(i, day, k - 1) /\ BegunBy(i, day, k - 1) /\ ~PaidBy(i, day, k - 1)
         /\ \A x : x.registered = TRUE /\ x.ex = TRUE /\ x.paid = TRUE => Stands(x, i, day, k)
<1>1. PICK r \in Nat, e \in Nat, p \in Nat :
        /\ r = Actions[i].record /\ e = Actions[i].ex /\ p = Actions[i].pay[1] /\ r < e /\ e <= p
        /\ p = day /\ Actions[i].pay[2] = PhaseOf(k) /\ Actions[i].kind = "dividend"
  BY ActionTimes DEF Pays
<1>2. e < day \/ (e = day /\ k = 2)
  BY <1>1
<1>3. RecordedBy(i, day, k - 1) /\ BegunBy(i, day, k - 1)
  BY <1>1, <1>2 DEF RecordedBy, BegunBy
<1>4. ~PaidBy(i, day, k - 1)
  BY <1>1 DEF PaidBy, PhaseOf
<1>5. RecordedBy(i, day, k) /\ BegunBy(i, day, k) /\ PaidBy(i, day, k)
  BY <1>1, <1>2 DEF RecordedBy, BegunBy, PaidBy, PhaseOf
<1> QED
  BY <1>3, <1>4, <1>5 DEF Stands

\* From account a to b an action of i is done; nothing else is, but for the
\* quantities of S.
Moved(a, b, i, S) ==
  /\ b.day = a.day /\ \A j \in DOMAIN Actions \ {i} : FlagsOf(b.action[j]) = FlagsOf(a.action[j])
  /\ \A z \in Securities \ S : b.position[z].quantity = a.position[z].quantity

\* What is done before dividends are paid, and whether it can be.
Turned(a, i, phase) ==
  IF phase = "close" /\ Actions[i].record = a.day THEN Register(a, i)
  ELSE IF phase = "open" /\ Actions[i].ex = a.day THEN Ex(FreedOf(a, HeldBy(a, Actions[i].s)), i) ELSE a
MayTurn(a, i, phase) ==
  phase = "open" /\ Actions[i].ex = a.day => MayEx(FreedOf(a, HeldBy(a, Actions[i].s)), i)
StepAs(m, a, r, i, phase) ==
  /\ m.ok <=> MayTurn(a, i, phase)
  /\ m.ok => m.a = IF Pays(i, a.day, phase) THEN Pay(r, i) ELSE r

LEMMA StepIs ==
  ASSUME NEW n, {"ok", "a", "ended"} \subseteq DOMAIN n, n.ok, NEW i, NEW phase \in {"open", "close"},
         NEW a, a = n.a, NEW r, r = Turned(a, i, phase), r.day = a.day
  PROVE  StepAs(Step(n, i, phase), a, r, i, phase)
<1> DEFINE S == HeldBy(a, Actions[i].s)
<1>1. PICK y : y = Registered(n, i, phase)
  OBVIOUS
<1>2. PICK x : x = AtEx(y, i, phase)
  OBVIOUS
<1>3. PICK m : m = Step(n, i, phase) /\ m = Paid(x, i, phase)
  BY <1>1, <1>2 DEF Step
<1>4. {"ok", "a", "ended"} \subseteq DOMAIN x /\ (x.ok <=> MayTurn(a, i, phase)) /\ (x.ok => x.a = r)
  <2>1. CASE phase = "close" /\ Actions[i].record = a.day
    <3>1. y = [n EXCEPT !.a = r]
      BY <1>1, <2>1 DEF Registered, Turned
    <3>2. x = y
      BY <1>2, <2>1 DEF AtEx
    <3> QED BY <2>1, <3>1, <3>2 DEF MayTurn
  <2>2. CASE phase = "open" /\ Actions[i].ex = a.day
    <3>1. y = n
      BY <1>1, <2>2 DEF Registered
    <3>2. x = Begun(n, i, FreedOf(a, S), S)
      BY <1>2, <2>2, <3>1 DEF AtEx, Begins
    <3>3. CASE MayEx(FreedOf(a, S), i)
      <4>1. x = [n EXCEPT !.a = r, !.ended = @ \cup S]
        BY <2>2, <3>2, <3>3 DEF Begun, Turned
      <4> QED BY <3>3, <4>1 DEF MayTurn
    <3>4. CASE ~MayEx(FreedOf(a, S), i)
      <4>1. x = [n EXCEPT !.ok = FALSE]
        BY <3>2, <3>4 DEF Begun
      <4> QED BY <2>2, <3>4, <4>1 DEF MayTurn
    <3> QED BY <3>3, <3>4
  <2>3. CASE ~(phase = "close" /\ Actions[i].record = a.day) /\ ~(phase = "open" /\ Actions[i].ex = a.day)
    <3>1. y = n
      BY <1>1, <2>3 DEF Registered
    <3>2. x = n
      BY <1>2, <2>3, <3>1 DEF AtEx
    <3> QED BY <2>3, <3>2 DEF MayTurn, Turned
  <2> QED BY <2>1, <2>2, <2>3
<1>5. CASE ~x.ok
  <2>1. m = x
    BY <1>3, <1>5 DEF Paid
  <2> QED BY <1>3, <1>4, <1>5, <2>1 DEF StepAs
<1>6. CASE x.ok /\ Pays(i, a.day, phase)
  <2>1. m = [x EXCEPT !.a = Pay(r, i)]
    BY <1>3, <1>4, <1>6 DEF Paid, Pays
  <2> QED BY <1>3, <1>4, <1>6, <2>1 DEF StepAs
<1>7. CASE x.ok /\ ~Pays(i, a.day, phase)
  <2>1. m = x
    BY <1>3, <1>4, <1>7 DEF Paid, Pays
  <2> QED BY <1>3, <1>4, <1>7, <2>1 DEF StepAs
<1> QED
  BY <1>5, <1>6, <1>7

\* A boundary does to an account what is due, and keeps it sound.
LEMMA TurnedSound ==
  ASSUME NEW a, Sound(a), NEW i \in DOMAIN Actions, NEW k \in {1, 2}, Stands(a.action[i], i, a.day, k - 1),
         MayTurn(a, i, PhaseOf(k))
  PROVE  /\ Sound(Turned(a, i, PhaseOf(k)))
         /\ Moved(a, Turned(a, i, PhaseOf(k)), i, Struck(a.day, PhaseOf(k)))
         /\ IF Pays(i, a.day, PhaseOf(k))
            THEN LET x == Turned(a, i, PhaseOf(k)).action[i] IN x.registered = TRUE /\ x.ex = TRUE /\ x.paid = FALSE
            ELSE Stands(Turned(a, i, PhaseOf(k)).action[i], i, a.day, k)
<1>1. /\ a \in AccountSet /\ a.day \in Nat /\ Rights(a) /\ \A j \in DOMAIN Actions : a.action[j] \in ActionSet
  BY AccountFields DEF Sound
<1>2. PICK day \in Nat : day = a.day
  BY <1>1
<1>3. PICK b : b = Turned(a, i, PhaseOf(k))
  OBVIOUS
<1>4. CASE k = 2 /\ Actions[i].record = day
  <2>1. b = Register(a, i)
    BY <1>2, <1>3, <1>4 DEF Turned, PhaseOf
  <2>2. ~RecordedBy(i, day, 1) /\ ~Pays(i, day, "close")
        /\ \A x : x.registered = TRUE /\ x.ex = FALSE /\ x.paid = FALSE => Stands(x, i, day, 2)
    BY <1>4, StandsRecorded
  <2>3. ~a.action[i].registered
    BY <1>2, <1>4, <2>2 DEF Stands
  <2>4. Sound(b) /\ KeepsShares(a, b) /\ Turns(a, b, i, <<TRUE, FALSE, FALSE>>)
    BY <2>1, <2>3, RegisterSound
  <2>5. b.action[i].registered = TRUE /\ b.action[i].ex = FALSE /\ b.action[i].paid = FALSE
    BY <2>4 DEF Turns, FlagsOf
  <2>6. Moved(a, b, i, Struck(a.day, PhaseOf(k)))
    BY <2>4 DEF Turns, KeepsShares, Moved
  <2> QED BY <1>2, <1>3, <1>4, <2>2, <2>4, <2>5, <2>6 DEF PhaseOf
<1>5. CASE k = 1 /\ Actions[i].ex = day
  <2>1. PICK s \in Securities : s = Actions[i].s
    BY AccountParts
  <2>2. PICK S \in SUBSET Orders : S = HeldBy(a, s)
    BY DEF HeldBy
  <2>3. PICK c : c = FreedOf(a, S)
    OBVIOUS
  <2>4. Sound(c) /\ c.day = a.day /\ c.action = a.action
        /\ \A z \in Securities : c.position[z].quantity = a.position[z].quantity
    BY <2>3, FreedSound DEF SameShares
  <2>5. c.position[s].frozen = 0
    BY <2>2, <2>3, FreedHeld
  <2>6. b = Ex(c, i) /\ MayEx(c, i)
    BY <1>2, <1>3, <1>5, <2>1, <2>2, <2>3 DEF Turned, PhaseOf, MayTurn
  <2>7. RecordedBy(i, day, 0) /\ ~BegunBy(i, day, 0)
        /\ \A x : x.registered = TRUE /\ x.ex = TRUE /\ x.paid = Pays(i, day, "open") => Stands(x, i, day, 1)
    BY <1>5, StandsBegun
  <2>8. ExReady(c, i)
    BY <1>2, <1>5, <2>4, <2>7 DEF ExReady, Stands
  <2>9. Sound(b) /\ Turns(c, b, i, <<TRUE, TRUE, FALSE>>)
    BY <2>1, <2>4, <2>5, <2>6, <2>8, ExSound
  <2>10. b.action[i].registered = TRUE /\ b.action[i].ex = TRUE /\ b.action[i].paid = FALSE
    BY <2>9 DEF Turns, FlagsOf
  <2>11. Moved(a, b, i, Struck(a.day, PhaseOf(k)))
    <3>1. s \in Struck(a.day, PhaseOf(k))
      BY <1>2, <1>5, <2>1 DEF Struck, PhaseOf
    <3>2. b.day = a.day /\ \A j \in DOMAIN Actions \ {i} : FlagsOf(b.action[j]) = FlagsOf(a.action[j])
      BY <2>4, <2>9 DEF Turns
    <3>3. \A z \in Securities \ {s} : b.position[z] = c.position[z]
      BY <2>1, <2>9 DEF Turns
    <3> QED BY <2>4, <3>1, <3>2, <3>3 DEF Moved
  <2>12. ~Pays(i, day, "open") => Stands(b.action[i], i, day, 1)
    <3>1. ASSUME ~Pays(i, day, "open") PROVE Pays(i, day, "open") = FALSE
      BY <3>1 DEF Pays
    <3> QED BY <2>7, <2>10, <3>1
  <2> QED BY <1>2, <1>3, <1>5, <2>9, <2>10, <2>11, <2>12 DEF PhaseOf
<1>6. CASE ~(k = 2 /\ Actions[i].record = day) /\ ~(k = 1 /\ Actions[i].ex = day)
  <2>1. b = a
    BY <1>2, <1>3, <1>6 DEF Turned, PhaseOf
  <2>2. Moved(a, b, i, Struck(a.day, PhaseOf(k)))
    BY <2>1 DEF Moved
  <2>3. CASE ~Pays(i, day, PhaseOf(k))
    BY <1>2, <1>3, <1>6, <2>1, <2>2, <2>3, StandsOn
  <2>4. CASE Pays(i, day, PhaseOf(k))
    <3>1. k = 2 \/ Actions[i].ex # day
      BY <1>6
    <3>2. RecordedBy(i, day, k - 1) /\ BegunBy(i, day, k - 1) /\ ~PaidBy(i, day, k - 1)
      BY <2>4, <3>1, StandsPaid
    <3>3. PICK x \in ActionSet : x = a.action[i]
      BY <1>1
    <3>4. x.registered /\ x.ex /\ ~x.paid
      BY <1>2, <3>2, <3>3 DEF Stands
    <3>5. x.registered = TRUE /\ x.ex = TRUE /\ x.paid = FALSE
      BY <3>4 DEF ActionSet
    <3> QED BY <1>2, <1>3, <2>1, <2>2, <2>4, <3>3, <3>5
  <2> QED BY <2>3, <2>4
<1> QED
  BY <1>4, <1>5, <1>6

\* From account a to b the actions of D are done.
Onward(a, b, D, k) ==
  /\ Sound(b) /\ b.day = a.day
  /\ \A j \in DOMAIN Actions : Stands(b.action[j], j, a.day, IF j \in D THEN k ELSE k - 1)
  /\ \A z \in Securities \ Struck(a.day, PhaseOf(k)) : b.position[z].quantity = a.position[z].quantity
OnwardAll(n, a, D, k) ==
  /\ {"ok", "a", "ended"} \subseteq DOMAIN n
  /\ n.ok => Onward(a, n.a, D, k)
  /\ k = 2 => n.ok

LEMMA StandsSame ==
  ASSUME NEW x, NEW y, FlagsOf(x) = FlagsOf(y), NEW i, NEW day, NEW k
  PROVE  Stands(x, i, day, k) <=> Stands(y, i, day, k)
BY DEF FlagsOf, Stands

LEMMA TurnedOnward ==
  ASSUME NEW a, NEW k \in {1, 2}, NEW D, NEW b, Onward(a, b, D, k), NEW i \in DOMAIN Actions, i \notin D,
         MayTurn(b, i, PhaseOf(k)), NEW r, r = Turned(b, i, PhaseOf(k)),
         NEW c, c = IF Pays(i, b.day, PhaseOf(k)) THEN Pay(r, i) ELSE r
  PROVE  Onward(a, c, D \cup {i}, k)
<1>1. /\ Sound(b) /\ b.day = a.day
      /\ \A j \in DOMAIN Actions : Stands(b.action[j], j, b.day, IF j \in D THEN k ELSE k - 1)
      /\ \A z \in Securities \ Struck(b.day, PhaseOf(k)) : b.position[z].quantity = a.position[z].quantity
  BY DEF Onward
<1>2. /\ Sound(r) /\ Moved(b, r, i, Struck(b.day, PhaseOf(k)))
      /\ IF Pays(i, b.day, PhaseOf(k))
         THEN LET x == r.action[i] IN x.registered = TRUE /\ x.ex = TRUE /\ x.paid = FALSE
         ELSE Stands(r.action[i], i, b.day, k)
  BY <1>1, TurnedSound
<1>3. Sound(c) /\ Moved(b, c, i, Struck(b.day, PhaseOf(k))) /\ Stands(c.action[i], i, b.day, k)
  <2>1. CASE ~Pays(i, b.day, PhaseOf(k))
    BY <1>2, <2>1
  <2>2. CASE Pays(i, b.day, PhaseOf(k))
    <3>1. r.action[i].registered = TRUE /\ r.action[i].ex = TRUE /\ r.action[i].paid = FALSE
      BY <1>2, <2>2
    <3>2. c = Pay(r, i)
      BY <2>2
    <3>3. Sound(c) /\ KeepsShares(r, c) /\ Turns(r, c, i, <<r.action[i].registered, TRUE, TRUE>>)
      BY <1>2, <3>1, <3>2, PaySound
    <3>4. c.action[i].registered = TRUE /\ c.action[i].ex = TRUE /\ c.action[i].paid = TRUE
      BY <3>1, <3>3 DEF Turns, FlagsOf
    <3>5. PICK day \in Nat : day = b.day
      BY <1>1, AccountFields DEF Sound
    <3>6. Stands(c.action[i], i, day, k)
      <4>1. CASE k = 1 /\ Actions[i].ex = day
        <5>1. \A x : x.registered = TRUE /\ x.ex = TRUE /\ x.paid = Pays(i, day, "open") => Stands(x, i, day, 1)
          BY <4>1, StandsBegun
        <5>2. Pays(i, day, "open") = TRUE
          BY <2>2, <3>5, <4>1 DEF PhaseOf, Pays
        <5> QED BY <3>4, <4>1, <5>1, <5>2
      <4>2. CASE k = 2 \/ Actions[i].ex # day
        BY <2>2, <3>4, <3>5, <4>2, StandsPaid
      <4> QED BY <4>1, <4>2
    <3>7. Moved(b, c, i, Struck(b.day, PhaseOf(k)))
      BY <1>2, <3>3 DEF Moved, Turns, KeepsShares
    <3> QED BY <3>3, <3>5, <3>6, <3>7
  <2> QED BY <2>1, <2>2
<1>4. \A j \in DOMAIN Actions : Stands(c.action[j], j, a.day, IF j \in D \cup {i} THEN k ELSE k - 1)
  <2> SUFFICES ASSUME NEW j \in DOMAIN Actions
               PROVE  Stands(c.action[j], j, a.day, IF j \in D \cup {i} THEN k ELSE k - 1)
    OBVIOUS
  <2>1. CASE j = i
    BY <1>1, <1>3, <2>1
  <2>2. CASE j # i
    <3>1. FlagsOf(c.action[j]) = FlagsOf(b.action[j])
      BY <1>3, <2>2 DEF Moved
    <3> QED BY <1>1, <2>2, <3>1, StandsSame
  <2> QED BY <2>1, <2>2
<1> QED
  BY <1>1, <1>3, <1>4 DEF Onward, Moved

LEMMA OnwardMore ==
  ASSUME NEW a, NEW k \in {1, 2}, NEW D, NEW n, OnwardAll(n, a, D, k), NEW i \in DOMAIN Actions, i \notin D
  PROVE  OnwardAll(Step(n, i, PhaseOf(k)), a, D \cup {i}, k)
<1>1. CASE ~n.ok
  <2>1. Step(n, i, PhaseOf(k)) = n
    BY <1>1 DEF Step
  <2> QED BY <1>1, <2>1 DEF OnwardAll
<1>2. CASE n.ok
  <2>1. PICK b : b = n.a /\ Onward(a, b, D, k)
    BY <1>2 DEF OnwardAll
  <2>2. PICK r : r = Turned(b, i, PhaseOf(k))
    OBVIOUS
  <2>3. PICK m : m = Step(n, i, PhaseOf(k))
    OBVIOUS
  <2>4. PhaseOf(k) \in {"open", "close"}
    BY DEF PhaseOf
  <2>5. r.day = b.day
    <3>1. HasBooks(b)
      BY <2>1, AccountMade DEF Onward, Sound
    <3>2. CASE r = Register(b, i)
      BY <3>1, <3>2, RegisterNone
    <3>3. CASE r = Ex(FreedOf(b, HeldBy(b, Actions[i].s)), i)
      <4>1. PICK S \in SUBSET Orders : S = HeldBy(b, Actions[i].s)
        BY DEF HeldBy
      <4>2. PICK c : c = FreedOf(b, S) /\ HasBooks(c) /\ c.day = b.day
        BY <3>1, FreedAll
      <4>3. HasBooks(Ex(c, i)) /\ Ex(c, i).day = c.day
        BY <4>2, ExNone
      <4> QED BY <3>3, <4>1, <4>2, <4>3
    <3> QED BY <2>2, <3>2, <3>3 DEF Turned
  <2>6. StepAs(m, b, r, i, PhaseOf(k))
    <3>1. {"ok", "a", "ended"} \subseteq DOMAIN n
      BY DEF OnwardAll
    <3> QED BY <1>2, <2>1, <2>2, <2>3, <2>4, <2>5, <3>1, StepIs
  <2>7. k = 2 => m.ok
    BY <2>6 DEF StepAs, MayTurn, PhaseOf
  <2>8. m.ok => Onward(a, m.a, D \cup {i}, k)
    <3>1. SUFFICES ASSUME m.ok PROVE Onward(a, m.a, D \cup {i}, k)
      OBVIOUS
    <3>2. MayTurn(b, i, PhaseOf(k)) /\ m.a = IF Pays(i, b.day, PhaseOf(k)) THEN Pay(r, i) ELSE r
      BY <2>6, <3>1 DEF StepAs
    <3> QED BY <2>1, <2>2, <3>2, TurnedOnward
  <2>9. {"ok", "a", "ended"} \subseteq DOMAIN m
    <3>1. \A x, y : {"ok", "a", "ended"} \subseteq DOMAIN x => {"ok", "a", "ended"} \subseteq DOMAIN [x EXCEPT !.a = y]
      OBVIOUS
    <3>2. \A x : {"ok", "a", "ended"} \subseteq DOMAIN x => {"ok", "a", "ended"} \subseteq DOMAIN Registered(x, i, PhaseOf(k))
      BY <3>1 DEF Registered
    <3>3. \A x, S : {"ok", "a", "ended"} \subseteq DOMAIN x => {"ok", "a", "ended"} \subseteq DOMAIN Begins(x, i, S)
      BY <3>1 DEF Begins, Begun
    <3>4. \A x : {"ok", "a", "ended"} \subseteq DOMAIN x => {"ok", "a", "ended"} \subseteq DOMAIN AtEx(x, i, PhaseOf(k))
      BY <3>3 DEF AtEx
    <3>5. \A x : {"ok", "a", "ended"} \subseteq DOMAIN x => {"ok", "a", "ended"} \subseteq DOMAIN Paid(x, i, PhaseOf(k))
      BY <3>1 DEF Paid
    <3>6. {"ok", "a", "ended"} \subseteq DOMAIN n
      BY DEF OnwardAll
    <3> QED BY <1>2, <2>3, <3>2, <3>4, <3>5, <3>6 DEF Step
  <2> QED BY <2>3, <2>7, <2>8, <2>9 DEF OnwardAll
<1> QED
  BY <1>1, <1>2

\* All actions of a boundary, in their order: the account stays sound and every
\* right is up to date; the close of a session always succeeds, and only the
\* securities whose actions are due change their number of shares.
THEOREM AdvanceSound ==
  ASSUME NEW a, Sound(a), NEW k \in {1, 2}, Timely(a, k - 1)
  PROVE  LET n == Advance(a, PhaseOf(k))
         IN  /\ k = 2 => n.ok
             /\ n.ok => /\ Sound(n.a) /\ Timely(n.a, k) /\ n.a.day = a.day
                        /\ \A z \in Securities \ Struck(a.day, PhaseOf(k)) :
                             n.a.position[z].quantity = a.position[z].quantity
<1>1. PICK phase : phase = PhaseOf(k)
  OBVIOUS
<1> DEFINE C == CHOOSE F : Advances(F, a, phase)
           S == DOMAIN Actions
           base == [ok |-> TRUE, a |-> a, ended |-> {}]
<1>2. Advance(a, phase) = C[S]
  BY DEF Advance, Ascending, MapThenFoldSet, Advances
<1>3. \A F : Folds(F, Acting(phase), base, S) <=> Advances(F, a, phase)
  BY DEF Folds, Advances, Acting, OneMore, Taking
<1>4. \E F : Advances(F, a, phase)
  <2> HIDE DEF S, base
  <2>1. IsFiniteSet(S) /\ S \subseteq Int
    BY ActionsFinite DEF S
  <2> QED BY <1>3, <2>1, FoldExists, Chosen
<1>5. Advances(C, a, phase)
  BY <1>4
<1> HIDE DEF C
<1>6. \A s \in SUBSET S : C[s] = IF s = {} THEN base ELSE Step(C[s \ {Max(s)}], Max(s), phase)
  BY <1>5 DEF Advances
<1> DEFINE Bad == {s \in SUBSET S : ~ OnwardAll(C[s], a, s, k)}
<1>7. ASSUME Bad # {} PROVE FALSE
  <2>1. PICK m \in Bad : \A t \in Bad : t \subseteq m => t = m
    <3>1. Bad \subseteq SUBSET S /\ IsFiniteSet(S)
      BY ActionsFinite
    <3> HIDE DEF Bad, S
    <3> QED BY <1>7, <3>1, SmallestSet
  <2>2. OnwardAll(base, a, {}, k)
    BY DEF OnwardAll, Onward, Timely
  <2>3. m # {}
    BY <1>6, <2>2
  <2> DEFINE x == Max(m)
             t == m \ {x}
  <2>4. x \in m
    BY <2>3, ActionsFinite, GreatestNumber
  <2>5. t \in SUBSET S /\ t \notin Bad
    BY <2>1, <2>4
  <2>6. OnwardAll(C[t], a, t, k)
    BY <2>5
  <2>7. C[m] = Step(C[t], x, phase)
    BY <1>6, <2>3
  <2>8. x \in DOMAIN Actions /\ x \notin t /\ m = t \cup {x}
    BY <2>4
  <2> DEFINE n == C[t]
  <2> HIDE DEF x, t
  <2>9. OnwardAll(n, a, t, k) /\ C[m] = Step(n, x, PhaseOf(k))
    BY <1>1, <2>6, <2>7
  <2> HIDE DEF n
  <2>10. OnwardAll(Step(n, x, PhaseOf(k)), a, t \cup {x}, k)
    BY <2>8, <2>9, OnwardMore
  <2> QED
    BY <2>8, <2>9, <2>10
<1>8. PICK n : n = Advance(a, phase) /\ OnwardAll(n, a, S, k)
  BY <1>2, <1>7
<1> QED
  BY <1>1, <1>8 DEF OnwardAll, Onward, Timely

\* A session begins with what stood when the one before it ended.
LEMMA TimelyNext ==
  ASSUME NEW a, NEW b, NEW day \in Nat, a.day = day, b.day = day + 1, b.action = a.action, NEW k,
         Timely(a, k), k = 2 \/ (day = 0 /\ k = 1)
  PROVE  Timely(b, 0)
<1> SUFFICES ASSUME NEW i \in DOMAIN Actions PROVE Stands(b.action[i], i, b.day, 0)
  BY DEF Timely
<1>1. Stands(b.action[i], i, day, k)
  BY DEF Timely
<1>2. PICK r \in Nat \ {0}, e \in Nat : r = Actions[i].record /\ e = Actions[i].ex /\ r < e
  BY ActionTimes
<1>3. RecordedBy(i, day + 1, 0) <=> RecordedBy(i, day, k)
  BY <1>2 DEF RecordedBy
<1>4. BegunBy(i, day + 1, 0) <=> BegunBy(i, day, k)
  BY <1>2 DEF BegunBy
<1>5. PaidBy(i, day + 1, 0) <=> PaidBy(i, day, k)
  <2>1. CASE Actions[i].kind # "dividend"
    BY <2>1 DEF PaidBy
  <2>2. CASE Actions[i].kind = "dividend"
    <3>1. PICK p \in Nat : p = Actions[i].pay[1] /\ e <= p
      BY <1>2, <2>2, ActionTimes
    <3> QED BY <1>2, <2>2, <3>1 DEF PaidBy
  <2> QED BY <2>1, <2>2
<1> QED
  BY <1>1, <1>3, <1>4, <1>5 DEF Stands

=============================================================================
