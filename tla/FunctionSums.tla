---------------------------- MODULE FunctionSums ----------------------------
(***************************************************************************)
(* Sums of integers over finite sets: SumFunctionOnSet computes one number *)
(* whatever the order in which it adds, and of natural numbers a larger    *)
(* set has no smaller sum.  Inductions are by a smallest counterexample.   *)
(***************************************************************************)
EXTENDS Integers, Functions, FiniteSetTheorems, WellFoundedInduction, TLAPS

-----------------------------------------------------------------------------
(* Smallest elements.                                                      *)

\* Among natural numbers one is the least.
LEMMA LeastNumber ==
  ASSUME NEW N, N \subseteq Nat, N # {}
  PROVE  \E n \in N : \A k \in N : n <= k
<1>1. PICK n \in N : \A k \in N : ~ (<<k, n>> \in OpToRel(<, Nat))
  BY WFMin, NatLessThanWellFounded
<1>2. \A k \in N : ~ (k < n)
  BY <1>1, Zenon DEF OpToRel
<1> QED
  BY <1>2

\* Among parts of a finite set there is one of which no other is a part.
LEMMA SmallestSet ==
  ASSUME NEW S, IsFiniteSet(S), NEW B, B \subseteq SUBSET S, B # {}
  PROVE  \E m \in B : \A t \in B : t \subseteq m => t = m
<1> DEFINE Ns == {Cardinality(t) : t \in B}
<1>1. \A t \in B : IsFiniteSet(t) /\ Cardinality(t) \in Nat
  BY FS_Subset, FS_CardinalityType
<1>2. Ns \subseteq Nat /\ Ns # {}
  BY <1>1
<1>3. PICK n \in Ns : \A k \in Ns : n <= k
  <2> HIDE DEF Ns
  <2> QED BY <1>2, LeastNumber
<1>4. PICK m \in B : n = Cardinality(m)
  BY <1>3
<1>5. ASSUME NEW t \in B, t \subseteq m, t # m PROVE FALSE
  <2>1. Cardinality(t) <= Cardinality(m) /\ Cardinality(t) # Cardinality(m)
    BY <1>1, <1>5, FS_Subset
  <2>2. Cardinality(m) <= Cardinality(t)
    BY <1>3, <1>4
  <2> QED
    BY <1>1, <2>1, <2>2
<1> QED
  BY <1>5

-----------------------------------------------------------------------------
(* The recursion behind the sum.                                           *)

One(s) == CHOOSE x \in s : TRUE

\* F adds up g over the parts of S, taking one element at a time.
Adds(F, g, S) ==
  F = [s \in SUBSET S |-> IF s = {} THEN 0 ELSE g[One(s)] + F[s \ {One(s)}]]

\* The same for the parts of up to n elements.
AddsUpTo(F, g, S, n) ==
  /\ F \in [SUBSET S -> Int]
  /\ \A s \in SUBSET S : Cardinality(s) <= n =>
       F[s] = IF s = {} THEN 0 ELSE g[One(s)] + F[s \ {One(s)}]

LEMMA SumIsChosen ==
  ASSUME NEW g, NEW S
  PROVE  SumFunctionOnSet(g, S) = (CHOOSE F : Adds(F, g, S))[S]
  BY DEF SumFunctionOnSet, FoldFunctionOnSet, MapThenFoldSet, Adds, One

\* Without one of its elements a finite set is smaller by one.
LEMMA WithoutOne ==
  ASSUME NEW S, IsFiniteSet(S), NEW s \in SUBSET S, s # {}
  PROVE  /\ One(s) \in s /\ s \ {One(s)} \in SUBSET S
         /\ Cardinality(s) \in Nat
         /\ Cardinality(s \ {One(s)}) = Cardinality(s) - 1
<1>1. One(s) \in s
  BY DEF One
<1>2. IsFiniteSet(s)
  BY FS_Subset
<1> QED
  BY <1>1, <1>2, FS_RemoveElement, FS_CardinalityType

\* There is such a function for every size.
LEMMA AddsToAnySize ==
  ASSUME NEW S, IsFiniteSet(S), NEW g \in [S -> Int], NEW n \in Nat
  PROVE  \E F : AddsUpTo(F, g, S, n)
<1> DEFINE Bad == {k \in Nat : ~ \E F : AddsUpTo(F, g, S, k)}
<1> SUFFICES ASSUME Bad # {} PROVE FALSE
  OBVIOUS
<1>1. PICK k \in Bad : \A j \in Bad : k <= j
  <2>1. Bad \subseteq Nat
    OBVIOUS
  <2> HIDE DEF Bad
  <2> QED BY <2>1, LeastNumber
<1>2. k # 0
  <2> DEFINE F == [s \in SUBSET S |-> 0]
  <2>1. \A s \in SUBSET S : Cardinality(s) <= 0 => s = {}
    BY WithoutOne, FS_CardinalityType, FS_Subset, FS_EmptySet
  <2>2. AddsUpTo(F, g, S, 0)
    BY <2>1 DEF AddsUpTo
  <2> HIDE DEF F
  <2> QED BY <2>2
<1>3. PICK F : AddsUpTo(F, g, S, k - 1)
  <2>1. k - 1 \in Nat /\ k - 1 \notin Bad
    BY <1>1, <1>2
  <2> QED BY <2>1
<1> DEFINE G == [s \in SUBSET S |-> IF s = {} THEN 0 ELSE g[One(s)] + F[s \ {One(s)}]]
<1>4. G \in [SUBSET S -> Int]
  <2>1. \A s \in SUBSET S : s # {} => g[One(s)] \in Int /\ F[s \ {One(s)}] \in Int
    BY <1>3, WithoutOne DEF AddsUpTo
  <2> QED BY <2>1
<1>5. ASSUME NEW s \in SUBSET S, Cardinality(s) <= k, s # {}
      PROVE  G[s] = g[One(s)] + G[s \ {One(s)}]
  <2> DEFINE t == s \ {One(s)}
  <2>1. t \in SUBSET S /\ Cardinality(t) <= k - 1
    BY <1>5, WithoutOne
  <2>2. F[t] = IF t = {} THEN 0 ELSE g[One(t)] + F[t \ {One(t)}]
    <3> HIDE DEF t
    <3> QED BY <1>3, <2>1 DEF AddsUpTo
  <2>3. F[t] = G[t]
    <3> HIDE DEF t
    <3> QED BY <2>1, <2>2
  <2> QED
    BY <1>5, <2>3
<1>6. AddsUpTo(G, g, S, k)
  <2>1. G[{}] = 0
    OBVIOUS
  <2> HIDE DEF G
  <2> QED BY <1>4, <1>5, <2>1 DEF AddsUpTo
<1> HIDE DEF G
<1> QED
  BY <1>1, <1>6

\* So the recursion defines a function of integers.
LEMMA AddsExists ==
  ASSUME NEW S, IsFiniteSet(S), NEW g \in [S -> Int]
  PROVE  \E F \in [SUBSET S -> Int] : Adds(F, g, S)
<1>1. Cardinality(S) \in Nat
  BY FS_CardinalityType
<1>2. PICK F : AddsUpTo(F, g, S, Cardinality(S))
  BY <1>1, AddsToAnySize
<1>3. \A s \in SUBSET S : Cardinality(s) <= Cardinality(S)
  BY FS_Subset
<1> QED
  BY <1>2, <1>3 DEF AddsUpTo, Adds

\* What it computes for a set depends on the values at its elements only.
LEMMA AddsAlike ==
  ASSUME NEW S, IsFiniteSet(S), NEW g, NEW F, Adds(F, g, S),
         NEW T \in SUBSET S, NEW h, NEW G, Adds(G, h, T),
         \A x \in T : h[x] = g[x]
  PROVE  \A s \in SUBSET T : G[s] = F[s]
<1> DEFINE Bad == {s \in SUBSET T : G[s] # F[s]}
<1> SUFFICES ASSUME Bad # {} PROVE FALSE
  OBVIOUS
<1>1. IsFiniteSet(T)
  BY FS_Subset
<1>2. PICK m \in Bad : \A t \in Bad : t \subseteq m => t = m
  <2>1. Bad \subseteq SUBSET T
    OBVIOUS
  <2> HIDE DEF Bad
  <2> QED BY <1>1, <2>1, SmallestSet
<1>3. \A s \in SUBSET T : G[s] = IF s = {} THEN 0 ELSE h[One(s)] + G[s \ {One(s)}]
  BY DEF Adds
<1>4. \A s \in SUBSET T : F[s] = IF s = {} THEN 0 ELSE g[One(s)] + F[s \ {One(s)}]
  <2>1. \A s \in SUBSET S : F[s] = IF s = {} THEN 0 ELSE g[One(s)] + F[s \ {One(s)}]
    BY DEF Adds
  <2> QED BY <2>1
<1>5. m \in SUBSET T /\ m # {} /\ G[m] # F[m]
  BY <1>3, <1>4
<1>6. One(m) \in m /\ m \ {One(m)} \in SUBSET T
  BY <1>1, <1>5, WithoutOne
<1>7. G[m \ {One(m)}] = F[m \ {One(m)}]
  BY <1>2, <1>6
<1> QED
  BY <1>3, <1>4, <1>5, <1>6, <1>7

AnyOrder(F, g, S) == \A s \in SUBSET S : \A x \in s : F[s] = g[x] + F[s \ {x}]

\* Any element may be taken first.
LEMMA AddsInAnyOrder ==
  ASSUME NEW S, IsFiniteSet(S), NEW g \in [S -> Int],
         NEW F \in [SUBSET S -> Int], Adds(F, g, S)
  PROVE  AnyOrder(F, g, S)
<1> DEFINE Bad == {t \in SUBSET S : \E y \in t : F[t] # g[y] + F[t \ {y}]}
<1> SUFFICES ASSUME Bad # {} PROVE FALSE
  BY DEF AnyOrder
<1>1. PICK m \in Bad : \A t \in Bad : t \subseteq m => t = m
  <2>1. Bad \subseteq SUBSET S
    OBVIOUS
  <2> HIDE DEF Bad
  <2> QED BY <2>1, SmallestSet
<1>2. PICK y \in m : F[m] # g[y] + F[m \ {y}]
  OBVIOUS
<1> DEFINE o == One(m)
<1>3. \A t \in SUBSET S : t # {} => F[t] = g[One(t)] + F[t \ {One(t)}]
  BY DEF Adds
<1>4. m \in SUBSET S /\ m # {} /\ o \in m /\ o # y
  BY <1>2, <1>3, WithoutOne
<1>5. F[m] = g[o] + F[m \ {o}]
  BY <1>3, <1>4
<1> HIDE DEF o
<1>6. F[m \ {o}] = g[y] + F[(m \ {o}) \ {y}]
  <2>1. m \ {o} \notin Bad /\ m \ {o} \in SUBSET S /\ y \in m \ {o}
    BY <1>1, <1>2, <1>4
  <2> QED BY <2>1
<1>7. F[m \ {y}] = g[o] + F[(m \ {y}) \ {o}]
  <2>1. m \ {y} \notin Bad /\ m \ {y} \in SUBSET S /\ o \in m \ {y}
    BY <1>1, <1>2, <1>4
  <2> QED BY <2>1
<1>8. (m \ {o}) \ {y} = (m \ {y}) \ {o} /\ (m \ {o}) \ {y} \in SUBSET S
  BY <1>4
<1>9. g[o] \in Int /\ g[y] \in Int /\ F[(m \ {o}) \ {y}] \in Int
  BY <1>2, <1>4, <1>8
<1> DEFINE a == F[m]
           b == F[m \ {o}]
           c == F[m \ {y}]
           d == F[(m \ {o}) \ {y}]
           e == F[(m \ {y}) \ {o}]
<1>10. a = g[o] + b /\ b = g[y] + d /\ c = g[o] + e /\ d = e /\ a # g[y] + c
  <2>1. d = e
    BY <1>8
  <2> QED BY <1>2, <1>5, <1>6, <1>7, <2>1
<1>11. g[o] \in Int /\ g[y] \in Int /\ d \in Int
  BY <1>9
<1> HIDE DEF a, b, c, d, e, Bad
<1> QED
  BY <1>10, <1>11

\* A part has no larger sum.
LEMMA AddsGrows ==
  ASSUME NEW S, IsFiniteSet(S), NEW g \in [S -> Nat],
         NEW F \in [SUBSET S -> Int], Adds(F, g, S), NEW T \in SUBSET S
  PROVE  F[T] <= F[S]
<1>0. AnyOrder(F, g, S)
  BY AddsInAnyOrder
<1> DEFINE Bad == {s \in SUBSET S : T \subseteq s /\ ~ (F[T] <= F[s])}
<1> SUFFICES ASSUME Bad # {} PROVE FALSE
  <2>1. S \notin Bad
    OBVIOUS
  <2> QED BY <2>1
<1>1. PICK m \in Bad : \A t \in Bad : t \subseteq m => t = m
  <2>1. Bad \subseteq SUBSET S
    OBVIOUS
  <2> HIDE DEF Bad
  <2> QED BY <2>1, SmallestSet
<1>2. m \in SUBSET S /\ T \subseteq m /\ ~ (F[T] <= F[m])
  OBVIOUS
<1>3. m # T
  BY <1>2
<1>4. PICK x \in m : x \notin T
  BY <1>2, <1>3
<1>5. F[m] = g[x] + F[m \ {x}]
  BY <1>0, <1>2 DEF AnyOrder
<1>6. m \ {x} \in SUBSET S /\ T \subseteq m \ {x} /\ m \ {x} # m
  BY <1>2, <1>4
<1>7. F[T] <= F[m \ {x}]
  BY <1>1, <1>6
<1>8. F[T] \in Int /\ F[m] \in Int /\ F[m \ {x}] \in Int /\ g[x] \in Nat
  BY <1>2, <1>6
<1> QED
  BY <1>2, <1>5, <1>7, <1>8

-----------------------------------------------------------------------------
(* The sums.                                                               *)

\* The operator of the community modules is this sum.
LEMMA SumIs ==
  ASSUME NEW S, IsFiniteSet(S), NEW g \in [S -> Int]
  PROVE  \E F \in [SUBSET S -> Int] : Adds(F, g, S) /\ SumFunctionOnSet(g, S) = F[S]
<1> DEFINE C == CHOOSE F : Adds(F, g, S)
<1>1. PICK F \in [SUBSET S -> Int] : Adds(F, g, S)
  BY AddsExists
<1>2. Adds(C, g, S)
  BY <1>1
<1>3. SumFunctionOnSet(g, S) = C[S]
  BY SumIsChosen
<1> HIDE DEF C
<1>4. S \in SUBSET S /\ \A x \in S : g[x] = g[x]
  OBVIOUS
<1>5. C[S] = F[S]
  BY <1>1, <1>2, <1>4, AddsAlike
<1> QED
  BY <1>1, <1>3, <1>5

\* The sum of a part is no larger, and is the same if it is the whole.
THEOREM SumGrows ==
  ASSUME NEW S, IsFiniteSet(S), NEW g \in [S -> Nat],
         NEW T \in SUBSET S, NEW h \in [T -> Nat], \A x \in T : h[x] = g[x]
  PROVE  /\ SumFunctionOnSet(g, S) \in Nat
         /\ SumFunctionOnSet(h, T) \in Nat
         /\ SumFunctionOnSet(h, T) <= SumFunctionOnSet(g, S)
<1>1. IsFiniteSet(T) /\ g \in [S -> Int] /\ h \in [T -> Int]
  BY FS_Subset
<1>2. PICK F \in [SUBSET S -> Int] : Adds(F, g, S) /\ SumFunctionOnSet(g, S) = F[S]
  BY <1>1, SumIs
<1>3. PICK G \in [SUBSET T -> Int] : Adds(G, h, T) /\ SumFunctionOnSet(h, T) = G[T]
  BY <1>1, SumIs
<1>4. G[T] = F[T]
  BY <1>2, <1>3, AddsAlike
<1>5. F[T] <= F[S]
  BY <1>2, AddsGrows
<1>6. F[{}] = 0 /\ G[{}] = 0
  BY <1>2, <1>3 DEF Adds
<1>7. F[{}] <= F[S] /\ G[{}] <= G[T]
  BY <1>1, <1>2, <1>3, AddsGrows
<1> QED
  BY <1>2, <1>3, <1>4, <1>5, <1>6, <1>7

-----------------------------------------------------------------------------
(* What sums obey.                                                         *)

\* What holds of the empty set, and of a larger set with one element more,
\* holds of a finite set: B are the sets of which it holds.
LEMMA SetInduction ==
  ASSUME NEW S, IsFiniteSet(S), NEW B, {} \in B,
         \A t \in SUBSET S : t \in B => \A x \in S \ t : t \cup {x} \in B
  PROVE  S \in B
<1> DEFINE Bad == {t \in SUBSET S : t \notin B}
<1> SUFFICES ASSUME Bad # {} PROVE FALSE
  OBVIOUS
<1>1. PICK m \in Bad : \A t \in Bad : t \subseteq m => t = m
  <2>1. Bad \subseteq SUBSET S
    OBVIOUS
  <2> HIDE DEF Bad
  <2> QED BY <2>1, SmallestSet
<1>2. PICK x \in m : TRUE
  OBVIOUS
<1>3. m \ {x} \in SUBSET S /\ m \ {x} \in B
  BY <1>1, <1>2
<1>4. x \in S \ (m \ {x}) /\ (m \ {x}) \cup {x} = m
  BY <1>2
<1> QED
  BY <1>3, <1>4

\* A sum is a number, of nothing zero.
LEMMA SumInteger ==
  ASSUME NEW S, IsFiniteSet(S), NEW g \in [S -> Int]
  PROVE  /\ SumFunction(g) \in Int
         /\ S = {} => SumFunction(g) = 0
<1>1. PICK F \in [SUBSET S -> Int] : Adds(F, g, S) /\ SumFunctionOnSet(g, S) = F[S]
  BY SumIs
<1>2. S = {} => F[S] = 0
  BY <1>1 DEF Adds
<1> QED
  BY <1>1, <1>2 DEF SumFunction

LEMMA SumNatural ==
  ASSUME NEW S, IsFiniteSet(S), NEW g \in [S -> Nat]
  PROVE  SumFunction(g) \in Nat
<1>1. S \in SUBSET S /\ \A x \in S : g[x] = g[x]
  OBVIOUS
<1>2. SumFunctionOnSet(g, S) \in Nat
  BY <1>1, SumGrows
<1> QED
  BY <1>2 DEF SumFunction

\* A sum is one of its terms and the sum of the others.
LEMMA SumWithout ==
  ASSUME NEW S, IsFiniteSet(S), NEW g \in [S -> Int], NEW x \in S
  PROVE  /\ SumFunction(Restrict(g, S \ {x})) \in Int
         /\ SumFunction(g) = g[x] + SumFunction(Restrict(g, S \ {x}))
<1> DEFINE T == S \ {x}
           h == Restrict(g, T)
<1>1. T \in SUBSET S /\ IsFiniteSet(T) /\ h \in [T -> Int] /\ \A y \in T : h[y] = g[y]
  BY FS_Subset DEF Restrict
<1>2. PICK F \in [SUBSET S -> Int] : Adds(F, g, S) /\ SumFunctionOnSet(g, S) = F[S]
  BY SumIs
<1> HIDE DEF T, h
<1>3. PICK G \in [SUBSET T -> Int] : Adds(G, h, T) /\ SumFunctionOnSet(h, T) = G[T]
  BY <1>1, SumIs
<1>4. G[T] = F[T]
  BY <1>1, <1>2, <1>3, AddsAlike
<1>5. AnyOrder(F, g, S)
  BY <1>2, AddsInAnyOrder
<1>6. F[S] = g[x] + F[T]
  BY <1>5 DEF AnyOrder, T
<1>7. F[S] \in Int /\ F[T] \in Int
  BY <1>1, <1>2
<1>8. DOMAIN g = S /\ DOMAIN h = T
  BY <1>1
<1>9. SumFunction(g) = F[S] /\ SumFunction(h) = F[T]
  BY <1>2, <1>3, <1>4, <1>8 DEF SumFunction
<1> QED
  BY <1>6, <1>7, <1>9 DEF h, T

\* One term more.
LEMMA SumWith ==
  ASSUME NEW S, IsFiniteSet(S), NEW g \in [S -> Int], NEW t \in SUBSET S, NEW x \in S \ t
  PROVE  /\ SumFunction(Restrict(g, t)) \in Int
         /\ SumFunction(Restrict(g, t \cup {x})) = g[x] + SumFunction(Restrict(g, t))
<1> DEFINE u == t \cup {x}
           h == Restrict(g, u)
<1>1. IsFiniteSet(u) /\ h \in [u -> Int] /\ x \in u /\ h[x] = g[x]
  BY FS_Subset DEF Restrict
<1>2. Restrict(h, u \ {x}) = Restrict(g, t)
  BY DEF Restrict
<1> HIDE DEF u, h
<1>3. /\ SumFunction(Restrict(h, u \ {x})) \in Int
      /\ SumFunction(h) = h[x] + SumFunction(Restrict(h, u \ {x}))
  BY <1>1, SumWithout
<1> QED
  BY <1>1, <1>2, <1>3 DEF u, h

Additive(g, S) ==
  \A t \in SUBSET S : \A x \in S \ t :
    /\ SumFunction(Restrict(g, t)) \in Int
    /\ SumFunction(Restrict(g, t \cup {x})) = g[x] + SumFunction(Restrict(g, t))
LEMMA SumAdditive ==
  ASSUME NEW S, IsFiniteSet(S), NEW g \in [S -> Int]
  PROVE  Additive(g, S)
  BY SumWith DEF Additive

LEMMA SumNone ==
  ASSUME NEW g
  PROVE  SumFunction(Restrict(g, {})) = 0
<1> DEFINE h == Restrict(g, {})
           E == {}
<1>1. h \in [E -> Int] /\ IsFiniteSet(E) /\ E = {}
  BY FS_EmptySet DEF Restrict
<1> HIDE DEF h, E
<1>2. SumFunction(h) = 0
  BY <1>1, SumInteger
<1> QED
  BY <1>2 DEF h

LEMMA RestrictWhole ==
  ASSUME NEW S, NEW T, NEW g \in [S -> T]
  PROVE  Restrict(g, S) = g
  BY DEF Restrict

\* Terms that are equal but for one.
LEMMA SumDiffers ==
  ASSUME NEW S, IsFiniteSet(S), NEW g \in [S -> Int], NEW h \in [S -> Int], NEW x \in S,
         \A y \in S \ {x} : h[y] = g[y]
  PROVE  SumFunction(h) - h[x] = SumFunction(g) - g[x]
<1>1. Restrict(h, S \ {x}) = Restrict(g, S \ {x})
  BY DEF Restrict
<1>2. SumFunction(Restrict(g, S \ {x})) \in Int /\ SumFunction(g) = g[x] + SumFunction(Restrict(g, S \ {x}))
  BY SumWithout
<1>3. SumFunction(h) = h[x] + SumFunction(Restrict(h, S \ {x}))
  BY SumWithout
<1> QED
  BY <1>1, <1>2, <1>3

\* The same fact with its conditions as one predicate of the four values.
ChangedAt(S, g, h, x) == /\ IsFiniteSet(S) /\ x \in S
                         /\ g \in [S -> Int] /\ h \in [S -> Int]
                         /\ \A y \in S \ {x} : h[y] = g[y]
LEMMA SumChanged ==
  ASSUME NEW S, NEW g, NEW h, NEW x, ChangedAt(S, g, h, x)
  PROVE  SumFunction(h) - h[x] = SumFunction(g) - g[x]
<1>1. /\ IsFiniteSet(S) /\ x \in S /\ g \in [S -> Int] /\ h \in [S -> Int]
      /\ \A y \in S \ {x} : h[y] = g[y]
  BY DEF ChangedAt
<1> QED BY <1>1, SumDiffers, ZenonT(60)

\* Sums of sums, term by term.
LEMMA SumOfSums ==
  ASSUME NEW S, IsFiniteSet(S), NEW g \in [S -> Int], NEW h \in [S -> Int],
         NEW f \in [S -> Int], \A x \in S : f[x] = g[x] + h[x]
  PROVE  SumFunction(f) = SumFunction(g) + SumFunction(h)
<1> DEFINE Fine(t) == SumFunction(Restrict(f, t)) = SumFunction(Restrict(g, t)) + SumFunction(Restrict(h, t))
           B == {t \in SUBSET S : Fine(t)}
<1>0. Additive(f, S) /\ Additive(g, S) /\ Additive(h, S)
  BY SumAdditive
<1>1. {} \in B
  BY SumNone
<1>2. ASSUME NEW t \in SUBSET S, t \in B, NEW x \in S \ t PROVE t \cup {x} \in B
  <2> DEFINE F == SumFunction(Restrict(f, t))
             G == SumFunction(Restrict(g, t))
             H == SumFunction(Restrict(h, t))
             u == t \cup {x}
  <2>1. F \in Int /\ SumFunction(Restrict(f, u)) = f[x] + F
    BY <1>0 DEF Additive
  <2>2. G \in Int /\ SumFunction(Restrict(g, u)) = g[x] + G
    BY <1>0 DEF Additive
  <2>3. H \in Int /\ SumFunction(Restrict(h, u)) = h[x] + H
    BY <1>0 DEF Additive
  <2>4. F = G + H
    BY <1>2
  <2>5. f[x] = g[x] + h[x] /\ g[x] \in Int /\ h[x] \in Int
    OBVIOUS
  <2> HIDE DEF F, G, H
  <2>6. Fine(u)
    BY <2>1, <2>2, <2>3, <2>4, <2>5
  <2> QED BY <2>6
<1> HIDE DEF B
<1>3. S \in B
  BY <1>1, <1>2, SetInduction
<1>4. Fine(S)
  BY <1>3 DEF B
<1> QED
  BY <1>4, RestrictWhole

\* Only the terms of T differ from zero.
LEMMA SumInside ==
  ASSUME NEW S, IsFiniteSet(S), NEW g \in [S -> Int], NEW T \in SUBSET S, \A x \in S \ T : g[x] = 0
  PROVE  SumFunction(g) = SumFunction(Restrict(g, T))
<1> DEFINE Fine(t) == SumFunction(Restrict(g, t)) = SumFunction(Restrict(g, t \cap T))
           B == {t \in SUBSET S : Fine(t)}
<1>0. Additive(g, S)
  BY SumAdditive
<1>1. {} \in B
  <2>1. {} \cap T = {}
    OBVIOUS
  <2> QED BY <2>1
<1>2. ASSUME NEW t \in SUBSET S, t \in B, NEW x \in S \ t PROVE t \cup {x} \in B
  <2> DEFINE u == t \cup {x}
             w == t \cap T
  <2>1. SumFunction(Restrict(g, t)) \in Int /\ SumFunction(Restrict(g, u)) = g[x] + SumFunction(Restrict(g, t))
    BY <1>0 DEF Additive
  <2>2. SumFunction(Restrict(g, t)) = SumFunction(Restrict(g, w))
    BY <1>2
  <2>3. CASE x \in T
    <3>1. u \cap T = w \cup {x} /\ w \in SUBSET S /\ x \in S \ w
      BY <2>3
    <3> HIDE DEF u, w
    <3>2. SumFunction(Restrict(g, w \cup {x})) = g[x] + SumFunction(Restrict(g, w))
      BY <1>0, <3>1 DEF Additive
    <3>3. Fine(u)
      BY <2>1, <2>2, <3>1, <3>2
    <3> QED BY <3>3 DEF u
  <2>4. CASE x \notin T
    <3>1. u \cap T = w /\ g[x] = 0
      BY <2>4
    <3>2. SumFunction(Restrict(g, u)) = SumFunction(Restrict(g, t))
      BY <2>1, <3>1
    <3> HIDE DEF u, w
    <3>3. Fine(u)
      BY <2>2, <3>1, <3>2
    <3> QED BY <3>3 DEF u
  <2> QED BY <2>3, <2>4
<1> HIDE DEF B
<1>3. S \in B
  BY <1>1, <1>2, SetInduction
<1>4. Fine(S) /\ S \cap T = T
  BY <1>3 DEF B
<1> QED
  BY <1>4, RestrictWhole

\* A sum in two parts.
LEMMA SumInParts ==
  ASSUME NEW S, IsFiniteSet(S), NEW g \in [S -> Int], NEW T \in SUBSET S
  PROVE  SumFunction(g) = SumFunction(Restrict(g, T)) + SumFunction(Restrict(g, S \ T))
<1> DEFINE U == S \ T
           p == [x \in S |-> IF x \in T THEN g[x] ELSE 0]
           q == [x \in S |-> IF x \in T THEN 0 ELSE g[x]]
<1>1. /\ p \in [S -> Int] /\ q \in [S -> Int] /\ U \in SUBSET S
      /\ \A x \in S : g[x] = p[x] + q[x]
      /\ \A x \in S \ T : p[x] = 0
      /\ \A x \in S \ U : q[x] = 0
  OBVIOUS
<1>2. Restrict(p, T) = Restrict(g, T) /\ Restrict(q, U) = Restrict(g, U)
  BY DEF Restrict
<1> HIDE DEF p, q, U
<1>3. SumFunction(g) = SumFunction(p) + SumFunction(q)
  BY <1>1, SumOfSums
<1>4. SumFunction(p) = SumFunction(Restrict(p, T)) /\ SumFunction(q) = SumFunction(Restrict(q, U))
  BY <1>1, SumInside
<1> QED
  BY <1>2, <1>3, <1>4 DEF U

\* Terms may be given other names.
Renames(f, S, T) ==
  /\ f \in [S -> T]
  /\ \A x, y \in S : f[x] = f[y] => x = y
  /\ \A z \in T : \E x \in S : f[x] = z
Renamed(h, g, f, S) == \A x \in S : h[x] = g[f[x]]
LEMMA SumRenamed ==
  ASSUME NEW S, IsFiniteSet(S), NEW T, IsFiniteSet(T), NEW f, Renames(f, S, T),
         NEW g \in [T -> Int], NEW h \in [S -> Int], Renamed(h, g, f, S)
  PROVE  SumFunction(h) = SumFunction(g)
<1> DEFINE Of(t) == {f[x] : x \in t}
           Fine(t) == SumFunction(Restrict(h, t)) = SumFunction(Restrict(g, Of(t)))
           B == {t \in SUBSET S : Fine(t)}
<1>8. /\ f \in [S -> T]
      /\ \A x, y \in S : f[x] = f[y] => x = y
      /\ \A z \in T : \E x \in S : f[x] = z
  BY DEF Renames
<1>0. Additive(h, S) /\ Additive(g, T)
  BY SumAdditive
<1>1. {} \in B
  <2>1. Of({}) = {}
    OBVIOUS
  <2> HIDE DEF Of
  <2> QED BY <2>1, SumNone
<1>2. ASSUME NEW t \in SUBSET S, t \in B, NEW x \in S \ t PROVE t \cup {x} \in B
  <2> DEFINE u == t \cup {x}
             w == Of(t)
             z == f[x]
  <2>1. Of(u) = w \cup {z} /\ w \in SUBSET T /\ z \in T \ w
    BY <1>8
  <2>2. SumFunction(Restrict(h, t)) \in Int /\ SumFunction(Restrict(h, u)) = h[x] + SumFunction(Restrict(h, t))
    BY <1>0 DEF Additive
  <2>3. SumFunction(Restrict(h, t)) = SumFunction(Restrict(g, w))
    BY <1>2
  <2>4. h[x] = g[z]
    BY DEF Renamed
  <2> HIDE DEF w, z, Of
  <2>5. SumFunction(Restrict(g, w \cup {z})) = g[z] + SumFunction(Restrict(g, w))
    BY <1>0, <2>1 DEF Additive
  <2>6. SumFunction(Restrict(h, u)) = SumFunction(Restrict(g, Of(u)))
    BY <2>1, <2>2, <2>3, <2>4, <2>5
  <2>7. Fine(u)
    BY <2>6
  <2> QED BY <2>7
<1>3. Of(S) = T
  BY <1>8
<1> HIDE DEF B
<1>4. S \in B
  BY <1>1, <1>2, SetInduction
<1>5. Fine(S)
  BY <1>4 DEF B
<1> HIDE DEF Of
<1> QED
  BY <1>3, <1>5, RestrictWhole

\* A factor of all terms is one of the sum.
LEMMA SumTimes ==
  ASSUME NEW S, IsFiniteSet(S), NEW g \in [S -> Int], NEW h \in [S -> Int],
         NEW m \in Int, NEW n \in Int, \A x \in S : m * h[x] = n * g[x]
  PROVE  m * SumFunction(h) = n * SumFunction(g)
<1> DEFINE Fine(t) == m * SumFunction(Restrict(h, t)) = n * SumFunction(Restrict(g, t))
           B == {t \in SUBSET S : Fine(t)}
<1>0. Additive(g, S) /\ Additive(h, S)
  BY SumAdditive
<1>1. {} \in B
  BY SumNone
<1>2. ASSUME NEW t \in SUBSET S, t \in B, NEW x \in S \ t PROVE t \cup {x} \in B
  <2> DEFINE G == SumFunction(Restrict(g, t))
             H == SumFunction(Restrict(h, t))
             u == t \cup {x}
  <2>1. G \in Int /\ SumFunction(Restrict(g, u)) = g[x] + G
    BY <1>0 DEF Additive
  <2>2. H \in Int /\ SumFunction(Restrict(h, u)) = h[x] + H
    BY <1>0 DEF Additive
  <2>3. m * H = n * G /\ m * h[x] = n * g[x] /\ g[x] \in Int /\ h[x] \in Int
    BY <1>2
  <2> HIDE DEF G, H
  <2>4. m * (h[x] + H) = m * h[x] + m * H /\ n * (g[x] + G) = n * g[x] + n * G
    BY <2>1, <2>2, <2>3
  <2>5. Fine(u)
    BY <2>1, <2>2, <2>3, <2>4
  <2> QED BY <2>5
<1> HIDE DEF B
<1>3. S \in B
  BY <1>1, <1>2, SetInduction
<1>4. Fine(S)
  BY <1>3 DEF B
<1> QED
  BY <1>4, RestrictWhole

\* No term of natural numbers is larger than their sum.
LEMMA TermInSum ==
  ASSUME NEW S, IsFiniteSet(S), NEW g \in [S -> Nat], NEW x \in S
  PROVE  g[x] <= SumFunction(g)
<1> DEFINE T == S \ {x}
           h == Restrict(g, T)
<1>1. IsFiniteSet(T) /\ h \in [T -> Nat] /\ g \in [S -> Int]
  BY FS_Subset DEF Restrict
<1>2. SumFunction(h) \in Nat
  <2> HIDE DEF T, h
  <2> QED BY <1>1, SumNatural
<1>3. SumFunction(g) = g[x] + SumFunction(h)
  BY <1>1, SumWithout
<1> HIDE DEF h
<1>4. g[x] \in Nat
  OBVIOUS
<1> QED
  BY <1>2, <1>3, <1>4

\* Larger terms have a larger sum.
LEMMA SumOfLarger ==
  ASSUME NEW S, IsFiniteSet(S), NEW g \in [S -> Int], NEW h \in [S -> Int], \A x \in S : g[x] <= h[x]
  PROVE  SumFunction(g) <= SumFunction(h)
<1> DEFINE d == [x \in S |-> h[x] - g[x]]
<1>1. d \in [S -> Nat] /\ d \in [S -> Int] /\ \A x \in S : h[x] = g[x] + d[x]
  OBVIOUS
<1> HIDE DEF d
<1>2. SumFunction(h) = SumFunction(g) + SumFunction(d)
  BY <1>1, SumOfSums
<1>3. SumFunction(d) \in Nat /\ SumFunction(g) \in Int
  BY <1>1, SumNatural, SumInteger
<1> QED
  BY <1>2, <1>3
=============================================================================
