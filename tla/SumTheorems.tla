----------------------------- MODULE SumTheorems -----------------------------
(***************************************************************************)
(* Sums over finite sets, as the escrows' invariants write them:            *)
(* FoldFunction(+, 0, f).  The community modules define the fold by a        *)
(* recursive function that picks the elements of a set one by one; what is   *)
(* needed of it is that the sum follows one summand, whatever the order.     *)
(*                                                                           *)
(* The induction is on a smallest counterexample: the subsets of a finite    *)
(* set are well founded under inclusion.                                     *)
(***************************************************************************)
EXTENDS Integers, FiniteSets, Functions, FiniteSetTheorems, WellFoundedInduction, TLAPS

Pick(s) == CHOOSE x \in s : TRUE

\* IsSum(F, f, D): F tells the sum of f over every set of D.
IsSum(F, f, D) ==
    F = [s \in D |-> IF s = {} THEN 0 ELSE f[Pick(s)] + F[s \ {Pick(s)}]]
Sum(f, D) == CHOOSE F : IsSum(F, f, SUBSET D)

\* What FoldFunction computes.
LEMMA FoldIsSum ==
    ASSUME NEW f
    PROVE  FoldFunction(+, 0, f) = Sum(f, DOMAIN f)[DOMAIN f]
BY DEF FoldFunction, FoldFunctionOnSet, MapThenFoldSet, Sum, IsSum, Pick

\* A set of subsets of a finite set has a member none of whose proper subsets
\* is a member.
LEMMA SmallestSet ==
    ASSUME NEW D, IsFiniteSet(D), NEW U \in SUBSET SUBSET D, U # {}
    PROVE  \E s \in U : \A r \in U : r \subseteq s => r = s
<1>1. FiniteSubsetsOf(D) = SUBSET D
  BY FS_FiniteSubsetsOfFinite
<1>2. PICK s \in U : \A r \in U : <<r, s>> \notin StrictSubsetOrdering(D)
  BY <1>1, FS_StrictSubsetOrderingWellFounded, WFMin
<1>3. ASSUME NEW r \in U, r \subseteq s, r # s PROVE FALSE
  <2>1. <<r, s>> \in (SUBSET D) \X (SUBSET D)
    OBVIOUS
  <2> QED
  BY <2>1, <1>2, <1>3 DEF StrictSubsetOrdering
<1> QED
BY <1>2, <1>3

\* A set of naturals has a least member.
LEMMA SmallestNumber ==
    ASSUME NEW N \in SUBSET Nat, N # {}
    PROVE  \E n \in N : \A m \in N : n <= m
<1> PICK b \in N : TRUE
  OBVIOUS
<1> DEFINE D == 1 .. b
           U == {1 .. n : n \in {k \in N : k <= b}}
<1>1. IsFiniteSet(D)
  BY FS_Interval
<1>2. U \in SUBSET SUBSET D /\ U # {}
  OBVIOUS
<1>3. \E s \in U : \A r \in U : r \subseteq s => r = s
  <2> HIDE DEF U, D
  <2> QED
    BY <1>1, <1>2, SmallestSet
<1>4. PICK s \in U : \A r \in U : r \subseteq s => r = s
  BY <1>3
<1>5. PICK n \in N : n <= b /\ s = 1 .. n
  BY <1>4
<1>6. ASSUME NEW m \in N, m < n PROVE FALSE
  <2>1. 1 .. m \in U /\ 1 .. m \subseteq s
    BY <1>5, <1>6
  <2>2. n \in s /\ n \notin 1 .. m
    BY <1>5, <1>6
  <2> QED
    BY <1>4, <2>1, <2>2
<1> QED
  BY <1>6

LEMMA PickIsIn ==
    ASSUME NEW s, s # {}
    PROVE  Pick(s) \in s
BY DEF Pick

-----------------------------------------------------------------------------
(* The sum exists, and obeys its equation.                                   *)

\* One element more: the sum over all sets of up to n elements extends to those
\* of n + 1.
LEMMA SumExtends ==
    ASSUME NEW D, IsFiniteSet(D), NEW f, NEW n \in Nat,
           NEW F, IsSum(F, f, {s \in SUBSET D : Cardinality(s) <= n})
    PROVE  \E G : IsSum(G, f, {s \in SUBSET D : Cardinality(s) <= n + 1})
<1> DEFINE Small == {s \in SUBSET D : Cardinality(s) <= n}
           Large == {s \in SUBSET D : Cardinality(s) <= n + 1}
           G == [s \in Large |-> IF s = {} THEN 0 ELSE f[Pick(s)] + F[s \ {Pick(s)}]]
<1>1. \A s \in SUBSET D : Cardinality(s) \in Nat /\ IsFiniteSet(s)
  BY FS_Subset, FS_CardinalityType
<1>2. \A s \in Large : s # {} => s \ {Pick(s)} \in Small
  <2> TAKE s \in Large
  <2> HAVE s # {}
  <2>1. Pick(s) \in s
    BY PickIsIn
  <2>2. Cardinality(s \ {Pick(s)}) = Cardinality(s) - 1
    BY <1>1, <2>1, FS_RemoveElement
  <2> QED
  BY <1>1, <2>2
<1>3. \A s \in Small : s \in Large
  BY <1>1
<1>4. \A s \in Small : G[s] = F[s]
  <2> TAKE s \in Small
  <2>1. F[s] = IF s = {} THEN 0 ELSE f[Pick(s)] + F[s \ {Pick(s)}]
    BY DEF IsSum
  <2> QED
  BY <1>3, <2>1
<1>5. G = [s \in Large |-> IF s = {} THEN 0 ELSE f[Pick(s)] + G[s \ {Pick(s)}]]
  <2>1. \A s \in Large : s # {} => G[s \ {Pick(s)}] = F[s \ {Pick(s)}]
    BY <1>2, <1>4
  <2> QED
  BY <2>1
<1> QED
BY <1>5 DEF IsSum

LEMMA SumExists ==
    ASSUME NEW D, IsFiniteSet(D), NEW f
    PROVE  IsSum(Sum(f, D), f, SUBSET D)
<1> DEFINE Upto(n) == {s \in SUBSET D : Cardinality(s) <= n}
           Bad == {n \in Nat : \A F : ~IsSum(F, f, Upto(n))}
<1>1. \A s \in SUBSET D : Cardinality(s) \in Nat /\ Cardinality(s) <= Cardinality(D)
                          /\ IsFiniteSet(s)
  BY FS_Subset, FS_CardinalityType
<1>2. Cardinality(D) \in Nat
  BY FS_CardinalityType
<1>3. \E F : IsSum(F, f, Upto(0))
  <2>1. Upto(0) = {{}}
    BY <1>1, FS_EmptySet
  <2>2. IsSum([s \in {{}} |-> 0], f, {{}})
    BY DEF IsSum
  <2> QED
  BY <2>1, <2>2
<1>4. Bad = {}
  <2> SUFFICES ASSUME Bad # {} PROVE FALSE
    OBVIOUS
  <2>1. PICK n \in Bad : \A m \in Bad : n <= m
    <3>1. Bad \in SUBSET Nat
      OBVIOUS
    <3> HIDE DEF Bad
    <3> QED
    BY <3>1, SmallestNumber
  <2>2. n # 0
    BY <1>3
  <2>3. n - 1 \in Nat /\ n - 1 \notin Bad
    BY <2>1, <2>2
  <2>4. PICK F : IsSum(F, f, Upto(n - 1))
    BY <2>3
  <2>5. \E G : IsSum(G, f, Upto((n - 1) + 1))
    BY <2>3, <2>4, SumExtends
  <2> QED
  BY <2>5
<1>5. Upto(Cardinality(D)) = SUBSET D
  BY <1>1
<1>6. \E F : IsSum(F, f, SUBSET D)
  BY <1>2, <1>4, <1>5
<1> QED
BY <1>6 DEF Sum

LEMMA SumEquation ==
    ASSUME NEW D, IsFiniteSet(D), NEW f
    PROVE  \A s \in SUBSET D : Sum(f, D)[s] =
               IF s = {} THEN 0 ELSE f[Pick(s)] + Sum(f, D)[s \ {Pick(s)}]
<1> DEFINE F == Sum(f, D)
<1>1. IsSum(F, f, SUBSET D)
  BY SumExists
<1> HIDE DEF F
<1>2. F = [s \in SUBSET D |-> IF s = {} THEN 0 ELSE f[Pick(s)] + F[s \ {Pick(s)}]]
  BY <1>1 DEF IsSum
<1>3. \A s \in SUBSET D : F[s] = IF s = {} THEN 0 ELSE f[Pick(s)] + F[s \ {Pick(s)}]
  BY <1>2, Zenon
<1> QED
  BY <1>3 DEF F

\* What holds of the empty sum and survives one more summand holds of the sums
\* over all sets: U is the set of the sums of which it does not hold.
LEMMA SumInduction ==
    ASSUME NEW D, IsFiniteSet(D), NEW U \in SUBSET SUBSET D, {} \notin U,
           \A s \in SUBSET D : s # {} /\ s \ {Pick(s)} \notin U => s \notin U
    PROVE  U = {}
<1> SUFFICES ASSUME U # {} PROVE FALSE
  OBVIOUS
<1>1. PICK s \in U : \A r \in U : r \subseteq s => r = s
  BY SmallestSet
<1>2. s # {} /\ s \ {Pick(s)} \in U
  OBVIOUS
<1>3. Pick(s) \in s /\ s \ {Pick(s)} \subseteq s
  BY <1>2, PickIsIn
<1> QED
  BY <1>1, <1>2, <1>3

\* A sum is a number of the kind its summands are.
LEMMA SumInSet ==
    ASSUME NEW D, IsFiniteSet(D), NEW N, NEW f \in [D -> N],
           0 \in N, \A i, j \in N : i + j \in N
    PROVE  \A s \in SUBSET D : Sum(f, D)[s] \in N
<1> DEFINE F == Sum(f, D)
           U == {s \in SUBSET D : F[s] \notin N}
<1>1. \A s \in SUBSET D : F[s] = IF s = {} THEN 0 ELSE f[Pick(s)] + F[s \ {Pick(s)}]
  BY SumEquation
<1> HIDE DEF F
<1>2. {} \notin U
  BY <1>1
<1>3. ASSUME NEW s \in SUBSET D, s # {}, s \ {Pick(s)} \notin U PROVE s \notin U
  <2>1. Pick(s) \in D
    BY <1>3, PickIsIn
  <2>2. f[Pick(s)] \in N /\ F[s \ {Pick(s)}] \in N
    BY <1>3, <2>1
  <2>3. F[s] = f[Pick(s)] + F[s \ {Pick(s)}]
    BY <1>1, <1>3
  <2> QED
    BY <2>2, <2>3
<1>4. U = {}
  <2>1. U \in SUBSET SUBSET D
    OBVIOUS
  <2> HIDE DEF U
  <2> QED
    BY <1>2, <1>3, <2>1, SumInduction
<1> QED
  BY <1>4 DEF F

\* Two functions that differ at one place: their sums over a set differ there
\* too, or not at all.
Extra(f, g, k, s) == IF k \in s THEN g[k] - f[k] ELSE 0

LEMMA SumsDiffer ==
    ASSUME NEW D, IsFiniteSet(D), NEW f \in [D -> Int], NEW g \in [D -> Int],
           NEW k \in D, \A x \in D : x # k => g[x] = f[x]
    PROVE  \A s \in SUBSET D : Sum(g, D)[s] = Sum(f, D)[s] + Extra(f, g, k, s)
<1> DEFINE F == Sum(f, D)
           G == Sum(g, D)
           U == {s \in SUBSET D : G[s] # F[s] + Extra(f, g, k, s)}
<1>1. \A s \in SUBSET D : F[s] = IF s = {} THEN 0 ELSE f[Pick(s)] + F[s \ {Pick(s)}]
  BY SumEquation
<1>2. \A s \in SUBSET D : G[s] = IF s = {} THEN 0 ELSE g[Pick(s)] + G[s \ {Pick(s)}]
  BY SumEquation
<1>3. \A s \in SUBSET D : F[s] \in Int
  BY SumInSet
<1> HIDE DEF F, G
<1>4. {} \notin U
  <2>1. G[{}] = 0 /\ F[{}] = 0 /\ Extra(f, g, k, {}) = 0
    BY <1>1, <1>2 DEF Extra
  <2> QED
    BY <2>1
<1>5. ASSUME NEW s \in SUBSET D, s # {}, s \ {Pick(s)} \notin U PROVE s \notin U
  <2>1. PICK p \in s : p = Pick(s)
    BY <1>5, PickIsIn
  <2>2. PICK r \in SUBSET D : r = s \ {p}
    OBVIOUS
  <2>3. G[r] = F[r] + Extra(f, g, k, r)
    BY <1>5, <2>1, <2>2
  <2>4. G[s] = g[p] + G[r] /\ F[s] = f[p] + F[r]
    BY <1>1, <1>2, <1>5, <2>1, <2>2
  <2>5. /\ F[r] \in Int /\ f[p] \in Int /\ g[p] \in Int
        /\ f[k] \in Int /\ g[k] \in Int
    BY <1>3, <2>1
  <2>6. G[s] = F[s] + Extra(f, g, k, s)
    <3>1. CASE p = k
      BY <2>2, <2>3, <2>4, <2>5, <3>1 DEF Extra
    <3>2. CASE p # k
      <4>1. g[p] = f[p] /\ (k \in r <=> k \in s)
        BY <2>1, <2>2, <3>2
      <4> QED
        BY <2>3, <2>4, <2>5, <4>1 DEF Extra
    <3> QED
      BY <3>1, <3>2
  <2> QED
    BY <2>6
<1>6. U = {}
  <2>1. U \in SUBSET SUBSET D
    OBVIOUS
  <2> HIDE DEF U
  <2> QED
    BY <1>4, <1>5, <2>1, SumInduction
<1> QED
  BY <1>6 DEF F, G

-----------------------------------------------------------------------------
(* What the escrows' invariants need of it. *)

SumOver(f) == FoldFunction(+, 0, f)

LEMMA SumType ==
    ASSUME NEW D, IsFiniteSet(D), NEW f \in [D -> Nat]
    PROVE  SumOver(f) \in Nat
<1>1. \A s \in SUBSET D : Sum(f, D)[s] \in Nat
  <2>1. \A i, j \in Nat : i + j \in Nat
    OBVIOUS
  <2> QED
    BY <2>1, SumInSet, Zenon
<1> QED
  BY <1>1, FoldIsSum DEF SumOver

\* The sum follows the one summand that changes.
LEMMA SumChange ==
    ASSUME NEW D, IsFiniteSet(D), NEW f \in [D -> Int], NEW g \in [D -> Int],
           NEW k \in D, \A x \in D : x # k => g[x] = f[x]
    PROVE  SumOver(g) = SumOver(f) + g[k] - f[k]
<1>1. SumOver(f) = Sum(f, D)[D] /\ SumOver(g) = Sum(g, D)[D]
  BY FoldIsSum DEF SumOver
<1>2. Sum(g, D)[D] = Sum(f, D)[D] + Extra(f, g, k, D)
  BY SumsDiffer
<1>3. Sum(f, D)[D] \in Int
  BY SumInSet
<1>4. f[k] \in Int /\ g[k] \in Int
  OBVIOUS
<1> QED
  BY <1>1, <1>2, <1>3, <1>4 DEF Extra

\* Nothing but zeros sums up to nothing.
LEMMA SumZero ==
    ASSUME NEW D, IsFiniteSet(D), NEW f \in [D -> {0}]
    PROVE  SumOver(f) = 0
<1>1. \A s \in SUBSET D : Sum(f, D)[s] \in {0}
  <2>1. 0 \in {0} /\ \A i, j \in {0} : i + j \in {0}
    OBVIOUS
  <2> QED
    BY <2>1, SumInSet, Zenon
<1> QED
  BY <1>1, FoldIsSum DEF SumOver

\* A summand is at most the sum.
LEMMA SumMember ==
    ASSUME NEW D, IsFiniteSet(D), NEW f \in [D -> Nat], NEW k \in D
    PROVE  f[k] <= SumOver(f)
<1> DEFINE g == [x \in D |-> IF x = k THEN 0 ELSE f[x]]
<1>1. g \in [D -> Nat] /\ g[k] = 0 /\ \A x \in D : x # k => g[x] = f[x]
  OBVIOUS
<1> HIDE DEF g
<1>2. SumOver(g) \in Nat /\ SumOver(f) \in Nat
  BY <1>1, SumType
<1>3. f \in [D -> Int] /\ g \in [D -> Int] /\ f[k] \in Nat
  BY <1>1
<1>4. SumOver(g) = SumOver(f) + g[k] - f[k]
  BY <1>1, <1>3, SumChange
<1> QED
  BY <1>1, <1>2, <1>3, <1>4

=============================================================================
