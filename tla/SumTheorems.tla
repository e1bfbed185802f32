---------------------------- MODULE SumTheorems -----------------------------
(* What a sum over a finite set of keys is, for any numbers and any set: the *)
(* facts the proofs about budgets, rollups and billing periods need of the   *)
(* sums that the code leaves to the database.                                *)
EXTENDS Integers, FiniteSets, FiniteSetsExt, FiniteSetTheorems, WellFoundedInduction, TLAPS

-----------------------------------------------------------------------------
(* Induction, with a set in the place of the predicate. *)

\* A set that has zero and the successor of each number has every number.
LEMMA CountingUp ==
  ASSUME NEW T, 0 \in T, \A n \in T \cap Nat : n + 1 \in T
  PROVE  Nat \subseteq T
<1> SUFFICES ASSUME Nat \ T # {}  PROVE FALSE
  OBVIOUS
<1> DEFINE R == {ss \in Nat \X Nat : ss[1] < ss[2]}
<1>1. IsWellFoundedOn(R, Nat)
  BY NatLessThanWellFounded DEF OpToRel
<1> HIDE DEF R
<1>2. PICK m \in Nat \ T : \A n \in Nat \ T : ~(<<n, m>> \in R)
  BY <1>1, WFMin
<1>3. m # 0 /\ m - 1 \in Nat /\ m - 1 < m
  OBVIOUS
<1>4. <<m - 1, m>> \in R
  BY <1>3 DEF R
<1>5. m - 1 \in T \cap Nat
  BY <1>2, <1>3, <1>4
<1>6. QED  BY <1>3, <1>5

\* What the empty set has, and a set with one element more, a finite set has.
LEMMA AddingUp ==
  ASSUME NEW S, IsFiniteSet(S), NEW F, {} \in F,
         \A T \in SUBSET S : \A x \in S \ T : T \in F => T \cup {x} \in F
  PROVE  S \in F
<1> DEFINE P == {n \in Nat : \A T \in SUBSET S : Cardinality(T) = n => T \in F}
<1>1. 0 \in P
  <2> SUFFICES ASSUME NEW T \in SUBSET S, Cardinality(T) = 0  PROVE T \in F
    OBVIOUS
  <2>1. T = {}
    BY FS_Subset, FS_EmptySet
  <2>2. QED  BY <2>1
<1>2. \A n \in P \cap Nat : n + 1 \in P
  <2> SUFFICES ASSUME NEW n \in P \cap Nat, NEW T \in SUBSET S, Cardinality(T) = n + 1
               PROVE  T \in F
    OBVIOUS
  <2>1. IsFiniteSet(T) /\ T # {}
    BY FS_Subset, FS_EmptySet
  <2>2. PICK x : x \in T
    BY <2>1
  <2>3. Cardinality(T \ {x}) = Cardinality(T) - 1
    BY <2>1, <2>2, FS_RemoveElement
  <2>4. T \ {x} \in F
    <3>1. n \in Nat /\ Cardinality(T \ {x}) = n
      BY <2>3
    <3>2. QED  BY <3>1
  <2>5. T = (T \ {x}) \cup {x}
    BY <2>2
  <2>6. QED  BY <2>2, <2>4, <2>5
<1> HIDE DEF P
<1>3. Nat \subseteq P
  BY <1>1, <1>2, CountingUp
<1>4. Cardinality(S) \in P
  BY <1>3, FS_CardinalityType
<1>5. QED  BY <1>4 DEF P

-----------------------------------------------------------------------------
(* The recursion behind SumFunctionOnSet. *)

Pick(s) == CHOOSE x \in s : TRUE

Total(g, f, s) == IF s = {} THEN 0 ELSE f[Pick(s)] + g[s \ {Pick(s)}]

IsSum(g, f, S) == g = [s \in SUBSET S |-> Total(g, f, s)]

\* The fold of the library, for a sum.
LEMMA SumExpands ==
  ASSUME NEW f, NEW S
  PROVE  SumFunctionOnSet(f, S) = (CHOOSE g : IsSum(g, f, S))[S]
  BY DEF SumFunctionOnSet, FoldFunctionOnSet, MapThenFoldSet, IsSum, Total, Pick

\* An element is picked from every set but the empty one.
LEMMA PickFacts ==
  ASSUME NEW S, IsFiniteSet(S), S # {}
  PROVE  /\ Pick(S) \in S
         /\ IsFiniteSet(S \ {Pick(S)}) /\ Cardinality(S \ {Pick(S)}) = Cardinality(S) - 1
         /\ Cardinality(S) \in Nat
<1>1. Pick(S) \in S
  BY DEF Pick
<1>2. QED  BY <1>1, FS_RemoveElement, FS_CardinalityType

\* The recursion has a solution.
LEMMA SumsExist ==
  ASSUME NEW S, IsFiniteSet(S), NEW f, \A x \in S : f[x] \in Nat
  PROVE  \E g : IsSum(g, f, S)
<1> DEFINE Solves(g, n) == \A s \in SUBSET S : Cardinality(s) <= n => g[s] = Total(g, f, s)
           P == {n \in Nat : \E g \in [SUBSET S -> Nat] : Solves(g, n)}
<1>1. 0 \in P
  <2>1. Solves([s \in SUBSET S |-> 0], 0)
    <3> SUFFICES ASSUME NEW s \in SUBSET S, Cardinality(s) <= 0
                 PROVE  s = {}
      BY DEF Total
    <3>1. QED  BY FS_Subset, FS_EmptySet, FS_CardinalityType
  <2>2. QED  BY <2>1
<1>2. \A n \in P \cap Nat : n + 1 \in P
  <2> SUFFICES ASSUME NEW n \in P \cap Nat  PROVE n + 1 \in P
    OBVIOUS
  <2>1. PICK g \in [SUBSET S -> Nat] : Solves(g, n)
    OBVIOUS
  <2> DEFINE h == [s \in SUBSET S |-> IF Cardinality(s) <= n THEN g[s] ELSE Total(g, f, s)]
  <2>2. ASSUME NEW s \in SUBSET S  PROVE Total(g, f, s) \in Nat
    <3>1. CASE s = {}
      BY <3>1 DEF Total
    <3>2. CASE s # {}
      BY <3>2, PickFacts, FS_Subset DEF Total
    <3>3. QED  BY <3>1, <3>2
  <2>3. h \in [SUBSET S -> Nat]
    BY <2>2
  <2>4. ASSUME NEW s \in SUBSET S, Cardinality(s) <= n + 1
        PROVE  Total(h, f, s) = Total(g, f, s)
    <3>1. CASE s = {}
      BY <3>1 DEF Total
    <3>2. CASE s # {}
      <4>1. Cardinality(s \ {Pick(s)}) <= n
        BY <2>4, <3>2, PickFacts, FS_Subset
      <4>2. s \ {Pick(s)} \in SUBSET S
        OBVIOUS
      <4>3. h[s \ {Pick(s)}] = g[s \ {Pick(s)}]
        BY <4>1, <4>2
      <4> HIDE DEF h
      <4>4. QED  BY <3>2, <4>3 DEF Total
    <3>3. QED  BY <3>1, <3>2
  <2>5. Solves(h, n + 1)
    <3> SUFFICES ASSUME NEW s \in SUBSET S, Cardinality(s) <= n + 1
                 PROVE  h[s] = Total(h, f, s)
      OBVIOUS
    <3>1. h[s] = Total(g, f, s)
      BY <2>1
    <3> HIDE DEF h
    <3>2. QED  BY <2>4, <3>1
  <2> HIDE DEF h, Solves
  <2>6. n + 1 \in Nat
    OBVIOUS
  <2>7. QED  BY <2>3, <2>5, <2>6
<1> HIDE DEF P, Solves
<1>3. Nat \subseteq P
  BY <1>1, <1>2, CountingUp
<1>4. PICK g \in [SUBSET S -> Nat] : Solves(g, Cardinality(S))
  BY <1>3, FS_CardinalityType DEF P
<1>5. \A s \in SUBSET S : g[s] = Total(g, f, s)
  BY <1>4, FS_Subset DEF Solves
<1>6. QED  BY <1>5 DEF IsSum

\* A solution is a number, whichever element is taken out first.
LEMMA SumsAreNumbers ==
  ASSUME NEW S, IsFiniteSet(S), NEW f, \A x \in S : f[x] \in Nat,
         NEW g, IsSum(g, f, S)
  PROVE  \A s \in SUBSET S : g[s] \in Nat
<1> DEFINE P == {n \in Nat : \A s \in SUBSET S : Cardinality(s) = n => g[s] \in Nat}
<1>1. \A s \in SUBSET S : g[s] = Total(g, f, s) /\ IsFiniteSet(s)
  BY FS_Subset DEF IsSum
<1>2. 0 \in P
  <2> SUFFICES ASSUME NEW s \in SUBSET S, Cardinality(s) = 0  PROVE g[s] \in Nat
    OBVIOUS
  <2>1. s = {}
    BY <1>1, FS_EmptySet
  <2>2. g[s] = 0
    BY <1>1, <2>1 DEF Total
  <2>3. QED  BY <2>2
<1>3. \A n \in P \cap Nat : n + 1 \in P
  <2> SUFFICES ASSUME NEW n \in P \cap Nat, NEW s \in SUBSET S, Cardinality(s) = n + 1
               PROVE  g[s] \in Nat
    OBVIOUS
  <2>1. s # {}
    BY FS_EmptySet
  <2>2. Pick(s) \in s /\ g[s \ {Pick(s)}] \in Nat
    <3>1. IsFiniteSet(s)
      BY <1>1
    <3>2. Pick(s) \in s /\ Cardinality(s \ {Pick(s)}) = Cardinality(s) - 1
      BY <2>1, <3>1, PickFacts
    <3>3. n \in Nat /\ Cardinality(s \ {Pick(s)}) = n
      BY <3>2
    <3>4. QED  BY <3>2, <3>3
  <2>3. QED  BY <1>1, <2>1, <2>2 DEF Total
<1> HIDE DEF P
<1>4. Nat \subseteq P
  BY <1>2, <1>3, CountingUp
<1>5. QED  BY <1>1, <1>4, FS_CardinalityType DEF P

\* Whichever element is taken out first, the sum is the same.
LEMMA AnyElementFirst ==
  ASSUME NEW S, IsFiniteSet(S), NEW f, \A x \in S : f[x] \in Nat,
         NEW g, IsSum(g, f, S)
  PROVE  \A s \in SUBSET S : \A x \in s : g[s] = f[x] + g[s \ {x}]
<1> DEFINE P == {n \in Nat : \A s \in SUBSET S : Cardinality(s) = n =>
                               \A x \in s : g[s] = f[x] + g[s \ {x}]}
<1>1. \A s \in SUBSET S : g[s] = Total(g, f, s) /\ IsFiniteSet(s) /\ g[s] \in Nat
  BY FS_Subset, SumsAreNumbers DEF IsSum
<1>2. 0 \in P
  BY <1>1, FS_EmptySet
<1>3. \A n \in P \cap Nat : n + 1 \in P
  <2> SUFFICES ASSUME NEW n \in P \cap Nat, NEW s \in SUBSET S, Cardinality(s) = n + 1,
                      NEW x \in s
               PROVE  g[s] = f[x] + g[s \ {x}]
    <3>1. \A n \in P \cap Nat : n + 1 \in Nat
      OBVIOUS
    <3>2. QED  BY <3>1
  <2>1. \A u \in SUBSET S : Cardinality(u) = n => \A z \in u : g[u] = f[z] + g[u \ {z}]
    OBVIOUS
  <2>2. PICK y \in s : y = Pick(s)
    BY DEF Pick
  <2>3. g[s] = f[y] + g[s \ {y}]
    BY <1>1, <2>2 DEF Total
  <2>4. Cardinality(s \ {y}) = n /\ Cardinality(s \ {x}) = n
    <3>1. IsFiniteSet(s) /\ n \in Nat
      BY <1>1
    <3>2. /\ Cardinality(s \ {y}) = Cardinality(s) - 1
          /\ Cardinality(s \ {x}) = Cardinality(s) - 1
      BY <3>1, FS_RemoveElement
    <3>3. QED  BY <3>1, <3>2
  <2>5. CASE x # y
    <3>1. s \ {y} \in SUBSET S /\ s \ {x} \in SUBSET S /\ x \in s \ {y} /\ y \in s \ {x}
      BY <2>5
    <3>2. g[s \ {y}] = f[x] + g[(s \ {y}) \ {x}]
      BY <2>1, <2>4, <3>1
    <3>3. g[s \ {x}] = f[y] + g[(s \ {x}) \ {y}]
      BY <2>1, <2>4, <3>1
    <3>4. (s \ {y}) \ {x} = (s \ {x}) \ {y}
      OBVIOUS
    <3>5. f[x] \in Nat /\ f[y] \in Nat /\ g[(s \ {x}) \ {y}] \in Nat
      BY <1>1
    <3>6. f[y] + (f[x] + g[(s \ {x}) \ {y}]) = f[x] + (f[y] + g[(s \ {x}) \ {y}])
      BY <3>5
    <3>7. QED  BY <2>3, <3>2, <3>3, <3>4, <3>6
  <2>6. QED  BY <2>3, <2>5
<1> HIDE DEF P
<1>4. Nat \subseteq P
  BY <1>2, <1>3, CountingUp
<1>5. QED  BY <1>1, <1>4, FS_CardinalityType DEF P

-----------------------------------------------------------------------------
(* Facts about SumFunctionOnSet *)

\* A sum is the value of a solution of the recursion.
LEMMA SumIsSolution ==
  ASSUME NEW S, IsFiniteSet(S), NEW f, \A x \in S : f[x] \in Nat
  PROVE  \E g : IsSum(g, f, S) /\ SumFunctionOnSet(f, S) = g[S]
  BY SumsExist, SumExpands

\* A sum over no element is zero.
LEMMA SumOverNothing ==
  ASSUME NEW f
  PROVE  SumFunctionOnSet(f, {}) = 0
<1>1. PICK g : IsSum(g, f, {}) /\ SumFunctionOnSet(f, {}) = g[{}]
  BY SumIsSolution, FS_EmptySet
<1>2. QED  BY <1>1 DEF IsSum, Total

\* A sum of natural numbers is one.
LEMMA SumIsNat ==
  ASSUME NEW S, IsFiniteSet(S), NEW f, \A x \in S : f[x] \in Nat
  PROVE  SumFunctionOnSet(f, S) \in Nat
  BY SumIsSolution, SumsAreNumbers

\* Solutions over different sets agree where both are defined.
LEMMA SolutionsAgree ==
  ASSUME NEW S, IsFiniteSet(S), NEW T \in SUBSET S, NEW f, \A x \in S : f[x] \in Nat,
         NEW g, IsSum(g, f, S), NEW h, IsSum(h, f, T)
  PROVE  g[T] = h[T]
<1> DEFINE F == {s \in SUBSET T : g[s] = h[s]}
<1>1. IsFiniteSet(T)
  BY FS_Subset
<1>2. {} \in F
  BY DEF IsSum, Total
<1>3. \A s \in SUBSET T : \A x \in T \ s : s \in F => s \cup {x} \in F
  <2> SUFFICES ASSUME NEW s \in SUBSET T, NEW x \in T \ s, g[s] = h[s]
               PROVE  g[s \cup {x}] = h[s \cup {x}]
    OBVIOUS
  <2>1. (s \cup {x}) \ {x} = s
    OBVIOUS
  <2>2. g[s \cup {x}] = f[x] + g[s]
    BY <2>1, AnyElementFirst
  <2>3. h[s \cup {x}] = f[x] + h[s]
    BY <1>1, <2>1, AnyElementFirst
  <2>4. QED  BY <2>2, <2>3
<1> HIDE DEF F
<1>4. T \in F
  BY <1>1, <1>2, <1>3, AddingUp
<1>5. QED  BY <1>4 DEF F

\* Any element may be added last.
LEMMA SumWithOneMore ==
  ASSUME NEW S, IsFiniteSet(S), NEW x, x \notin S, NEW f, \A y \in S \cup {x} : f[y] \in Nat
  PROVE  SumFunctionOnSet(f, S \cup {x}) = f[x] + SumFunctionOnSet(f, S)
<1>1. IsFiniteSet(S \cup {x}) /\ (S \cup {x}) \ {x} = S
  BY FS_AddElement
<1>2. PICK g : IsSum(g, f, S \cup {x}) /\ SumFunctionOnSet(f, S \cup {x}) = g[S \cup {x}]
  BY <1>1, SumIsSolution
<1>3. PICK h : IsSum(h, f, S) /\ SumFunctionOnSet(f, S) = h[S]
  BY SumIsSolution
<1>4. g[S \cup {x}] = f[x] + g[S]
  BY <1>1, <1>2, AnyElementFirst
<1>5. g[S] = h[S]
  BY <1>1, <1>2, <1>3, SolutionsAgree
<1>6. QED  BY <1>2, <1>3, <1>4, <1>5

\* Fewer and smaller numbers have no larger sum.
LEMMA SumIsMonotonic ==
  ASSUME NEW S, IsFiniteSet(S), NEW T \in SUBSET S,
         NEW f, \A x \in T : f[x] \in Nat,
         NEW g, \A x \in S : g[x] \in Nat,
         \A x \in T : f[x] <= g[x]
  PROVE  SumFunctionOnSet(f, T) <= SumFunctionOnSet(g, S)
<1> DEFINE F == {s \in SUBSET S : SumFunctionOnSet(f, s \cap T) <= SumFunctionOnSet(g, s)}
<1>1. {} \in F
  <2>1. {} \cap T = {}
    OBVIOUS
  <2>2. QED  BY <2>1, SumOverNothing
<1>2. \A s \in SUBSET S : \A x \in S \ s : s \in F => s \cup {x} \in F
  <2> SUFFICES ASSUME NEW s \in SUBSET S, NEW x \in S \ s,
                      SumFunctionOnSet(f, s \cap T) <= SumFunctionOnSet(g, s)
               PROVE  SumFunctionOnSet(f, (s \cup {x}) \cap T) <= SumFunctionOnSet(g, s \cup {x})
    OBVIOUS
  <2>1. IsFiniteSet(s) /\ IsFiniteSet(s \cap T)
    BY FS_Subset
  <2>2. SumFunctionOnSet(f, s \cap T) \in Nat /\ SumFunctionOnSet(g, s) \in Nat /\ g[x] \in Nat
    BY <2>1, SumIsNat
  <2>3. SumFunctionOnSet(g, s \cup {x}) = g[x] + SumFunctionOnSet(g, s)
    BY <2>1, SumWithOneMore
  <2>4. CASE x \in T
    <3>1. (s \cup {x}) \cap T = (s \cap T) \cup {x}
      BY <2>4
    <3>2. SumFunctionOnSet(f, (s \cap T) \cup {x}) = f[x] + SumFunctionOnSet(f, s \cap T)
      BY <2>1, <2>4, SumWithOneMore
    <3>3. f[x] \in Nat /\ f[x] <= g[x]
      BY <2>4
    <3>4. QED  BY <2>2, <2>3, <3>1, <3>2, <3>3
  <2>5. CASE x \notin T
    <3>1. (s \cup {x}) \cap T = s \cap T
      BY <2>5
    <3>2. SumFunctionOnSet(f, s \cap T) <= g[x] + SumFunctionOnSet(g, s)
      BY <2>2
    <3>3. QED  BY <2>3, <3>1, <3>2
  <2>6. QED  BY <2>4, <2>5
<1> HIDE DEF F
<1>3. S \in F
  BY <1>1, <1>2, AddingUp
<1>4. S \cap T = T
  OBVIOUS
<1>5. QED  BY <1>3, <1>4 DEF F
=============================================================================
