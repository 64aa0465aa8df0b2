------------------------ MODULE InferenceMeter_proofs ------------------------
(***************************************************************************)
(* Proof that the totals of InferenceMeter add up.  The first two parts    *)
(* are about sums over finite sets, the next two are the inductive         *)
(* invariant: what the remaining quota lost while a shot ran is what was   *)
(* consumed in the company of that shot.  The last reads the totals off it.*)
(***************************************************************************)
EXTENDS InferenceMeter, FiniteSetTheorems, TLAPS

(* Induction over numbers and over the subsets of a finite set, for a set *)
(* that is to be shown to hold all of them.                               *)

\* A set of naturals that is not empty has a least element.
LEMMA LeastNatural ==
  ASSUME NEW T \in SUBSET Nat, T # {}
  PROVE  \E n \in T : \A m \in T : n <= m
<1>1. PICK n \in T : \A m \in T : <<m, n>> \notin OpToRel(<, Nat)
  BY Zenon, NatLessThanWellFounded, WFMin
<1>2. \A m \in T : ~(m < n)
  BY Zenon, <1>1 DEF OpToRel
<1>. QED
  BY <1>2

\* A set that holds 0 and the successor of each of its numbers holds them all.
LEMMA NumberInduction ==
  ASSUME NEW P, 0 \in P, \A n \in Nat : n \in P => n + 1 \in P
  PROVE  Nat \subseteq P
<1>. DEFINE T == Nat \ P
<1>. SUFFICES ASSUME T # {} PROVE FALSE
  OBVIOUS
<1>1. PICK n \in T : \A m \in T : n <= m
  BY LeastNatural
<1>2. n # 0 /\ n - 1 \in Nat /\ n - 1 \notin T
  BY <1>1
<1>. QED
  BY <1>2

\* A set that holds {} and every subset of S all of whose subsets with one
\* element less it holds, holds every subset of S.
LEMMA SubsetInduction ==
  ASSUME NEW S, IsFiniteSet(S), NEW P, {} \in P,
         \A s \in SUBSET S : s # {} /\ (\A x \in s : s \ {x} \in P) => s \in P
  PROVE  SUBSET S \subseteq P
<1>. DEFINE Q == {n \in Nat : \A s \in SUBSET S : Cardinality(s) = n => s \in P}
<1>1. \A s \in SUBSET S : IsFiniteSet(s) /\ Cardinality(s) \in Nat
  BY FS_Subset, FS_CardinalityType
<1>2. 0 \in Q
  BY <1>1, FS_EmptySet
<1>3. ASSUME NEW n \in Nat, n \in Q
      PROVE  n + 1 \in Q
  <2>1. ASSUME NEW s \in SUBSET S, Cardinality(s) = n + 1
        PROVE  s \in P
    <3>1. s # {}
      BY <2>1, FS_EmptySet
    <3>2. ASSUME NEW x \in s
          PROVE  s \ {x} \in P
      <4>1. Cardinality(s \ {x}) = n
        BY <1>1, <2>1, FS_RemoveElement
      <4>. QED
        BY <1>3, <4>1
    <3>. QED
      BY <3>1, <3>2
  <2>. QED
    BY <2>1
<1>4. Nat \subseteq Q
  <2>. HIDE DEF Q
  <2>. QED
    BY <1>2, <1>3, NumberInduction
<1>. QED
  BY <1>1, <1>4
-----------------------------------------------------------------------------
(* Sums of a function over a finite set. *)

Pick(s) == CHOOSE x \in s : TRUE

\* The function by which SumFunctionOnSet sums f over S, one element after another.
IsSum(f, S, it) ==
    it = [s \in SUBSET S |-> IF s = {} THEN 0 ELSE f[Pick(s)] + it[s \ {Pick(s)}]]

LEMMA PickIn == \A s : s # {} => Pick(s) \in s
  BY DEF Pick

\* There is such a function, and so the one that the sum chooses is one.
LEMMA SumExists ==
  ASSUME NEW S, IsFiniteSet(S), NEW f
  PROVE  \E it : IsSum(f, S, it)
<1>. DEFINE Upto(n) == {s \in SUBSET S : Cardinality(s) <= n}
            Step(it, s) == IF s = {} THEN 0 ELSE f[Pick(s)] + it[s \ {Pick(s)}]
            IsPart(it, n) == it = [s \in Upto(n) |-> Step(it, s)]
            P == {n \in Nat : \E it : IsPart(it, n)}
<1>1. \A s \in SUBSET S : IsFiniteSet(s) /\ Cardinality(s) \in Nat
  BY FS_Subset, FS_CardinalityType
<1>2. 0 \in P
  <2>. DEFINE it == [s \in Upto(0) |-> 0]
  <2>1. \A s \in Upto(0) : s = {}
    BY <1>1, FS_EmptySet
  <2>2. IsPart(it, 0)
    BY <2>1
  <2>. QED
    BY <2>2
<1>3. ASSUME NEW n \in Nat, n \in P
      PROVE  n + 1 \in P
  <2>1. PICK it : IsPart(it, n)
    BY <1>3
  <2>. DEFINE jt == [s \in Upto(n + 1) |-> Step(it, s)]
  <2>2. ASSUME NEW s \in Upto(n + 1), s # {}
        PROVE  s \ {Pick(s)} \in Upto(n) /\ s \ {Pick(s)} \in Upto(n + 1)
    <3>1. Pick(s) \in s /\ IsFiniteSet(s) /\ Cardinality(s) \in Nat
      BY <1>1, <2>2, PickIn
    <3>2. Cardinality(s \ {Pick(s)}) = Cardinality(s) - 1
      BY <3>1, FS_RemoveElement
    <3>. QED
      BY <3>1, <3>2
  <2>3. ASSUME NEW s \in Upto(n)
        PROVE  s \in Upto(n + 1) /\ jt[s] = it[s]
    <3>1. s \in Upto(n + 1)
      BY <1>1
    <3>2. it[s] = Step(it, s)
      <4>. HIDE DEF Step, Upto
      <4>. QED
        BY <2>1
    <3>. QED
      BY <3>1, <3>2
  <2>4. ASSUME NEW s \in Upto(n + 1)
        PROVE  jt[s] = Step(jt, s)
    <3>1. jt[s] = Step(it, s)
      OBVIOUS
    <3>2. CASE s = {}
      BY <3>1, <3>2
    <3>3. CASE s # {}
      <4>. HIDE DEF Upto, jt
      <4>. QED
        BY <2>2, <2>3, <3>1, <3>3
    <3>. QED
      BY <3>2, <3>3
  <2>5. IsPart(jt, n + 1)
    <3>. DEFINE kt == [s \in Upto(n + 1) |-> Step(jt, s)]
    <3>1. jt = kt
      <4>. HIDE DEF Upto
      <4>. QED
        BY <2>4
    <3>. QED
      BY <3>1
  <2>6. \E kt : IsPart(kt, n + 1)
    <3>. HIDE DEF IsPart, jt
    <3>. QED
      BY <2>5
  <2>. HIDE DEF IsPart
  <2>. QED
    BY <2>6
<1>4. Nat \subseteq P
  <2>. HIDE DEF P
  <2>. QED
    BY <1>2, <1>3, NumberInduction
<1>5. Cardinality(S) \in P
  BY <1>1, <1>4
<1>6. Upto(Cardinality(S)) = SUBSET S
  BY FS_Subset
<1>7. PICK it : IsPart(it, Cardinality(S))
  BY <1>5
<1>8. IsSum(f, S, it)
  BY <1>6, <1>7 DEF IsSum
<1>. QED
  BY <1>8

\* What one sees of such a function.
LEMMA SumStart ==
  ASSUME NEW S, NEW f, NEW it, IsSum(f, S, it)
  PROVE  it[{}] = 0
  BY DEF IsSum

\* It takes one element of a set after the other.
LEMMA SumEquation ==
  ASSUME NEW S, NEW f, NEW it, IsSum(f, S, it), NEW s \in SUBSET S, s # {}
  PROVE  /\ Pick(s) \in s /\ s \ {Pick(s)} \in SUBSET S
         /\ it[s] = f[Pick(s)] + it[s \ {Pick(s)}]
<1>1. \A r \in SUBSET S :
          it[r] = IF r = {} THEN 0 ELSE f[Pick(r)] + it[r \ {Pick(r)}]
  BY DEF IsSum
<1>. QED
  BY <1>1, PickIn

\* SumFunctionOnSet is the value of such a function.
LEMMA SumIsFold ==
  ASSUME NEW S, IsFiniteSet(S), NEW f
  PROVE  \E it : IsSum(f, S, it) /\ SumFunctionOnSet(f, S) = it[S]
<1>. DEFINE jt == CHOOSE it : IsSum(f, S, it)
<1>1. IsSum(f, S, jt)
  BY SumExists
<1>2. SumFunctionOnSet(f, S) = jt[S]
  BY DEF SumFunctionOnSet, FoldFunctionOnSet, MapThenFoldSet, IsSum, Pick
<1>. QED
  BY <1>1, <1>2

\* Sums of integers are integers, and of naturals naturals.
LEMMA SumTyped ==
  ASSUME NEW S, IsFiniteSet(S), NEW N, N = Int \/ N = Nat,
         NEW f, \A x \in S : f[x] \in N, NEW it, IsSum(f, S, it)
  PROVE  \A s \in SUBSET S : it[s] \in N
<1>0. /\ it[{}] = 0
      /\ \A s \in SUBSET S : s # {} =>
             Pick(s) \in s /\ it[s] = f[Pick(s)] + it[s \ {Pick(s)}]
  BY SumStart, SumEquation
<1>. DEFINE P == {s \in SUBSET S : it[s] \in N}
<1>1. {} \in P
  BY <1>0
<1>2. ASSUME NEW s \in SUBSET S, s # {}, \A x \in s : s \ {x} \in P
      PROVE  s \in P
  <2>1. Pick(s) \in s /\ it[s] = f[Pick(s)] + it[s \ {Pick(s)}]
    BY <1>0, <1>2
  <2>2. it[s \ {Pick(s)}] \in N /\ f[Pick(s)] \in N
    BY <1>2, <2>1
  <2>. QED
    BY <2>1, <2>2
<1>3. SUBSET S \subseteq P
  <2>. HIDE DEF P
  <2>. QED
    BY <1>1, <1>2, SubsetInduction
<1>. QED
  BY <1>3

\* The elements may be taken in any order.
LEMMA SumOrder ==
  ASSUME NEW S, IsFiniteSet(S), NEW f, \A y \in S : f[y] \in Int,
         NEW it, IsSum(f, S, it), NEW e \in S
  PROVE  it[S] = f[e] + it[S \ {e}]
<1>0. \A s \in SUBSET S : s # {} => \E c \in s : it[s] = f[c] + it[s \ {c}]
  <2>1. \A s \in SUBSET S : s # {} =>
            Pick(s) \in s /\ it[s] = f[Pick(s)] + it[s \ {Pick(s)}]
    BY SumEquation
  <2>. QED
    BY <2>1
<1>. DEFINE P == {s \in SUBSET S : \A x \in s : it[s] = f[x] + it[s \ {x}]}
<1>1. {} \in P
  OBVIOUS
<1>2. \A s \in SUBSET S : it[s] \in Int
  BY SumTyped
<1>3. ASSUME NEW s \in SUBSET S, s # {}, \A x \in s : s \ {x} \in P
      PROVE  s \in P
  <2>1. PICK c \in s : it[s] = f[c] + it[s \ {c}]
    BY <1>0, <1>3
  <2>2. ASSUME NEW x \in s
        PROVE  it[s] = f[x] + it[s \ {x}]
    <3>1. CASE x = c
      BY <2>1, <3>1
    <3>2. CASE x # c
      <4>1. /\ it[s \ {c}] = f[x] + it[(s \ {c}) \ {x}]
            /\ it[s \ {x}] = f[c] + it[(s \ {x}) \ {c}]
        BY <1>3, <2>1, <3>2
      <4>2. (s \ {c}) \ {x} = (s \ {x}) \ {c} /\ (s \ {x}) \ {c} \in SUBSET S
        OBVIOUS
      <4>3. it[(s \ {x}) \ {c}] \in Int /\ f[x] \in Int /\ f[c] \in Int
        BY <1>2, <4>2
      <4>. DEFINE d == it[(s \ {x}) \ {c}]
      <4>4. it[s] = f[c] + (f[x] + d) /\ it[s \ {x}] = f[c] + d
        BY <2>1, <4>1, <4>2
      <4>5. d \in Int /\ f[x] \in Int /\ f[c] \in Int
        BY <4>3
      <4>. HIDE DEF P, d
      <4>. QED
        BY <4>4, <4>5
    <3>. QED
      BY <3>1, <3>2
  <2>. QED
    BY <2>2
<1>4. SUBSET S \subseteq P
  <2>. HIDE DEF P
  <2>. QED
    BY <1>1, <1>3, SubsetInduction
<1>5. S \in P
  BY <1>4
<1>. QED
  BY <1>5

\* A sum depends on the values summed alone.
LEMMA SumAgrees ==
  ASSUME NEW S, NEW f, NEW it, IsSum(f, S, it), NEW R, NEW g, NEW jt, IsSum(g, R, jt),
         NEW s \in SUBSET S, s \in SUBSET R, IsFiniteSet(s), \A x \in s : f[x] = g[x]
  PROVE  it[s] = jt[s]
<1>. DEFINE P == {r \in SUBSET s : it[r] = jt[r]}
<1>1. {} \in P
  BY SumStart
<1>2. ASSUME NEW r \in SUBSET s, r # {}, \A x \in r : r \ {x} \in P
      PROVE  r \in P
  <2>1. r \in SUBSET S /\ r \in SUBSET R
    OBVIOUS
  <2>2. Pick(r) \in r /\ it[r] = f[Pick(r)] + it[r \ {Pick(r)}]
    BY <1>2, <2>1, SumEquation
  <2>3. jt[r] = g[Pick(r)] + jt[r \ {Pick(r)}]
    BY <1>2, <2>1, SumEquation
  <2>. QED
    BY <1>2, <2>2, <2>3
<1>3. SUBSET s \subseteq P
  <2>. HIDE DEF P
  <2>. QED
    BY <1>1, <1>2, SubsetInduction
<1>. QED
  BY <1>3
-----------------------------------------------------------------------------
(* The same said of SumFunctionOnSet. *)

Sum(f, S) == SumFunctionOnSet(f, S)

\* The sum of nothing is 0.
LEMMA SumOfNone == \A f : Sum(f, {}) = 0
<1>. SUFFICES ASSUME NEW f PROVE Sum(f, {}) = 0
  OBVIOUS
<1>1. PICK it : IsSum(f, {}, it) /\ Sum(f, {}) = it[{}]
  BY FS_EmptySet, SumIsFold DEF Sum
<1>. QED
  BY <1>1, SumStart

\* Sums of integers are integers,
LEMMA SumIsInt ==
  ASSUME NEW S, IsFiniteSet(S), NEW f, \A x \in S : f[x] \in Int
  PROVE  Sum(f, S) \in Int
<1>1. PICK it : IsSum(f, S, it) /\ Sum(f, S) = it[S]
  BY SumIsFold DEF Sum
<1>2. \A s \in SUBSET S : it[s] \in Int
  BY <1>1, SumTyped
<1>. QED
  BY <1>1, <1>2

\* and of naturals naturals.
LEMMA SumIsNat ==
  ASSUME NEW S, IsFiniteSet(S), NEW f, \A x \in S : f[x] \in Nat
  PROVE  Sum(f, S) \in Nat
<1>1. PICK it : IsSum(f, S, it) /\ Sum(f, S) = it[S]
  BY SumIsFold DEF Sum
<1>2. \A s \in SUBSET S : it[s] \in Nat
  BY <1>1, SumTyped
<1>. QED
  BY <1>1, <1>2

\* The sum of equal values is equal.
LEMMA SumSame ==
  ASSUME NEW S, IsFiniteSet(S), NEW f, NEW g, \A x \in S : f[x] = g[x]
  PROVE  Sum(f, S) = Sum(g, S)
<1>1. PICK it : IsSum(f, S, it) /\ Sum(f, S) = it[S]
  BY SumIsFold DEF Sum
<1>2. PICK jt : IsSum(g, S, jt) /\ Sum(g, S) = jt[S]
  BY SumIsFold DEF Sum
<1>. QED
  BY <1>1, <1>2, SumAgrees

\* Any element may be added last.
LEMMA SumAdd ==
  ASSUME NEW S, IsFiniteSet(S), NEW f, \A y \in S : f[y] \in Int, NEW x \in S
  PROVE  Sum(f, S) = f[x] + Sum(f, S \ {x})
<1>1. PICK it : IsSum(f, S, it) /\ Sum(f, S) = it[S]
  BY SumIsFold DEF Sum
<1>2. IsFiniteSet(S \ {x})
  BY FS_RemoveElement
<1>3. PICK jt : IsSum(f, S \ {x}, jt) /\ Sum(f, S \ {x}) = jt[S \ {x}]
  BY <1>2, SumIsFold DEF Sum
<1>4. it[S] = f[x] + it[S \ {x}]
  BY <1>1, SumOrder
<1>5. it[S \ {x}] = jt[S \ {x}]
  BY <1>1, <1>2, <1>3, SumAgrees
<1>. QED
  BY <1>1, <1>3, <1>4, <1>5

\* Elements that add nothing may be left out.
LEMMA SumOfRest ==
  ASSUME NEW S, IsFiniteSet(S), NEW f, \A x \in S : f[x] \in Int,
         NEW R \in SUBSET S, \A x \in S \ R : f[x] = 0
  PROVE  Sum(f, S) = Sum(f, R)
<1>. DEFINE P == {s \in SUBSET S : Sum(f, s) = Sum(f, s \cap R)}
<1>1. {} \in P
  <2>1. {} \cap R = {}
    OBVIOUS
  <2>. QED
    BY <2>1
<1>2. ASSUME NEW s \in SUBSET S, s # {}, \A x \in s : s \ {x} \in P
      PROVE  s \in P
  <2>1. PICK x \in s : TRUE
    BY <1>2
  <2>2. IsFiniteSet(s) /\ IsFiniteSet(s \cap R)
    BY FS_Subset
  <2>3. Sum(f, s) = f[x] + Sum(f, s \ {x})
    BY <2>2, SumAdd
  <2>4. Sum(f, s \ {x}) = Sum(f, (s \ {x}) \cap R) /\ f[x] \in Int
    BY <1>2
  <2>5. CASE x \in R
    <3>1. Sum(f, s \cap R) = f[x] + Sum(f, (s \cap R) \ {x})
      BY <2>2, <2>5, SumAdd
    <3>2. (s \cap R) \ {x} = (s \ {x}) \cap R
      OBVIOUS
    <3>. QED
      BY <2>3, <2>4, <3>1, <3>2
  <2>6. CASE x \notin R
    <3>1. (s \ {x}) \cap R = s \cap R
      BY <2>6
    <3>2. f[x] = 0 /\ Sum(f, s \cap R) \in Int
      BY <2>2, <2>6, SumIsInt
    <3>3. Sum(f, s) = 0 + Sum(f, s \cap R)
      BY <2>3, <2>4, <3>1, <3>2
    <3>4. Sum(f, s) = Sum(f, s \cap R)
      BY <3>2, <3>3
    <3>. QED
      BY <3>4
  <2>. QED
    BY <2>5, <2>6
<1>3. SUBSET S \subseteq P
  <2>. HIDE DEF P
  <2>. QED
    BY <1>1, <1>2, SubsetInduction
<1>4. S \cap R = R /\ S \in P
  BY <1>3
<1>. QED
  BY <1>4

\* A sum over two sets that share nothing.
LEMMA SumSplit ==
  ASSUME NEW S, IsFiniteSet(S), NEW f, \A x \in S : f[x] \in Int, NEW R \in SUBSET S
  PROVE  Sum(f, S) = Sum(f, R) + Sum(f, S \ R)
<1>. DEFINE P == {s \in SUBSET S : Sum(f, s) = Sum(f, s \cap R) + Sum(f, s \ R)}
<1>1. {} \in P
  <2>1. {} \cap R = {} /\ {} \ R = {}
    OBVIOUS
  <2>. QED
    BY <2>1, SumOfNone
<1>2. ASSUME NEW s \in SUBSET S, s # {}, \A x \in s : s \ {x} \in P
      PROVE  s \in P
  <2>1. PICK x \in s : TRUE
    BY <1>2
  <2>2. IsFiniteSet(s) /\ IsFiniteSet(s \cap R) /\ IsFiniteSet(s \ R)
    BY FS_Subset
  <2>. DEFINE a == Sum(f, (s \ {x}) \cap R)
              b == Sum(f, (s \ {x}) \ R)
  <2>3. Sum(f, s) = f[x] + (a + b)
    <3>1. Sum(f, s) = f[x] + Sum(f, s \ {x})
      BY <2>2, SumAdd
    <3>. QED
      BY <1>2, <3>1
  <2>4. f[x] \in Int /\ a \in Int /\ b \in Int
    <3>1. /\ IsFiniteSet((s \ {x}) \cap R) /\ (s \ {x}) \cap R \in SUBSET S
          /\ IsFiniteSet((s \ {x}) \ R) /\ (s \ {x}) \ R \in SUBSET S
      BY FS_Subset
    <3>. QED
      BY <3>1, SumIsInt
  <2>. HIDE DEF a, b
  <2>5. CASE x \in R
    <3>1. Sum(f, s \cap R) = f[x] + Sum(f, (s \cap R) \ {x})
      BY <2>2, <2>5, SumAdd
    <3>2. (s \cap R) \ {x} = (s \ {x}) \cap R /\ s \ R = (s \ {x}) \ R
      BY <2>5
    <3>3. Sum(f, s \cap R) = f[x] + a /\ Sum(f, s \ R) = b
      BY <3>1, <3>2 DEF a, b
    <3>. QED
      BY <2>3, <2>4, <3>3
  <2>6. CASE x \notin R
    <3>1. Sum(f, s \ R) = f[x] + Sum(f, (s \ R) \ {x})
      BY <2>2, <2>6, SumAdd
    <3>2. (s \ R) \ {x} = (s \ {x}) \ R /\ s \cap R = (s \ {x}) \cap R
      BY <2>6
    <3>3. Sum(f, s \ R) = f[x] + b /\ Sum(f, s \cap R) = a
      BY <3>1, <3>2 DEF a, b
    <3>. QED
      BY <2>3, <2>4, <3>3
  <2>. QED
    BY <2>5, <2>6
<1>3. SUBSET S \subseteq P
  <2>. HIDE DEF P
  <2>. QED
    BY <1>1, <1>2, SubsetInduction
<1>4. S \cap R = R /\ S \in P
  BY <1>3
<1>. QED
  BY <1>4

\* The sum of sums of two functions.
LEMMA SumOfBoth ==
  ASSUME NEW S, IsFiniteSet(S), NEW f, NEW g, NEW h,
         \A x \in S : f[x] \in Int /\ g[x] \in Int /\ h[x] = f[x] + g[x]
  PROVE  Sum(h, S) = Sum(f, S) + Sum(g, S)
<1>. DEFINE P == {s \in SUBSET S : Sum(h, s) = Sum(f, s) + Sum(g, s)}
<1>1. {} \in P
  BY SumOfNone
<1>2. ASSUME NEW s \in SUBSET S, s # {}, \A x \in s : s \ {x} \in P
      PROVE  s \in P
  <2>1. PICK x \in s : TRUE
    BY <1>2
  <2>2. IsFiniteSet(s) /\ IsFiniteSet(s \ {x}) /\ \A y \in s : h[y] \in Int
    BY FS_Subset
  <2>. DEFINE a == Sum(f, s \ {x})
              b == Sum(g, s \ {x})
  <2>3. Sum(f, s) = f[x] + a /\ Sum(g, s) = g[x] + b
    BY <2>2, SumAdd
  <2>4. Sum(h, s) = h[x] + Sum(h, s \ {x})
    BY <2>2, SumAdd
  <2>5. Sum(h, s \ {x}) = a + b
    BY <1>2
  <2>6. a \in Int /\ b \in Int /\ f[x] \in Int /\ g[x] \in Int /\ h[x] = f[x] + g[x]
    BY <2>2, SumIsInt
  <2>. HIDE DEF a, b
  <2>. QED
    BY <2>3, <2>4, <2>5, <2>6
<1>3. SUBSET S \subseteq P
  <2>. HIDE DEF P
  <2>. QED
    BY <1>1, <1>2, SubsetInduction
<1>. QED
  BY <1>3

\* One value that changes changes the sum by as much.
LEMMA SumOfChanged ==
  ASSUME NEW S, IsFiniteSet(S), NEW f, \A y \in S : f[y] \in Int,
         NEW g, NEW x \in S, g[x] \in Int, \A y \in S \ {x} : g[y] = f[y]
  PROVE  Sum(g, S) = Sum(f, S) + (g[x] - f[x])
<1>1. IsFiniteSet(S \ {x}) /\ \A y \in S : g[y] \in Int
  BY FS_RemoveElement
<1>2. Sum(g, S) = g[x] + Sum(g, S \ {x}) /\ Sum(f, S) = f[x] + Sum(f, S \ {x})
  BY <1>1, SumAdd
<1>3. Sum(g, S \ {x}) = Sum(f, S \ {x}) /\ Sum(f, S \ {x}) \in Int
  BY <1>1, SumSame, SumIsInt
<1>. QED
  BY <1>2, <1>3

-----------------------------------------------------------------------------
(* The inductive invariant. *)

\* What was consumed in some windows while certain sets of shots ran together;
\* Spent is what a shot and those that ran with it consumed, in all windows.
SpentBy(crowds, windows) ==
    Sum([w \in windows |-> Sum(consumed[w], crowds)], windows)
With(shot) == {together \in SUBSET Shots : shot \in together}
Spent(shot) == SpentBy(With(shot), Windows)

Only(shot, phase, i) == Phase(shot, phase) = {i}

MeterTypeOK ==
    /\ log \in Seq(Snapshot) /\ Len(log) <= RowBound
    /\ left \in [Scopes -> 0 .. Quota]
    /\ resets \in [Scopes -> Nat]
    /\ stage \in [Shots -> {"idle", "running", "ended"}]
    /\ consumed \in [Windows -> [SUBSET Shots -> Nat]]

\* A shot is not observed before it starts, nor is its end before it ends; so a
\* record of which there is one only was made when it says.
StagesMatch ==
    \A s \in Shots :
        /\ stage[s] = "idle" => Rows(s) = {}
        /\ stage[s] = "running" => Phase(s, "end") = {}

IntervalsPast ==
    \A i \in 1 .. Len(log) : log[i].interval <= resets[ScopeOf[log[i].shot]]

\* Shots consumed together only while each of them ran, between the records of
\* its start and its end, and on one scope.
Together(w, crowd) ==
    /\ w <= WindowOf(Len(log))
    /\ \A s \in crowd :
        /\ stage[s] # "idle"
        /\ \A i \in Nat : Only(s, "start", i) => WindowOf(i) <= w
        /\ \A j \in Nat : Only(s, "end", j) => w <= WindowOf(j - 1)
        /\ \A t \in crowd :
            /\ ScopeOf[t] = ScopeOf[s]
            /\ \A i, j \in Nat : Only(t, "start", i) /\ Only(s, "end", j) => i < j
ConsumedWhileRunning ==
    \A w \in Windows, crowd \in SUBSET Shots :
        consumed[w][crowd] # 0 => Together(w, crowd)

\* Between the only record of a start and now, or the only record of the end,
\* a quota that was not reset has lost what the shot and others with it spent.
RunningAccount(s) ==
    \A i \in Nat :
        /\ stage[s] = "running" /\ Only(s, "start", i)
        /\ log[i].interval = resets[ScopeOf[s]]
        => log[i].left - left[ScopeOf[s]] = Spent(s)
EndedAccount(s) ==
    \A i, j \in Nat :
        /\ Only(s, "start", i) /\ Only(s, "end", j)
        /\ log[i].interval = log[j].interval
        => log[i].left - log[j].left = Spent(s)
Accounts == \A s \in Shots : RunningAccount(s) /\ EndedAccount(s)

MeterInv ==
    MeterTypeOK /\ StagesMatch /\ IntervalsPast /\ ConsumedWhileRunning /\ Accounts
-----------------------------------------------------------------------------
(* Windows. *)

\* A window holds Width times.
LEMMA WindowSpan ==
  ASSUME NEW i \in Int
  PROVE  /\ WindowOf(i) \in Int
         /\ Width * WindowOf(i) <= i - 1 /\ i - 1 < Width * WindowOf(i) + Width
<1>1. Width \in Nat \ {0} /\ i - 1 \in Int
  BY MeterAssumption
<1>. QED
  BY <1>1 DEF WindowOf

\* Later times are in later windows.
LEMMA WindowOrder ==
  ASSUME NEW i \in Int, NEW j \in Int, i <= j
  PROVE  WindowOf(i) <= WindowOf(j)
<1>1. Width \in Nat \ {0}
  BY MeterAssumption
<1>. QED
  BY <1>1 DEF WindowOf

\* There are finitely many windows, and every observation falls into one.
LEMMA WindowsFinite ==
  /\ IsFiniteSet(Windows) /\ Windows \subseteq Int
  /\ \A n \in 0 .. RowBound : WindowOf(n) \in Windows
<1>1. RowBound \in Nat
  BY MeterAssumption
<1>2. WindowOf(0) \in Int /\ WindowOf(RowBound) \in Int
  BY <1>1, WindowSpan
<1>3. IsFiniteSet(Windows) /\ Windows \subseteq Int
  BY <1>2, FS_Interval DEF Windows
<1>4. ASSUME NEW n \in 0 .. RowBound
      PROVE  WindowOf(n) \in Windows
  <2>1. n \in Int /\ 0 <= n /\ n <= RowBound
    BY <1>1
  <2>2. /\ WindowOf(0) <= WindowOf(n) /\ WindowOf(n) <= WindowOf(RowBound)
        /\ WindowOf(n) \in Int
    BY <1>1, <2>1, WindowOrder, WindowSpan
  <2>. QED
    BY <1>2, <2>2 DEF Windows
<1>. QED
  BY <1>3, <1>4

\* There are finitely many sets of shots.
LEMMA CrowdsFinite ==
  /\ IsFiniteSet(SUBSET Shots)
  /\ \A crowds \in SUBSET (SUBSET Shots) : IsFiniteSet(crowds)
<1>1. IsFiniteSet(Shots)
  BY MeterAssumption
<1>2. IsFiniteSet(SUBSET Shots)
  BY <1>1, FS_SUBSET
<1>. QED
  BY <1>2, FS_Subset

\* What was consumed is a number.
LEMMA SpentTyped ==
  ASSUME MeterTypeOK, NEW crowds \in SUBSET (SUBSET Shots), NEW windows \in SUBSET Windows
  PROVE  /\ \A w \in Windows : Sum(consumed[w], crowds) \in Nat
         /\ SpentBy(crowds, windows) \in Nat
<1>1. IsFiniteSet(crowds) /\ IsFiniteSet(windows)
  BY CrowdsFinite, WindowsFinite, FS_Subset
<1>2. ASSUME NEW w \in Windows
      PROVE  Sum(consumed[w], crowds) \in Nat
  <2>1. \A c \in crowds : consumed[w][c] \in Nat
    BY DEF MeterTypeOK
  <2>. QED
    BY <1>1, <2>1, SumIsNat
<1>. DEFINE f == [w \in windows |-> Sum(consumed[w], crowds)]
<1>3. \A w \in windows : f[w] \in Nat
  BY <1>2
<1>4. Sum(f, windows) \in Nat
  <2>. HIDE DEF f
  <2>. QED
    BY <1>1, <1>3, SumIsNat
<1>. QED
  BY <1>2, <1>4 DEF SpentBy
-----------------------------------------------------------------------------
(* The steps. *)


\* What record_snapshot appends is an observation of the present.
LEMMA RecordedRow ==
  ASSUME MeterTypeOK, NEW shot \in Shots, NEW phase \in {"start", "end", "checkpoint"},
         NEW quality \in Qualities, RecordSnapshot(shot, phase, quality)
  PROVE  /\ log' \in Seq(Snapshot) /\ Len(log') = Len(log) + 1 /\ Len(log') <= RowBound
         /\ \A i \in 1 .. Len(log) : log'[i] = log[i]
         /\ log'[Len(log) + 1].shot = shot /\ log'[Len(log) + 1].phase = phase
         /\ log'[Len(log) + 1].left = left[ScopeOf[shot]]
         /\ log'[Len(log) + 1].interval = resets[ScopeOf[shot]]
<1>. DEFINE e == [shot |-> shot, phase |-> phase, left |-> left[ScopeOf[shot]],
                  interval |-> resets[ScopeOf[shot]], quality |-> quality]
<1>1. log \in Seq(Snapshot) /\ log' = Append(log, e) /\ Len(log) < RowBound
  BY DEF MeterTypeOK, RecordSnapshot
<1>2. /\ ScopeOf[shot] \in Scopes
      /\ quality \in {"measured", "estimated", "unknown", "untimed"}
  BY MeterAssumption
<1>3. left[ScopeOf[shot]] \in 0 .. Quota /\ resets[ScopeOf[shot]] \in Nat
  BY <1>2 DEF MeterTypeOK
<1>4. e \in Snapshot
  BY <1>2, <1>3, Zenon DEF Snapshot
<1>5. /\ e.shot = shot /\ e.phase = phase /\ e.left = left[ScopeOf[shot]]
      /\ e.interval = resets[ScopeOf[shot]]
  OBVIOUS
<1>. HIDE DEF e
<1>6. RowBound \in Nat
  BY MeterAssumption
<1>7. /\ Len(log') = Len(log) + 1 /\ log'[Len(log) + 1] = e /\ log' \in Seq(Snapshot)
      /\ \A i \in 1 .. Len(log) : log'[i] = log[i]
  BY <1>1, <1>4
<1>8. Len(log') <= RowBound
  BY <1>1, <1>6, <1>7
<1>. QED
  BY <1>5, <1>7, <1>8

\* The rows of a shot after that.
LEMMA RecordedPhases ==
  ASSUME MeterTypeOK, NEW shot \in Shots, NEW phase \in {"start", "end", "checkpoint"},
         NEW quality \in Qualities, RecordSnapshot(shot, phase, quality)
  PROVE  /\ \A s : s # shot => (Rows(s)' = Rows(s) /\ \A f : Phase(s, f)' = Phase(s, f))
         /\ \A f : f # phase => Phase(shot, f)' = Phase(shot, f)
         /\ Phase(shot, phase)' = Phase(shot, phase) \cup {Len(log) + 1}
<1>. DEFINE n == Len(log)
<1>1. /\ n \in Nat /\ Len(log') = n + 1
      /\ \A i \in 1 .. n : log'[i] = log[i]
      /\ log'[n + 1].shot = shot /\ log'[n + 1].phase = phase
  <2>1. n \in Nat
    BY DEF MeterTypeOK
  <2>. QED
    BY <2>1, RecordedRow
<1>. HIDE DEF n
<1>2. /\ Len(log) = n /\ 1 .. Len(log') = (1 .. n) \cup {n + 1} /\ n + 1 \notin 1 .. n
  BY <1>1 DEF n
<1>3. ASSUME NEW s
      PROVE  Rows(s)' = {i \in 1 .. n : log[i].shot = s} \cup
                        {i \in {n + 1} : shot = s}
  BY <1>1, <1>2 DEF Rows
<1>4. ASSUME NEW s, NEW f
      PROVE  Phase(s, f)' = Phase(s, f) \cup {i \in {n + 1} : shot = s /\ phase = f}
  BY <1>1, <1>2, <1>3 DEF Phase, Rows
<1>5. ASSUME NEW s, s # shot
      PROVE  Rows(s)' = Rows(s) /\ \A f : Phase(s, f)' = Phase(s, f)
  <2>1. Rows(s)' = {i \in 1 .. n : log[i].shot = s}
    BY <1>3, <1>5
  <2>2. ASSUME NEW f
        PROVE  Phase(s, f)' = Phase(s, f)
    BY <1>4, <1>5
  <2>. QED
    BY <1>2, <2>1, <2>2 DEF Rows
<1>6. ASSUME NEW f, f # phase
      PROVE  Phase(shot, f)' = Phase(shot, f)
  BY <1>4, <1>6
<1>7. Phase(shot, phase)' = Phase(shot, phase) \cup {n + 1}
  BY <1>4
<1>. QED
  BY <1>2, <1>5, <1>6, <1>7


\* The rows of a shot are places in the log.
LEMMA RowsTyped ==
  ASSUME MeterTypeOK, NEW s
  PROVE  /\ Len(log) \in Nat /\ Rows(s) \subseteq 1 .. Len(log)
         /\ \A f : Phase(s, f) \subseteq Rows(s)
         /\ \A f, i : Only(s, f, i) => i \in 1 .. Len(log) /\ i \in Rows(s)
  BY DEF MeterTypeOK, Rows, Phase, Only

\* A record is the only one of its kind, or leaves the only ones as they are.
LEMMA RecordedOnly ==
  ASSUME MeterTypeOK, NEW shot \in Shots, NEW phase \in {"start", "end", "checkpoint"},
         NEW quality \in Qualities, RecordSnapshot(shot, phase, quality),
         NEW s, NEW f, NEW i, Only(s, f, i)'
  PROVE  \/ Only(s, f, i) /\ log'[i] = log[i]
         \/ s = shot /\ f = phase /\ i = Len(log) + 1 /\ Phase(s, f) = {}
<1>1. Phase(s, f)' = {i}
  BY DEF Only
<1>2. \A j \in 1 .. Len(log) : log'[j] = log[j]
  BY RecordedRow
<1>3. Len(log) \in Nat /\ Phase(s, f) \subseteq 1 .. Len(log)
  BY RowsTyped
<1>4. CASE s = shot /\ f = phase
  <2>1. Phase(s, f) \cup {Len(log) + 1} = {i}
    BY <1>1, <1>4, RecordedPhases
  <2>2. i = Len(log) + 1 /\ Phase(s, f) \subseteq {i}
    BY <2>1
  <2>3. i \notin Phase(s, f)
    BY <1>3, <2>2
  <2>. QED
    BY <1>4, <2>2, <2>3
<1>5. CASE s # shot \/ f # phase
  <2>1. Phase(s, f) = {i}
    BY <1>1, <1>5, RecordedPhases
  <2>. QED
    BY <1>2, <1>3, <2>1 DEF Only
<1>. QED
  BY <1>4, <1>5

\* How a step may change stages, and what it may be recorded as.
Stages ==
    \A s \in Shots : \/ stage'[s] = stage[s]
                     \/ stage[s] = "idle" /\ stage'[s] = "running"
                     \/ stage[s] = "running" /\ stage'[s] = "ended"
Fitting(shot, phase) ==
    \/ phase = "start" /\ stage[shot] = "idle" /\ stage'[shot] = "running"
    \/ phase = "end" /\ stage[shot] = "running" /\ stage'[shot] = "ended"
    \/ phase = "checkpoint" /\ stage[shot] = "running"
    \/ Phase(shot, phase) # {}

\* A step of a shot records nothing, or something that fits.
LEMMA ShotSteps ==
  ASSUME MeterTypeOK, NEW shot \in Shots,
         \/ StartShot(shot) \/ EndShot(shot) \/ Checkpoint(shot)
         \/ RecordAgain(shot, "start") \/ RecordAgain(shot, "end")
  PROVE  /\ UNCHANGED <<left, resets, consumed>> /\ Stages
         /\ stage' \in [Shots -> {"idle", "running", "ended"}]
         /\ \/ log' = log
            \/ \E phase \in {"start", "end", "checkpoint"}, quality \in Qualities :
                   RecordSnapshot(shot, phase, quality) /\ Fitting(shot, phase)
<1>1. CASE StartShot(shot)
  BY <1>1 DEF StartShot, Observed, RecordSnapshot, Stages, Fitting, MeterTypeOK
<1>2. CASE EndShot(shot)
  BY <1>2 DEF EndShot, Observed, RecordSnapshot, Stages, Fitting, MeterTypeOK
<1>3. CASE Checkpoint(shot)
  BY <1>3 DEF Checkpoint, RecordSnapshot, Stages, Fitting, MeterTypeOK
<1>4. ASSUME NEW phase \in {"start", "end"}, RecordAgain(shot, phase)
      PROVE  /\ UNCHANGED <<left, resets, consumed>> /\ stage' = stage
             /\ \E quality \in Qualities :
                    RecordSnapshot(shot, phase, quality) /\ Fitting(shot, phase)
  BY <1>4 DEF RecordAgain, RecordSnapshot, Fitting
<1>5. stage' = stage => Stages /\ stage' \in [Shots -> {"idle", "running", "ended"}]
  BY DEF Stages, MeterTypeOK
<1>. QED
  BY <1>1, <1>2, <1>3, <1>4, <1>5

\* What a step of a shot, observed or not, does to the only observations of the
\* starts and ends of the shots: it leaves them, or makes one of its own.
Kept(s, phase, i) == Only(s, phase, i) /\ log'[i] = log[i]
Made(s, i) ==
    /\ i = Len(log) + 1
    /\ log'[i].left = left[ScopeOf[s]] /\ log'[i].interval = resets[ScopeOf[s]]

\* So a step of a shot keeps the simple parts of the invariant, and makes a start
\* or an end the only one when the shot starts or ends, or not at all.
LEMMA ShotEffect ==
  ASSUME MeterInv, NEW shot \in Shots,
         \/ StartShot(shot) \/ EndShot(shot) \/ Checkpoint(shot)
         \/ RecordAgain(shot, "start") \/ RecordAgain(shot, "end")
  PROVE  /\ MeterTypeOK' /\ StagesMatch' /\ IntervalsPast'
         /\ Len(log) <= Len(log') /\ UNCHANGED <<left, resets, consumed>> /\ Stages
         /\ \A s \in Shots : \A i : Only(s, "start", i)' =>
                Kept(s, "start", i) \/ (Made(s, i) /\ stage[s] = "idle")
         /\ \A s \in Shots : \A j : Only(s, "end", j)' =>
                Kept(s, "end", j) \/ (Made(s, j) /\ stage[s] = "running")
<1>1. MeterTypeOK /\ StagesMatch /\ IntervalsPast
  BY DEF MeterInv
<1>2. /\ UNCHANGED <<left, resets, consumed>> /\ Stages
      /\ stage' \in [Shots -> {"idle", "running", "ended"}]
      /\ \/ log' = log
         \/ \E phase \in {"start", "end", "checkpoint"}, quality \in Qualities :
                RecordSnapshot(shot, phase, quality) /\ Fitting(shot, phase)
  BY <1>1, ShotSteps
<1>3. CASE log' = log
  <2>1. /\ \A s : Rows(s)' = Rows(s) /\ \A f : Phase(s, f)' = Phase(s, f)
        /\ \A s, f, i : Only(s, f, i)' => Only(s, f, i)
    BY <1>3 DEF Rows, Phase, Only
  <2>2. MeterTypeOK' /\ Len(log) <= Len(log')
    <3>1. MeterTypeOK'
      BY <1>1, <1>2, <1>3, Zenon DEF MeterTypeOK
    <3>2. Len(log) \in Nat
      BY <1>1, RowsTyped
    <3>. QED
      BY <1>3, <3>1, <3>2
  <2>3. StagesMatch'
    <3>1. ASSUME NEW s \in Shots
          PROVE  /\ stage'[s] = "idle" => Rows(s) = {}
                 /\ stage'[s] = "running" => Phase(s, "end") = {}
      <4>1. \/ stage'[s] = stage[s]
            \/ stage[s] = "idle" /\ stage'[s] = "running"
            \/ stage[s] = "running" /\ stage'[s] = "ended"
        BY <1>2 DEF Stages
      <4>2. Phase(s, "end") \subseteq Rows(s)
        BY <1>1, RowsTyped
      <4>. QED
        BY <1>1, <4>1, <4>2 DEF StagesMatch
    <3>. QED
      BY <2>1, <3>1 DEF StagesMatch
  <2>4. IntervalsPast'
    BY <1>1, <1>2, <1>3 DEF IntervalsPast
  <2>. QED
    BY <1>2, <1>3, <2>1, <2>2, <2>3, <2>4 DEF Kept
<1>4. ASSUME NEW phase \in {"start", "end", "checkpoint"}, NEW quality \in Qualities,
             RecordSnapshot(shot, phase, quality), Fitting(shot, phase)
      PROVE  /\ MeterTypeOK' /\ StagesMatch' /\ IntervalsPast' /\ Len(log) <= Len(log')
             /\ \A s \in Shots : \A i : Only(s, "start", i)' =>
                    Kept(s, "start", i) \/ (Made(s, i) /\ stage[s] = "idle")
             /\ \A s \in Shots : \A j : Only(s, "end", j)' =>
                    Kept(s, "end", j) \/ (Made(s, j) /\ stage[s] = "running")
  <2>. DEFINE n == Len(log)
  <2>1. /\ n \in Nat /\ log' \in Seq(Snapshot) /\ Len(log') = n + 1 /\ Len(log') <= RowBound
        /\ \A i \in 1 .. n : log'[i] = log[i]
        /\ log'[n + 1].shot = shot /\ log'[n + 1].phase = phase
        /\ log'[n + 1].left = left[ScopeOf[shot]]
        /\ log'[n + 1].interval = resets[ScopeOf[shot]]
    BY <1>1, <1>4, RecordedRow, RowsTyped
  <2>2. MeterTypeOK' /\ n <= Len(log')
    <3>1. /\ left' \in [Scopes -> 0 .. Quota] /\ resets' \in [Scopes -> Nat]
          /\ consumed' \in [Windows -> [SUBSET Shots -> Nat]]
      BY <1>1, <1>2, Zenon DEF MeterTypeOK
    <3>2. MeterTypeOK'
      BY <1>2, <2>1, <3>1, Zenon DEF MeterTypeOK
    <3>. QED
      BY <2>1, <3>2
  <2>3. StagesMatch'
    <3>1. ASSUME NEW s \in Shots
          PROVE  /\ stage'[s] = "idle" => Rows(s)' = {}
                 /\ stage'[s] = "running" => Phase(s, "end")' = {}
      <4>1. \/ stage'[s] = stage[s]
            \/ stage[s] = "idle" /\ stage'[s] = "running"
            \/ stage[s] = "running" /\ stage'[s] = "ended"
        BY <1>2 DEF Stages
      <4>2. Phase(s, "end") \subseteq Rows(s) /\ Phase(s, phase) \subseteq Rows(s)
        BY <1>1, RowsTyped
      <4>3. /\ stage'[s] = "idle" => Rows(s) = {}
            /\ stage'[s] = "running" => Phase(s, "end") = {}
        BY <1>1, <4>1, <4>2 DEF StagesMatch
      <4>4. CASE s # shot
        BY <1>1, <1>4, <4>3, <4>4, RecordedPhases
      <4>5. CASE s = shot
        <5>1. stage[s] # "idle" \/ (phase = "start" /\ stage'[s] = "running")
          BY <1>1, <1>4, <4>2, <4>5 DEF Fitting, StagesMatch
        <5>2. stage'[s] # "idle"
          BY <4>1, <5>1
        <5>3. ASSUME stage'[s] = "running"
              PROVE  phase # "end"
          BY <1>4, <4>3, <4>5, <5>3 DEF Fitting
        <5>4. phase # "end" => Phase(s, "end")' = Phase(s, "end")
          BY <1>1, <1>4, <4>5, RecordedPhases
        <5>. QED
          BY <4>3, <5>2, <5>3, <5>4
      <4>. QED
        BY <4>4, <4>5
    <3>. QED
      BY <3>1 DEF StagesMatch
  <2>4. IntervalsPast'
    <3>1. ASSUME NEW i \in 1 .. n + 1
          PROVE  log'[i].interval <= resets[ScopeOf[log'[i].shot]]
      <4>1. CASE i \in 1 .. n
        BY <1>1, <2>1, <4>1 DEF IntervalsPast
      <4>2. CASE i = n + 1
        <5>1. ScopeOf[shot] \in Scopes
          BY MeterAssumption
        <5>2. resets[ScopeOf[shot]] \in Nat
          BY <1>1, <5>1 DEF MeterTypeOK
        <5>. QED
          BY <2>1, <4>2, <5>2
      <4>. QED
        BY <2>1, <4>1, <4>2
    <3>. QED
      BY <1>2, <2>1, <3>1 DEF IntervalsPast
  <2>5. ASSUME NEW s \in Shots, NEW f, NEW i, Only(s, f, i)'
        PROVE  \/ Kept(s, f, i)
               \/ Made(s, i) /\ s = shot /\ f = phase /\ Phase(s, f) = {}
    <3>1. \/ Only(s, f, i) /\ log'[i] = log[i]
          \/ s = shot /\ f = phase /\ i = Len(log) + 1 /\ Phase(s, f) = {}
      BY <1>1, <1>4, <2>5, RecordedOnly
    <3>. QED
      BY <2>1, <3>1 DEF Kept, Made
  <2>6. phase = "start" /\ Phase(shot, phase) = {} => stage[shot] = "idle"
    BY <1>4 DEF Fitting
  <2>7. phase = "end" /\ Phase(shot, phase) = {} => stage[shot] = "running"
    BY <1>4 DEF Fitting
  <2>. QED
    BY <2>2, <2>3, <2>4, <2>5, <2>6, <2>7
<1>. QED
  BY <1>2, <1>3, <1>4

\* Nothing is consumed with a shot that has not started.
LEMMA IdleSpendsNothing ==
  ASSUME MeterTypeOK, ConsumedWhileRunning, NEW s \in Shots, stage[s] = "idle"
  PROVE  Spent(s) = 0
<1>1. IsFiniteSet(With(s)) /\ With(s) \in SUBSET (SUBSET Shots) /\ IsFiniteSet(Windows)
  BY CrowdsFinite, WindowsFinite DEF With
<1>2. ASSUME NEW w \in Windows
      PROVE  Sum(consumed[w], With(s)) = 0
  <2>1. ASSUME NEW c \in With(s)
        PROVE  consumed[w][c] \in Int /\ consumed[w][c] = 0
    <3>1. c \in SUBSET Shots /\ s \in c
      BY DEF With
    <3>2. ~Together(w, c)
      BY <3>1 DEF Together
    <3>3. consumed[w][c] = 0
      BY <3>1, <3>2 DEF ConsumedWhileRunning
    <3>. QED
      BY <3>3
  <2>2. Sum(consumed[w], With(s)) = Sum(consumed[w], {})
    BY <1>1, <2>1, SumOfRest
  <2>. QED
    BY <2>2, SumOfNone
<1>. DEFINE f == [w \in Windows |-> Sum(consumed[w], With(s))]
<1>3. \A w \in Windows : f[w] \in Int /\ f[w] = 0
  BY <1>2
<1>4. Sum(f, Windows) = 0
  <2>. HIDE DEF f
  <2>1. Sum(f, Windows) = Sum(f, {})
    BY <1>1, <1>3, SumOfRest
  <2>. QED
    BY <2>1, SumOfNone
<1>. QED
  BY <1>4 DEF Spent, SpentBy

\* What was consumed while shots ran lies between the records that are still to come.
LEMMA ShotKeepsConsumed ==
  ASSUME MeterInv, NEW shot \in Shots,
         \/ StartShot(shot) \/ EndShot(shot) \/ Checkpoint(shot)
         \/ RecordAgain(shot, "start") \/ RecordAgain(shot, "end")
  PROVE  ConsumedWhileRunning'
<1>1. MeterTypeOK /\ ConsumedWhileRunning
  BY DEF MeterInv
<1>2. /\ Len(log) <= Len(log') /\ consumed' = consumed /\ Stages /\ MeterTypeOK'
      /\ \A s \in Shots : \A i : Only(s, "start", i)' =>
             Kept(s, "start", i) \/ (Made(s, i) /\ stage[s] = "idle")
      /\ \A s \in Shots : \A j : Only(s, "end", j)' =>
             Kept(s, "end", j) \/ (Made(s, j) /\ stage[s] = "running")
  BY ShotEffect
<1>3. Len(log) \in Nat /\ Len(log') \in Nat
  BY <1>1, <1>2 DEF MeterTypeOK
<1>4. ASSUME NEW w \in Windows, NEW crowd \in SUBSET Shots, consumed[w][crowd] # 0
      PROVE  /\ w <= WindowOf(Len(log'))
             /\ \A s \in crowd :
                 /\ stage'[s] # "idle"
                 /\ \A i \in Nat : Only(s, "start", i)' => WindowOf(i) <= w
                 /\ \A j \in Nat : Only(s, "end", j)' => w <= WindowOf(j - 1)
                 /\ \A t \in crowd :
                     /\ ScopeOf[t] = ScopeOf[s]
                     /\ \A i, j \in Nat :
                            Only(t, "start", i)' /\ Only(s, "end", j)' => i < j
  <2>1. Together(w, crowd)
    BY <1>1, <1>4 DEF ConsumedWhileRunning
  <2>2. w <= WindowOf(Len(log)) /\ w \in Int
    BY <2>1, WindowsFinite DEF Together
  <2>3. w <= WindowOf(Len(log'))
    BY <1>2, <1>3, <2>2, WindowOrder, WindowSpan
  <2>4. ASSUME NEW s \in crowd
        PROVE  stage[s] # "idle" /\ stage'[s] # "idle"
    BY <1>2, <2>1, <2>4 DEF Stages, Together
  <2>5. ASSUME NEW s \in crowd, NEW i \in Nat, Only(s, "start", i)'
        PROVE  Only(s, "start", i) /\ i <= Len(log)
    <3>1. Only(s, "start", i)
      BY <1>2, <2>4, <2>5 DEF Kept
    <3>2. i \in 1 .. Len(log)
      BY <1>1, <3>1, RowsTyped
    <3>. QED
      BY <3>1, <3>2
  <2>6. ASSUME NEW s \in crowd, NEW j \in Nat, Only(s, "end", j)'
        PROVE  Only(s, "end", j) \/ j = Len(log) + 1
    BY <1>2, <2>6 DEF Kept, Made
  <2>7. ASSUME NEW s \in crowd, NEW j \in Nat, Only(s, "end", j)'
        PROVE  w <= WindowOf(j - 1)
    <3>1. CASE Only(s, "end", j)
      BY <2>1, <3>1 DEF Together
    <3>2. CASE j = Len(log) + 1
      <4>1. j - 1 = Len(log)
        BY <1>3, <3>2
      <4>. QED
        BY <2>2, <4>1
    <3>. QED
      BY <2>6, <2>7, <3>1, <3>2
  <2>8. ASSUME NEW s \in crowd, NEW t \in crowd, NEW i \in Nat, NEW j \in Nat,
               Only(t, "start", i)', Only(s, "end", j)'
        PROVE  i < j
    <3>1. Only(t, "start", i) /\ i <= Len(log)
      BY <2>5, <2>8
    <3>2. CASE Only(s, "end", j)
      BY <2>1, <3>1, <3>2 DEF Together
    <3>3. CASE j = Len(log) + 1
      BY <1>3, <3>1, <3>3
    <3>. QED
      BY <2>6, <2>8, <3>2, <3>3
  <2>9. \A s \in crowd, t \in crowd : ScopeOf[t] = ScopeOf[s]
    BY <2>1 DEF Together
  <2>10. \A s \in crowd, i \in Nat : Only(s, "start", i)' => WindowOf(i) <= w
    BY <2>1, <2>5 DEF Together
  <2>. QED
    BY <2>3, <2>4, <2>7, <2>8, <2>9, <2>10
<1>. QED
  BY <1>2, <1>4 DEF ConsumedWhileRunning, Together

\* A level that is observed is the one the account is kept from.
LEMMA ShotKeepsAccounts ==
  ASSUME MeterInv, NEW shot \in Shots,
         \/ StartShot(shot) \/ EndShot(shot) \/ Checkpoint(shot)
         \/ RecordAgain(shot, "start") \/ RecordAgain(shot, "end")
  PROVE  Accounts'
<1>1. MeterTypeOK /\ StagesMatch /\ ConsumedWhileRunning /\ Accounts
  BY DEF MeterInv
<1>2. /\ left' = left /\ resets' = resets /\ consumed' = consumed /\ Stages
      /\ \A s \in Shots : \A i : Only(s, "start", i)' =>
             Kept(s, "start", i) \/ (Made(s, i) /\ stage[s] = "idle")
      /\ \A s \in Shots : \A j : Only(s, "end", j)' =>
             Kept(s, "end", j) \/ (Made(s, j) /\ stage[s] = "running")
  BY ShotEffect
<1>3. ASSUME NEW s \in Shots
      PROVE  /\ Spent(s)' = Spent(s)
             /\ ScopeOf[s] \in Scopes /\ left[ScopeOf[s]] \in 0 .. Quota
             /\ stage[s] = "idle" => Spent(s) = 0
             /\ stage[s] = "idle" => \A f, i : ~Only(s, f, i)
             /\ stage[s] = "running" => \A j : ~Only(s, "end", j)
  <2>1. Spent(s)' = Spent(s)
    BY <1>2 DEF Spent, SpentBy
  <2>2. ScopeOf[s] \in Scopes /\ left[ScopeOf[s]] \in 0 .. Quota
    BY <1>1, MeterAssumption DEF MeterTypeOK
  <2>3. stage[s] = "idle" => Spent(s) = 0
    BY <1>1, IdleSpendsNothing
  <2>4. stage[s] = "idle" => \A f, i : ~Only(s, f, i)
    BY <1>1, RowsTyped DEF StagesMatch
  <2>5. stage[s] = "running" => \A j : ~Only(s, "end", j)
    BY <1>1 DEF StagesMatch, Only
  <2>. QED
    BY <2>1, <2>2, <2>3, <2>4, <2>5
<1>4. ASSUME NEW s \in Shots
      PROVE  RunningAccount(s)'
  <2>1. ASSUME NEW i \in Nat, stage'[s] = "running", Only(s, "start", i)',
               log'[i].interval = resets'[ScopeOf[s]]
        PROVE  log'[i].left - left'[ScopeOf[s]] = Spent(s)'
    <3>1. CASE Kept(s, "start", i)
      <4>1. stage[s] = "running"
        BY <1>2, <1>3, <2>1, <3>1 DEF Stages, Kept
      <4>. QED
        BY <1>1, <1>2, <1>3, <2>1, <3>1, <4>1 DEF Accounts, RunningAccount, Kept
    <3>2. CASE Made(s, i) /\ stage[s] = "idle"
      <4>1. log'[i].left = left[ScopeOf[s]] /\ Spent(s) = 0
        BY <1>3, <3>2 DEF Made
      <4>2. left[ScopeOf[s]] \in Int
        BY <1>3
      <4>. QED
        BY <1>2, <1>3, <4>1, <4>2
    <3>. QED
      BY <1>2, <2>1, <3>1, <3>2
  <2>. QED
    BY <2>1 DEF RunningAccount
<1>5. ASSUME NEW s \in Shots
      PROVE  EndedAccount(s)'
  <2>1. ASSUME NEW i \in Nat, NEW j \in Nat, Only(s, "start", i)', Only(s, "end", j)',
               log'[i].interval = log'[j].interval
        PROVE  log'[i].left - log'[j].left = Spent(s)'
    <3>1. Kept(s, "start", i) \/ (Made(s, i) /\ stage[s] = "idle")
      BY <1>2, <2>1
    <3>2. Kept(s, "end", j) \/ (Made(s, j) /\ stage[s] = "running")
      BY <1>2, <2>1
    <3>3. Kept(s, "start", i)
      BY <1>3, <3>1, <3>2 DEF Kept
    <3>4. CASE Kept(s, "end", j)
      BY <1>1, <1>3, <2>1, <3>3, <3>4 DEF Accounts, EndedAccount, Kept
    <3>5. CASE Made(s, j) /\ stage[s] = "running"
      <4>1. log'[j].left = left[ScopeOf[s]] /\ log'[j].interval = resets[ScopeOf[s]]
        BY <3>5 DEF Made
      <4>. QED
        BY <1>1, <1>3, <2>1, <3>3, <3>5, <4>1 DEF Accounts, RunningAccount, Kept
    <3>. QED
      BY <3>2, <3>4, <3>5
  <2>. QED
    BY <2>1 DEF EndedAccount
<1>. QED
  BY <1>4, <1>5 DEF Accounts

\* Of a unit used, every running shot of the scope has one more.
LEMMA UseIsSpent ==
  ASSUME MeterTypeOK, NEW scope \in Scopes, Use(scope), NEW s \in Shots
  PROVE  /\ s \in Running(scope) => Spent(s)' = Spent(s) + 1
         /\ s \notin Running(scope) => Spent(s)' = Spent(s)
<1>. DEFINE w == WindowOf(Len(log))
            crowd == Running(scope)
            f == [v \in Windows |-> Sum(consumed[v], With(s))]
            g == [v \in Windows |-> Sum(consumed'[v], With(s))]
<1>1. w \in Windows /\ crowd \in SUBSET Shots
  <2>1. Len(log) \in 0 .. RowBound
    BY MeterAssumption DEF MeterTypeOK
  <2>. QED
    BY <2>1, WindowsFinite DEF Running
<1>2. consumed' = [consumed EXCEPT ![w][crowd] = @ + 1]
  BY DEF Use
<1>3. IsFiniteSet(With(s)) /\ With(s) \in SUBSET (SUBSET Shots) /\ IsFiniteSet(Windows)
  BY CrowdsFinite, WindowsFinite DEF With
<1>4. Spent(s) = Sum(f, Windows) /\ Spent(s)' = Sum(g, Windows)
  BY DEF Spent, SpentBy
<1>. HIDE DEF w, crowd
<1>5. /\ consumed'[w] \in [SUBSET Shots -> Nat] /\ consumed[w] \in [SUBSET Shots -> Nat]
      /\ consumed'[w][crowd] = consumed[w][crowd] + 1
      /\ \A c \in SUBSET Shots : c # crowd => consumed'[w][c] = consumed[w][c]
      /\ \A v \in Windows : v # w => consumed'[v] = consumed[v]
  <2>1. consumed \in [Windows -> [SUBSET Shots -> Nat]]
    BY DEF MeterTypeOK
  <2>2. consumed[w] \in [SUBSET Shots -> Nat] /\ consumed[w][crowd] \in Nat
    BY <1>1, <2>1
  <2>3. consumed' = [consumed EXCEPT ![w] = [consumed[w] EXCEPT ![crowd] = @ + 1]]
    BY <1>2, <2>1
  <2>4. /\ consumed'[w] = [consumed[w] EXCEPT ![crowd] = @ + 1]
        /\ \A v \in Windows : v # w => consumed'[v] = consumed[v]
    BY <1>1, <2>1, <2>3
  <2>. QED
    BY <1>1, <2>2, <2>4
<1>6. \A v \in Windows : f[v] \in Nat
  BY <1>3, SpentTyped
<1>7. \A v \in Windows : v # w => g[v] = f[v]
  BY <1>5
<1>8. g[w] = Sum(consumed'[w], With(s)) /\ f[w] = Sum(consumed[w], With(s))
  BY <1>1
<1>. HIDE DEF f, g
<1>9. CASE s \in crowd
  <2>1. crowd \in With(s)
    BY <1>1, <1>9 DEF With
  <2>2. /\ \A c \in With(s) : consumed[w][c] \in Int
        /\ consumed'[w][crowd] \in Int
        /\ \A c \in With(s) \ {crowd} : consumed'[w][c] = consumed[w][c]
    BY <1>3, <1>5, <1>1
  <2>3. g[w] = f[w] + (consumed'[w][crowd] - consumed[w][crowd])
    BY <1>3, <1>8, <2>1, <2>2, SumOfChanged
  <2>4. consumed[w][crowd] \in Nat /\ f[w] \in Nat
    BY <1>1, <1>5, <1>6
  <2>5. g[w] = f[w] + 1
    BY <1>5, <2>3, <2>4
  <2>6. Sum(g, Windows) = Sum(f, Windows) + (g[w] - f[w])
    <3>1. g[w] \in Int /\ \A v \in Windows : f[v] \in Int
      BY <1>6, <2>4, <2>5
    <3>. QED
      BY <1>1, <1>3, <1>7, <3>1, SumOfChanged
  <2>7. Sum(g, Windows) = Sum(f, Windows) + 1
    BY <2>4, <2>5, <2>6
  <2>. QED
    BY <1>4, <1>9, <2>7 DEF crowd
<1>10. CASE s \notin crowd
  <2>1. \A c \in With(s) : consumed'[w][c] = consumed[w][c]
    BY <1>3, <1>5, <1>10 DEF With
  <2>2. g[w] = f[w]
    BY <1>3, <1>8, <2>1, SumSame
  <2>3. Sum(g, Windows) = Sum(f, Windows)
    BY <1>3, <1>7, <2>2, SumSame
  <2>. QED
    BY <1>4, <1>10, <2>3 DEF crowd
<1>. QED
  BY <1>9, <1>10

\* A unit is taken off the level and entered with the shots that run.
LEMMA UseKeepsMeter ==
  ASSUME MeterInv, NEW scope \in Scopes, Use(scope)
  PROVE  MeterInv'
<1>. DEFINE w == WindowOf(Len(log))
            crowd == Running(scope)
<1>1. MeterTypeOK /\ StagesMatch /\ IntervalsPast /\ ConsumedWhileRunning /\ Accounts
  BY DEF MeterInv
<1>2. /\ log' = log /\ stage' = stage /\ resets' = resets
      /\ left[scope] > 0 /\ left' = [left EXCEPT ![scope] = @ - 1]
      /\ consumed' = [consumed EXCEPT ![w][crowd] = @ + 1]
  BY DEF Use
<1>3. w \in Windows /\ crowd \in SUBSET Shots /\ Len(log) \in Nat /\ w \in Int
  <2>1. Len(log) \in Nat /\ Len(log) \in 0 .. RowBound
    BY <1>1, MeterAssumption DEF MeterTypeOK
  <2>2. w \in Windows /\ w \in Int
    BY <2>1, WindowsFinite
  <2>3. crowd \in SUBSET Shots
    BY DEF Running
  <2>. QED
    BY <2>1, <2>2, <2>3
<1>4. /\ \A s : Rows(s)' = Rows(s)
      /\ \A s, f : Phase(s, f)' = Phase(s, f)
      /\ \A s, f, i : Only(s, f, i)' <=> Only(s, f, i)
  BY <1>2 DEF Rows, Phase, Only
<1>5. MeterTypeOK'
  <2>1. left' \in [Scopes -> 0 .. Quota]
    <3>1. left \in [Scopes -> 0 .. Quota] /\ Quota \in Nat
      BY <1>1, MeterAssumption DEF MeterTypeOK
    <3>2. left[scope] - 1 \in 0 .. Quota
      BY <1>2, <3>1
    <3>. QED
      BY <1>2, <3>1, <3>2
  <2>2. consumed' \in [Windows -> [SUBSET Shots -> Nat]]
    <3>1. consumed[w] \in [SUBSET Shots -> Nat] /\ consumed[w][crowd] \in Nat
      BY <1>1, <1>3 DEF MeterTypeOK
    <3>2. consumed' = [consumed EXCEPT ![w] = [consumed[w] EXCEPT ![crowd] = @ + 1]]
      BY <1>1, <1>2 DEF MeterTypeOK
    <3>. HIDE DEF w, crowd
    <3>3. [consumed[w] EXCEPT ![crowd] = @ + 1] \in [SUBSET Shots -> Nat]
      BY <1>3, <3>1
    <3>. QED
      BY <1>1, <1>3, <3>2, <3>3, Zenon DEF MeterTypeOK
  <2>. QED
    BY <1>1, <1>2, <2>1, <2>2, Zenon DEF MeterTypeOK
<1>6. StagesMatch'
  BY <1>1, <1>2, <1>4 DEF StagesMatch
<1>7. IntervalsPast'
  BY <1>1, <1>2 DEF IntervalsPast
<1>8. ConsumedWhileRunning'
  <2>1. \A v, c : Together(v, c)' <=> Together(v, c)
    BY <1>2, <1>4 DEF Together
  <2>2. ASSUME NEW v \in Windows, NEW c \in SUBSET Shots, consumed'[v][c] # 0
        PROVE  Together(v, c)
    <3>1. CASE v = w /\ c = crowd
      <4>1. \A s \in crowd : stage[s] = "running" /\ ScopeOf[s] = scope /\ s \in Shots
        BY DEF Running
      <4>2. \A s \in crowd, j \in Nat : ~Only(s, "end", j)
        BY <1>1, <4>1 DEF StagesMatch, Only
      <4>3. ASSUME NEW s \in crowd, NEW i \in Nat, Only(s, "start", i)
            PROVE  WindowOf(i) <= w
        <5>1. i \in 1 .. Len(log)
          BY <1>1, <4>3, RowsTyped
        <5>. QED
          BY <1>3, <5>1, WindowOrder
      <4>. HIDE DEF w, crowd
      <4>4. w <= w
        BY <1>3
      <4>. QED
        BY <3>1, <4>1, <4>2, <4>3, <4>4 DEF Together, w
    <3>2. CASE ~(v = w /\ c = crowd)
      <4>. HIDE DEF w, crowd
      <4>1. consumed'[v][c] = consumed[v][c]
        BY <1>1, <1>2, <1>3, <3>2 DEF MeterTypeOK
      <4>. QED
        BY <1>1, <2>2, <4>1 DEF ConsumedWhileRunning
    <3>. QED
      BY <3>1, <3>2
  <2>. QED
    BY <2>1, <2>2 DEF ConsumedWhileRunning
<1>9. ASSUME NEW s \in Shots
      PROVE  RunningAccount(s)' /\ EndedAccount(s)'
  <2>1. /\ s \in Running(scope) => Spent(s)' = Spent(s) + 1
        /\ s \notin Running(scope) => Spent(s)' = Spent(s)
    BY <1>1, UseIsSpent
  <2>2. /\ ScopeOf[s] \in Scopes /\ left \in [Scopes -> Int]
        /\ Spent(s) \in Int
    <3>1. ScopeOf[s] \in Scopes
      BY MeterAssumption
    <3>2. left \in [Scopes -> Int]
      BY <1>1 DEF MeterTypeOK
    <3>3. With(s) \in SUBSET (SUBSET Shots)
      BY DEF With
    <3>4. Spent(s) \in Nat
      BY <1>1, <3>3, SpentTyped DEF Spent
    <3>. QED
      BY <3>1, <3>2, <3>4
  <2>3. ASSUME NEW i \in 1 .. Len(log)
        PROVE  log[i].left \in Int
    <3>1. log[i] \in Snapshot
      BY <1>1 DEF MeterTypeOK
    <3>2. log[i].left \in 0 .. Quota
      BY <3>1, Zenon DEF Snapshot
    <3>. QED
      BY <3>2
  <2>4. ASSUME NEW i \in Nat, stage[s] = "running", Only(s, "start", i),
               log[i].interval = resets[ScopeOf[s]]
        PROVE  log[i].left - left'[ScopeOf[s]] = Spent(s)'
    <3>1. log[i].left - left[ScopeOf[s]] = Spent(s)
      BY <1>1, <2>4 DEF Accounts, RunningAccount
    <3>2. log[i].left \in Int
      BY <1>1, <2>3, <2>4, RowsTyped
    <3>3. CASE ScopeOf[s] = scope
      <4>1. s \in Running(scope)
        BY <2>4, <3>3 DEF Running
      <4>2. left'[ScopeOf[s]] = left[ScopeOf[s]] - 1
        BY <1>2, <2>2, <3>3
      <4>. QED
        BY <2>1, <2>2, <3>1, <3>2, <4>1, <4>2
    <3>4. CASE ScopeOf[s] # scope
      <4>1. s \notin Running(scope)
        BY <3>4 DEF Running
      <4>2. left'[ScopeOf[s]] = left[ScopeOf[s]]
        BY <1>2, <2>2, <3>4
      <4>. QED
        BY <2>1, <3>1, <4>1, <4>2
    <3>. QED
      BY <3>3, <3>4
  <2>5. ASSUME NEW i \in Nat, NEW j \in Nat, Only(s, "start", i), Only(s, "end", j),
               log[i].interval = log[j].interval
        PROVE  log[i].left - log[j].left = Spent(s)'
    <3>1. s \notin Running(scope)
      BY <1>1, <2>5 DEF StagesMatch, Running, Only
    <3>. QED
      BY <1>1, <2>1, <2>5, <3>1 DEF Accounts, EndedAccount
  <2>. QED
    BY <1>2, <1>4, <2>4, <2>5 DEF RunningAccount, EndedAccount
<1>. QED
  BY <1>5, <1>6, <1>7, <1>8, <1>9 DEF MeterInv, Accounts

\* A reset ends the accounts of the shots that run: their interval is past.
LEMMA ResetKeepsMeter ==
  ASSUME MeterInv, NEW scope \in Scopes, Reset(scope)
  PROVE  MeterInv'
<1>1. MeterTypeOK /\ StagesMatch /\ IntervalsPast /\ ConsumedWhileRunning /\ Accounts
  BY DEF MeterInv
<1>2. /\ log' = log /\ stage' = stage /\ consumed' = consumed
      /\ left' = [left EXCEPT ![scope] = Quota]
      /\ resets' = [resets EXCEPT ![scope] = @ + 1]
  BY DEF Reset
<1>3. resets \in [Scopes -> Nat]
  BY <1>1 DEF MeterTypeOK
<1>4. /\ \A s : Rows(s)' = Rows(s)
      /\ \A s, f : Phase(s, f)' = Phase(s, f)
      /\ \A s, f, i : Only(s, f, i)' <=> Only(s, f, i)
  BY <1>2 DEF Rows, Phase, Only
<1>5. MeterTypeOK'
  <2>1. left' \in [Scopes -> 0 .. Quota]
    <3>1. left \in [Scopes -> 0 .. Quota] /\ Quota \in 0 .. Quota
      BY <1>1, MeterAssumption DEF MeterTypeOK
    <3>. QED
      BY <1>2, <3>1
  <2>2. resets' \in [Scopes -> Nat]
    BY <1>2, <1>3
  <2>. QED
    BY <1>1, <1>2, <2>1, <2>2, Zenon DEF MeterTypeOK
<1>6. StagesMatch'
  BY <1>1, <1>2, <1>4 DEF StagesMatch
<1>7. ASSUME NEW i \in 1 .. Len(log)
      PROVE  /\ ScopeOf[log[i].shot] \in Scopes /\ log[i].interval \in Nat
             /\ log[i].interval <= resets'[ScopeOf[log[i].shot]]
  <2>1. log[i] \in Snapshot
    BY <1>1 DEF MeterTypeOK
  <2>2. log[i].shot \in Shots /\ log[i].interval \in Nat
    BY <2>1, Zenon DEF Snapshot
  <2>3. ScopeOf[log[i].shot] \in Scopes
    BY <2>2, MeterAssumption
  <2>4. log[i].interval <= resets[ScopeOf[log[i].shot]]
    BY <1>1 DEF IntervalsPast
  <2>. QED
    BY <1>2, <1>3, <2>2, <2>3, <2>4
<1>8. IntervalsPast'
  BY <1>2, <1>7 DEF IntervalsPast
<1>9. ConsumedWhileRunning'
  <2>1. \A v, c : Together(v, c)' <=> Together(v, c)
    BY <1>2, <1>4 DEF Together
  <2>. QED
    BY <1>1, <1>2, <2>1 DEF ConsumedWhileRunning
<1>10. ASSUME NEW s \in Shots
       PROVE  RunningAccount(s)' /\ EndedAccount(s)'
  <2>1. Spent(s)' = Spent(s)
    BY <1>2 DEF Spent, SpentBy
  <2>2. EndedAccount(s)'
    BY <1>1, <1>2, <1>4, <2>1 DEF Accounts, EndedAccount
  <2>3. ASSUME NEW i \in Nat, Only(s, "start", i),
               log[i].interval = resets'[ScopeOf[s]]
        PROVE  ScopeOf[s] # scope
    <3>1. i \in 1 .. Len(log) /\ log[i].shot = s
      BY <1>1, <2>3, RowsTyped DEF Rows
    <3>2. log[i].interval <= resets[ScopeOf[s]] /\ ScopeOf[s] \in Scopes
      BY <1>1, <1>7, <3>1 DEF IntervalsPast
    <3>. QED
      BY <1>2, <1>3, <2>3, <3>2
  <2>4. ScopeOf[s] \in Scopes /\ left \in [Scopes -> 0 .. Quota]
    BY <1>1, MeterAssumption DEF MeterTypeOK
  <2>5. ScopeOf[s] # scope => /\ left'[ScopeOf[s]] = left[ScopeOf[s]]
                             /\ resets'[ScopeOf[s]] = resets[ScopeOf[s]]
    BY <1>2, <1>3, <2>4
  <2>6. RunningAccount(s)'
    BY <1>1, <1>2, <1>4, <2>1, <2>3, <2>5 DEF Accounts, RunningAccount
  <2>. QED
    BY <2>2, <2>6
<1>. QED
  BY <1>5, <1>6, <1>8, <1>9, <1>10 DEF MeterInv, Accounts

\* At first nothing is observed and nothing consumed.
LEMMA MeterStarts == Init => MeterInv
<1>. SUFFICES ASSUME Init PROVE MeterInv
  OBVIOUS
<1>1. {Quota, RowBound} \subseteq Nat /\ ScopeOf \in [Shots -> Scopes]
  BY MeterAssumption
<1>2. MeterTypeOK
  BY <1>1 DEF Init, MeterTypeOK
<1>3. \A s : Rows(s) = {} /\ \A f : Phase(s, f) = {}
  BY DEF Init, Rows, Phase
<1>4. StagesMatch /\ IntervalsPast
  BY <1>3 DEF Init, StagesMatch, IntervalsPast
<1>5. ConsumedWhileRunning
  BY DEF Init, ConsumedWhileRunning
<1>6. Accounts
  BY <1>3 DEF Accounts, RunningAccount, EndedAccount, Only
<1>. QED
  BY <1>2, <1>4, <1>5, <1>6 DEF MeterInv

\* The levels account for what was consumed, however the steps interleave.
THEOREM LevelsAccount == Spec => []MeterInv
<1>1. MeterInv /\ [Next]_vars => MeterInv'
  <2>. SUFFICES ASSUME MeterInv, [Next]_vars PROVE MeterInv'
    OBVIOUS
  <2>1. ASSUME NEW scope \in Scopes, Use(scope)
        PROVE  MeterInv'
    BY <2>1, UseKeepsMeter
  <2>2. ASSUME NEW scope \in Scopes, Reset(scope)
        PROVE  MeterInv'
    BY <2>2, ResetKeepsMeter
  <2>3. ASSUME NEW shot \in Shots,
               \/ StartShot(shot) \/ EndShot(shot) \/ Checkpoint(shot)
               \/ RecordAgain(shot, "start") \/ RecordAgain(shot, "end")
        PROVE  MeterInv'
    BY <2>3, ShotEffect, ShotKeepsConsumed, ShotKeepsAccounts DEF MeterInv
  <2>4. CASE UNCHANGED vars
    <3>1. /\ \A s : Rows(s)' = Rows(s)
          /\ \A s, f : Phase(s, f)' = Phase(s, f)
          /\ \A s, f, i : Only(s, f, i)' <=> Only(s, f, i)
          /\ \A s : Spent(s)' = Spent(s)
      BY <2>4 DEF vars, Rows, Phase, Only, Spent, SpentBy
    <3>2. MeterTypeOK' /\ StagesMatch' /\ IntervalsPast'
      BY <2>4, <3>1 DEF MeterInv, MeterTypeOK, StagesMatch, IntervalsPast, vars
    <3>3. ConsumedWhileRunning'
      BY <2>4, <3>1 DEF MeterInv, ConsumedWhileRunning, Together, vars
    <3>4. Accounts'
      BY <2>4, <3>1 DEF MeterInv, Accounts, RunningAccount, EndedAccount, vars
    <3>. QED
      BY <3>2, <3>3, <3>4 DEF MeterInv
  <2>. QED
    BY <2>1, <2>2, <2>3, <2>4 DEF Next
<1>. QED
  BY <1>1, MeterStarts, PTL DEF Spec
-----------------------------------------------------------------------------
(* What the summary reads off the log. *)

\* A known instant is that of the only observation of its kind,
LEMMA InstantIsOnly ==
  ASSUME MeterTypeOK, NEW s, NEW f, Instant(s, f) # 0
  PROVE  Only(s, f, Instant(s, f)) /\ Instant(s, f) \in Rows(s)
<1>. DEFINE at == {i \in Phase(s, f) : log[i].quality # "untimed"}
<1>1. Cardinality(Phase(s, f)) = 1 /\ at # {} /\ Instant(s, f) = CHOOSE i \in at : TRUE
  BY DEF Instant
<1>2. IsFiniteSet(Phase(s, f))
  <2>1. Len(log) \in Nat /\ Phase(s, f) \subseteq 1 .. Len(log)
    BY RowsTyped
  <2>2. IsFiniteSet(1 .. Len(log))
    BY <2>1, FS_Interval
  <2>. QED
    BY <2>1, <2>2, FS_Subset
<1>3. PICK i : Phase(s, f) = {i}
  BY <1>1, <1>2, FS_Singleton
<1>4. Instant(s, f) \in at
  BY <1>1
<1>. QED
  BY <1>3, <1>4, RowsTyped DEF Only

\* and a place in the log.
LEMMA InstantTyped ==
  ASSUME MeterTypeOK, NEW s, NEW f
  PROVE  Instant(s, f) \in Nat /\ Instant(s, f) <= Len(log)
<1>1. Len(log) \in Nat /\ Rows(s) \subseteq 1 .. Len(log)
  BY RowsTyped
<1>2. Instant(s, f) # 0 => Instant(s, f) \in 1 .. Len(log)
  BY <1>1, InstantIsOnly
<1>. QED
  BY <1>1, <1>2

\* The bounds of a shot are those of which there is one only.
LEMMA BoundIsInstant ==
  ASSUME NEW s, NEW f, Bound(s, f) # 0
  PROVE  Bound(s, f) = Instant(s, f) /\ Instant(s, f) # 0 /\ Ordered(s)
  BY DEF Bound

\* The difference that a shot is attributed is what was spent while it ran.
LEMMA AttributedSpent ==
  ASSUME MeterInv, NEW s \in Shots, Attributed(s)
  PROVE  /\ Rows(s) # {} /\ DisplayDelta(s) = Spent(s) /\ DisplayDelta(s) \in Nat
         /\ Instant(s, "start") # 0 /\ Only(s, "start", Instant(s, "start"))
         /\ Instant(s, "end") # 0 /\ Only(s, "end", Instant(s, "end"))
         /\ Bound(s, "end") = Instant(s, "end") /\ Instant(s, "start") < Instant(s, "end")
<1>. DEFINE i == Instant(s, "start")
            j == Instant(s, "end")
<1>1. MeterTypeOK /\ Accounts
  BY DEF MeterInv
<1>2. Bound(s, "start") # 0 /\ Bound(s, "end") # 0 /\ Comparable(s)
  BY DEF Attributed, Displayed
<1>3. /\ Bound(s, "start") = i /\ Bound(s, "end") = j /\ i # 0 /\ j # 0 /\ Ordered(s)
  BY <1>2, BoundIsInstant
<1>4. Only(s, "start", i) /\ Only(s, "end", j) /\ i \in Rows(s) /\ j \in Rows(s)
  BY <1>1, <1>3, InstantIsOnly
<1>5. i < j
  BY <1>3 DEF Ordered
<1>6. i \in Nat /\ j \in Nat
  BY <1>1, InstantTyped
<1>7. log[i].left - log[j].left = Spent(s)
  <2>1. EndedAccount(s) /\ log[i].interval = log[j].interval
    BY <1>1, <1>2, <1>4 DEF Accounts, Comparable
  <2>. HIDE DEF i, j
  <2>. QED
    BY <1>4, <1>6, <2>1 DEF EndedAccount
<1>8. Spent(s) \in Nat
  <2>1. With(s) \in SUBSET (SUBSET Shots)
    BY DEF With
  <2>. QED
    BY <1>1, <2>1, SpentTyped DEF Spent
<1>9. DisplayDelta(s) = Spent(s)
  BY <1>3, <1>7 DEF DisplayDelta
<1>. QED
  BY <1>3, <1>4, <1>5, <1>8, <1>9

\* No other observed shot ran when an attributed one consumed.
LEMMA NobodyElse ==
  ASSUME MeterInv, NEW s \in Shots, Attributed(s), NEW w \in Windows,
         NEW crowd \in SUBSET Shots, s \in crowd, consumed[w][crowd] # 0,
         NEW t \in crowd, Rows(t) # {}
  PROVE  t = s
<1>. SUFFICES ASSUME t # s PROVE FALSE
  OBVIOUS
<1>1. MeterTypeOK /\ Together(w, crowd)
  BY DEF MeterInv, ConsumedWhileRunning
<1>2. ScopeOf[t] = ScopeOf[s]
  BY <1>1 DEF Together
<1>3. ASSUME NEW x \in crowd, NEW y \in crowd, Before(x, y)
      PROVE  FALSE
  <2>1. /\ Instant(x, "end") # 0 /\ Instant(y, "start") # 0
        /\ Instant(x, "end") <= Instant(y, "start")
    BY <1>3, BoundIsInstant DEF Before
  <2>2. /\ Only(x, "end", Instant(x, "end")) /\ Only(y, "start", Instant(y, "start"))
        /\ Instant(x, "end") \in Nat /\ Instant(y, "start") \in Nat
    BY <1>1, <2>1, InstantIsOnly, InstantTyped
  <2>3. Instant(y, "start") < Instant(x, "end")
    BY <1>1, <2>2 DEF Together
  <2>. QED
    BY <2>1, <2>2, <2>3
<1>4. Before(s, t) \/ Before(t, s)
  BY <1>2 DEF Attributed, Overlapped
<1>. QED
  BY <1>3, <1>4
-----------------------------------------------------------------------------
(* The totals. *)

\* The totals are sums over finite sets.
LEMMA TotalsAsSums ==
  /\ \A shots : Used(shots) = Sum([s \in shots |-> DisplayDelta(s)], shots)
  /\ \A shots, windows : Consumed(shots, windows) = SpentBy(Alone(shots), windows)
<1>1. \A f, S : DOMAIN f = S => SumFunction(f) = Sum(f, S)
  BY DEF SumFunction, Sum
<1>2. ASSUME NEW shots
      PROVE  Used(shots) = Sum([s \in shots |-> DisplayDelta(s)], shots)
  <2>1. DOMAIN [s \in shots |-> DisplayDelta(s)] = shots
    OBVIOUS
  <2>. QED
    BY <1>1, <2>1 DEF Used
<1>3. ASSUME NEW shots, NEW windows
      PROVE  Consumed(shots, windows) = SpentBy(Alone(shots), windows)
  <2>. DEFINE f == [w \in windows |-> SumFunctionOnSet(consumed[w], Alone(shots))]
  <2>1. DOMAIN f = windows
    OBVIOUS
  <2>2. SumFunction(f) = Sum(f, windows)
    <3>. HIDE DEF f
    <3>. QED
      BY <1>1, <2>1
  <2>. QED
    BY <2>2 DEF Consumed, SpentBy, Sum
<1>. QED
  BY <1>2, <1>3

\* One attributed shot more: what it spent is spent by nobody counted before.
LEMMA OneShotMore ==
  ASSUME MeterInv, NEW shots \in SUBSET Shots, NEW x \in shots, Attributed(x),
         NEW windows \in SUBSET Windows
  PROVE  SpentBy(Alone(shots), windows) =
             SpentBy(Alone(shots \ {x}), windows) + SpentBy(With(x), windows)
<1>. DEFINE fewer == Alone(shots \ {x})
            more == Alone(shots)
            added == more \ fewer
<1>1. MeterTypeOK /\ Rows(x) # {}
  BY AttributedSpent DEF MeterInv
<1>2. /\ more \in SUBSET (SUBSET Shots) /\ fewer \in SUBSET more
      /\ added \in SUBSET With(x) /\ With(x) \in SUBSET (SUBSET Shots)
  BY DEF Alone, With, Seen
<1>3. ASSUME NEW w \in Windows, NEW crowd \in With(x) \ added
      PROVE  consumed[w][crowd] = 0
  <2>1. crowd \in SUBSET Shots /\ x \in crowd /\ x \in Seen(crowd)
    BY <1>1 DEF With, Seen
  <2>2. ~(Seen(crowd) \subseteq shots)
    BY <2>1 DEF Alone
  <2>3. PICK t \in crowd : Rows(t) # {} /\ t \notin shots
    BY <2>2 DEF Seen
  <2>. QED
    BY <2>1, <2>3, NobodyElse
<1>. HIDE DEF fewer, more, added
<1>4. ASSUME NEW w \in Windows
      PROVE  /\ Sum(consumed[w], more) \in Int /\ Sum(consumed[w], fewer) \in Int
             /\ Sum(consumed[w], With(x)) \in Int
             /\ Sum(consumed[w], more) =
                    Sum(consumed[w], fewer) + Sum(consumed[w], With(x))
  <2>1. fewer \in SUBSET (SUBSET Shots)
    BY <1>2
  <2>2. /\ Sum(consumed[w], more) \in Nat /\ Sum(consumed[w], fewer) \in Nat
        /\ Sum(consumed[w], With(x)) \in Nat
    BY <1>1, <1>2, <2>1, SpentTyped
  <2>3. \A c \in SUBSET Shots : consumed[w][c] \in Int
    BY <1>1 DEF MeterTypeOK
  <2>4. IsFiniteSet(more) /\ IsFiniteSet(With(x))
    BY <1>2, CrowdsFinite
  <2>5. Sum(consumed[w], With(x)) = Sum(consumed[w], added)
    <3>1. /\ \A c \in With(x) : consumed[w][c] \in Int
          /\ \A c \in With(x) \ added : consumed[w][c] = 0
      BY <1>2, <1>3, <2>3
    <3>. QED
      BY <1>2, <2>4, <3>1, SumOfRest
  <2>6. Sum(consumed[w], more) = Sum(consumed[w], fewer) + Sum(consumed[w], more \ fewer)
    <3>1. \A c \in more : consumed[w][c] \in Int
      BY <1>2, <2>3
    <3>. QED
      BY <1>2, <2>4, <3>1, SumSplit
  <2>. QED
    BY <2>2, <2>5, <2>6 DEF added
<1>. DEFINE f == [w \in windows |-> Sum(consumed[w], fewer)]
            g == [w \in windows |-> Sum(consumed[w], With(x))]
            h == [w \in windows |-> Sum(consumed[w], more)]
<1>5. \A w \in windows : f[w] \in Int /\ g[w] \in Int /\ h[w] = f[w] + g[w]
  BY <1>4
<1>6. Sum(h, windows) = Sum(f, windows) + Sum(g, windows)
  <2>1. IsFiniteSet(windows)
    BY WindowsFinite, FS_Subset
  <2>. HIDE DEF f, g, h
  <2>. QED
    BY <1>5, <2>1, SumOfBoth
<1>. QED
  BY <1>6 DEF SpentBy, fewer, more

\* So the sum over attributed shots is what was consumed while they ran, and no
\* other observed shots, in the windows in which these shots spent it all.
LEMMA UsedIsSpent ==
  ASSUME MeterInv, NEW windows \in SUBSET Windows, NEW known \in SUBSET Shots,
         \A s \in known : Attributed(s) /\ DisplayDelta(s) = SpentBy(With(s), windows)
  PROVE  Used(known) = SpentBy(Alone(known), windows)
<1>. DEFINE P == {shots \in SUBSET known : Used(shots) = SpentBy(Alone(shots), windows)}
<1>1. MeterTypeOK /\ IsFiniteSet(windows) /\ IsFiniteSet(known)
  BY MeterAssumption, WindowsFinite, FS_Subset DEF MeterInv
<1>2. {} \in P
  <2>1. Used({}) = 0
    BY TotalsAsSums, SumOfNone
  <2>2. Alone({}) = {}
    BY DEF Alone
  <2>. DEFINE f == [w \in windows |-> Sum(consumed[w], {})]
  <2>3. \A w \in windows : f[w] \in Int /\ f[w] = 0
    BY SumOfNone
  <2>4. Sum(f, windows) = 0
    <3>. HIDE DEF f
    <3>1. Sum(f, windows) = Sum(f, {})
      BY <1>1, <2>3, SumOfRest
    <3>. QED
      BY <3>1, SumOfNone
  <2>. QED
    BY <2>1, <2>2, <2>4 DEF SpentBy
<1>3. ASSUME NEW shots \in SUBSET known, shots # {}, \A x \in shots : shots \ {x} \in P
      PROVE  shots \in P
  <2>1. PICK x \in shots : TRUE
    BY <1>3
  <2>. DEFINE f == [s \in shots |-> DisplayDelta(s)]
              g == [s \in shots \ {x} |-> DisplayDelta(s)]
  <2>2. IsFiniteSet(shots) /\ IsFiniteSet(shots \ {x})
    BY <1>1, FS_Subset
  <2>3. \A s \in shots : f[s] \in Int
    BY AttributedSpent
  <2>4. f[x] = DisplayDelta(x) /\ \A s \in shots \ {x} : f[s] = g[s]
    OBVIOUS
  <2>5. Used(shots) = Sum(f, shots) /\ Used(shots \ {x}) = Sum(g, shots \ {x})
    BY TotalsAsSums
  <2>. HIDE DEF f, g
  <2>6. Sum(f, shots) = f[x] + Sum(f, shots \ {x})
    BY <2>2, <2>3, SumAdd
  <2>7. Sum(f, shots \ {x}) = Sum(g, shots \ {x})
    BY <2>2, <2>4, SumSame
  <2>8. Used(shots) = SpentBy(With(x), windows) + SpentBy(Alone(shots \ {x}), windows)
    BY <1>3, <2>4, <2>5, <2>6, <2>7
  <2>9. SpentBy(Alone(shots), windows) =
            SpentBy(Alone(shots \ {x}), windows) + SpentBy(With(x), windows)
    BY <1>3, OneShotMore
  <2>10. SpentBy(With(x), windows) \in Nat /\ SpentBy(Alone(shots \ {x}), windows) \in Nat
    <3>1. /\ With(x) \in SUBSET (SUBSET Shots)
          /\ Alone(shots \ {x}) \in SUBSET (SUBSET Shots)
      BY DEF With, Alone
    <3>. QED
      BY <1>1, <3>1, SpentTyped
  <2>11. Used(shots) = SpentBy(Alone(shots), windows)
    BY <2>8, <2>9, <2>10
  <2>. QED
    BY <2>11
<1>4. SUBSET known \subseteq P
  <2>. HIDE DEF P
  <2>. QED
    BY <1>1, <1>2, <1>3, SubsetInduction
<1>. QED
  BY <1>4

\* A shot spent what it spent in the windows from its start to its end.
LEMMA SpentInWindow ==
  ASSUME MeterInv, NEW s \in Shots, Attributed(s), Assigned(s),
         NEW w \in Windows, WindowOf(Instant(s, "start")) = w
  PROVE  Spent(s) = SpentBy(With(s), {w})
<1>. DEFINE i == Instant(s, "start")
            j == Instant(s, "end")
            f == [v \in Windows |-> Sum(consumed[v], With(s))]
            g == [v \in {w} |-> Sum(consumed[v], With(s))]
<1>1. MeterTypeOK /\ ConsumedWhileRunning
  BY DEF MeterInv
<1>2. i \in Nat /\ j \in Nat /\ Only(s, "start", i) /\ Only(s, "end", j)
  BY <1>1, AttributedSpent, InstantTyped
<1>3. WindowOf(j - 1) <= w
  <2>1. j <= 1 + Width * (w + 1)
    BY DEF Assigned, EndsInside
  <2>2. w \in Int /\ Width \in Nat \ {0}
    BY MeterAssumption, WindowsFinite
  <2>. HIDE DEF j
  <2>3. /\ WindowOf(j - 1) \in Int
        /\ Width * WindowOf(j - 1) <= (j - 1) - 1
    BY <1>2, WindowSpan
  <2>4. Width * WindowOf(j - 1) < Width * (w + 1)
    BY <1>2, <2>1, <2>2, <2>3
  <2>. QED
    BY <2>2, <2>3, <2>4
<1>4. ASSUME NEW v \in Windows, v # w
      PROVE  Sum(consumed[v], With(s)) = 0
  <2>1. ASSUME NEW c \in With(s)
        PROVE  consumed[v][c] \in Int /\ consumed[v][c] = 0
    <3>1. c \in SUBSET Shots /\ s \in c
      BY DEF With
    <3>2. Together(v, c) => w <= v /\ v <= WindowOf(j - 1)
      BY <1>2, <3>1 DEF Together
    <3>3. v \in Int /\ w \in Int /\ WindowOf(j - 1) \in Int
      BY <1>2, WindowsFinite, WindowSpan
    <3>4. ~Together(v, c)
      BY <1>3, <1>4, <3>2, <3>3
    <3>5. consumed[v][c] = 0
      BY <1>1, <3>1, <3>4 DEF ConsumedWhileRunning
    <3>. QED
      BY <3>5
  <2>2. IsFiniteSet(With(s))
    BY CrowdsFinite DEF With
  <2>3. Sum(consumed[v], With(s)) = Sum(consumed[v], {})
    BY <2>1, <2>2, SumOfRest
  <2>. QED
    BY <2>3, SumOfNone
<1>5. \A v \in Windows : f[v] \in Int
  <2>1. With(s) \in SUBSET (SUBSET Shots)
    BY DEF With
  <2>. QED
    BY <1>1, <2>1, SpentTyped
<1>6. \A v \in Windows \ {w} : f[v] = 0
  BY <1>4
<1>7. f[w] = g[w]
  OBVIOUS
<1>8. Spent(s) = Sum(f, Windows) /\ SpentBy(With(s), {w}) = Sum(g, {w})
  BY DEF Spent, SpentBy
<1>. HIDE DEF f, g
<1>9. Sum(f, Windows) = Sum(f, {w})
  <2>1. IsFiniteSet(Windows) /\ {w} \in SUBSET Windows
    BY WindowsFinite
  <2>. QED
    BY <1>5, <1>6, <2>1, SumOfRest
<1>10. Sum(f, {w}) = Sum(g, {w})
  <2>1. IsFiniteSet({w}) /\ \A v \in {w} : f[v] = g[v]
    BY <1>7, FS_Singleton
  <2>. QED
    BY <2>1, SumSame
<1>. QED
  BY <1>8, <1>9, <1>10

\* In a window that is known, no shot of the launcher ran that belongs to another.
LEMMA OnlyTheBucket ==
  ASSUME MeterInv, NEW mine \in SUBSET Shots, NEW w \in Windows, WindowKnown(mine, w),
         NEW crowd \in SUBSET Shots, consumed[w][crowd] # 0,
         NEW t \in crowd, t \in Seen(mine)
  PROVE  t \in Bucket(mine, w)
<1>. SUFFICES ASSUME t \notin Bucket(mine, w) PROVE FALSE
  OBVIOUS
<1>. DEFINE i == Instant(t, "start")
            j == Instant(t, "end")
<1>1. MeterTypeOK /\ Together(w, crowd) /\ w \in Int /\ t \in mine /\ Rows(t) # {}
  BY WindowsFinite DEF MeterInv, ConsumedWhileRunning, Seen
<1>2. Assigned(t) /\ WindowOf(i) # w /\ i # 0 /\ EndsInside(t)
  <2>1. Assigned(t)
    BY DEF WindowKnown
  <2>. QED
    BY <2>1 DEF Assigned, Bucket
<1>3. /\ Only(t, "start", i) /\ i \in Nat /\ j \in Nat
      /\ WindowOf(i) \in Int /\ WindowOf(j - 1) \in Int
  <2>1. Only(t, "start", i) /\ i \in Nat /\ j \in Nat
    BY <1>1, <1>2, InstantIsOnly, InstantTyped
  <2>. HIDE DEF i, j
  <2>2. i \in Int /\ j - 1 \in Int
    BY <2>1
  <2>. QED
    BY <2>1, <2>2, WindowSpan
<1>4. WindowOf(i) < w
  <2>1. WindowOf(i) <= w
    BY <1>1, <1>3 DEF Together
  <2>. QED
    BY <1>1, <1>2, <1>3, <2>1
<1>5. j = 0
  <2>. SUFFICES ASSUME j # 0 PROVE FALSE
    OBVIOUS
  <2>1. w <= WindowOf(j - 1)
    BY <1>1, <1>3, InstantIsOnly DEF Together
  <2>2. j <= 1 + Width * (WindowOf(i) + 1)
    BY <1>2 DEF EndsInside
  <2>3. Width \in Nat \ {0}
    BY MeterAssumption
  <2>4. Width * WindowOf(j - 1) <= (j - 1) - 1
    BY <1>3, WindowSpan
  <2>. DEFINE a == WindowOf(i)
              b == WindowOf(j - 1)
  <2>5. a \in Int /\ b \in Int /\ a < w /\ w <= b
    BY <1>3, <1>4, <2>1
  <2>6. j <= 1 + Width * (a + 1) /\ Width * b <= (j - 1) - 1
    BY <2>2, <2>4
  <2>. HIDE DEF a, b, i, j
  <2>7. Width * b < Width * (a + 1)
    BY <1>3, <2>3, <2>5, <2>6
  <2>8. b < a + 1
    BY <2>3, <2>5, <2>7
  <2>. QED
    BY <1>1, <2>5, <2>8
<1>6. PICK s \in Bucket(mine, w) : Attributed(s)
  BY DEF WindowKnown
<1>7. s \in Shots /\ s \in Seen(mine) /\ s # t /\ WindowOf(Instant(s, "start")) = w
  BY <1>6 DEF Bucket, Seen
<1>8. ScopeOf[t] = ScopeOf[s]
  BY <1>7 DEF WindowKnown, Homogeneous
<1>9. Before(s, t) \/ Before(t, s)
  BY <1>1, <1>6, <1>7, <1>8 DEF Attributed, Overlapped
<1>10. CASE Before(t, s)
  <2>1. Bound(t, "end") # 0
    BY <1>10 DEF Before
  <2>. QED
    BY <1>5, <2>1, BoundIsInstant
<1>11. CASE Before(s, t)
  <2>1. /\ Bound(s, "end") = Instant(s, "end") /\ Bound(t, "start") = i
        /\ Bound(s, "end") <= Bound(t, "start")
    BY <1>11, BoundIsInstant DEF Before
  <2>2. Instant(s, "start") < Instant(s, "end")
    BY <1>6, <1>7, AttributedSpent
  <2>3. Instant(s, "start") \in Nat /\ Instant(s, "end") \in Nat
    BY <1>1, InstantTyped
  <2>4. Instant(s, "start") <= i
    BY <1>3, <2>1, <2>2, <2>3
  <2>5. w <= WindowOf(i)
    BY <1>3, <1>7, <2>3, <2>4, WindowOrder
  <2>. QED
    BY <1>1, <1>3, <1>4, <2>5
<1>. QED
  BY <1>9, <1>10, <1>11

\* The total of all the shots of a launcher,
LEMMA WholeTotal ==
  ASSUME MeterInv, NEW mine \in SUBSET Shots, TotalKnown(mine)
  PROVE  Used(Seen(mine)) = Consumed(mine, Windows)
<1>1. Seen(mine) \in SUBSET Shots /\ \A s \in Seen(mine) : Attributed(s)
  BY DEF TotalKnown, Seen
<1>2. \A s \in Seen(mine) : DisplayDelta(s) = SpentBy(With(s), Windows)
  BY <1>1, AttributedSpent DEF Spent
<1>3. Used(Seen(mine)) = SpentBy(Alone(Seen(mine)), Windows)
  BY <1>1, <1>2, UsedIsSpent
<1>4. Alone(Seen(mine)) = Alone(mine)
  BY <1>1 DEF Alone, Seen
<1>. QED
  BY <1>3, <1>4, TotalsAsSums

\* and that of a window.
LEMMA WindowTotal ==
  ASSUME MeterInv, NEW mine \in SUBSET Shots, NEW w \in Windows, WindowKnown(mine, w)
  PROVE  Used(Bucket(mine, w)) = Consumed(mine, {w})
<1>. DEFINE known == Bucket(mine, w)
            all == Alone(mine)
            few == Alone(known)
<1>1. MeterTypeOK
  BY DEF MeterInv
<1>2. /\ known \in SUBSET Seen(mine) /\ known \in SUBSET mine
      /\ Seen(mine) \in SUBSET Shots
      /\ \A s \in known : /\ Attributed(s) /\ Assigned(s)
                          /\ WindowOf(Instant(s, "start")) = w
  BY DEF WindowKnown, Bucket, Seen
<1>3. \A s \in known : DisplayDelta(s) = SpentBy(With(s), {w})
  BY <1>2, AttributedSpent, SpentInWindow
<1>4. Used(known) = SpentBy(few, {w})
  <2>. HIDE DEF known
  <2>. QED
    BY <1>2, <1>3, UsedIsSpent
<1>5. all \in SUBSET (SUBSET Shots) /\ few \in SUBSET all
  BY <1>2 DEF Alone
<1>6. ASSUME NEW crowd \in all \ few
      PROVE  consumed[w][crowd] = 0
  <2>1. crowd \in SUBSET Shots /\ Seen(crowd) # {} /\ Seen(crowd) \subseteq mine
    BY DEF Alone
  <2>2. ~(Seen(crowd) \subseteq known)
    BY <2>1 DEF Alone
  <2>3. PICK t \in crowd : Rows(t) # {} /\ t \notin known
    BY <2>2 DEF Seen
  <2>4. t \in Seen(mine)
    BY <2>1, <2>3 DEF Seen
  <2>. QED
    BY <2>1, <2>3, <2>4, OnlyTheBucket
<1>7. \A crowd \in all : consumed[w][crowd] \in Int
  BY <1>1, <1>5 DEF MeterTypeOK
<1>. HIDE DEF all, few
<1>8. Sum(consumed[w], all) = Sum(consumed[w], few)
  BY <1>5, <1>6, <1>7, CrowdsFinite, SumOfRest
<1>9. SpentBy(all, {w}) = SpentBy(few, {w})
  <2>. DEFINE f == [v \in {w} |-> Sum(consumed[v], all)]
              g == [v \in {w} |-> Sum(consumed[v], few)]
  <2>1. f = g
    BY <1>8
  <2>2. SpentBy(all, {w}) = Sum(f, {w}) /\ SpentBy(few, {w}) = Sum(g, {w})
    BY DEF SpentBy
  <2>. HIDE DEF f, g
  <2>. QED
    BY <2>1, <2>2
<1>. QED
  BY <1>4, <1>9, TotalsAsSums DEF all

\* For every set of shots, quota, width of the windows and number of observations
\* and resets: a total that summarize_inference gives a launcher, of all its
\* shots or of a window, is what was consumed while they ran and no other
\* observed shot did.
THEOREM TotalsAreConsumed == Spec => []TotalsAddUp
<1>1. MeterInv => TotalsAddUp
  BY WholeTotal, WindowTotal DEF TotalsAddUp
<1>. QED
  BY <1>1, LevelsAccount, PTL
=============================================================================
