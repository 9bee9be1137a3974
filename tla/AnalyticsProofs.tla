---------------------------- MODULE AnalyticsProofs ----------------------------
(***************************************************************************)
(* Proofs about what the engine computes from the audit trail: the         *)
(* covariance of a fleet, the allocation of reviewer time and the early    *)
(* warning, for any fleet, trail and budget.                               *)
(*                                                                         *)
(* All of them are about sums over finite sets.  An induction is made with *)
(* a set in place of a predicate: the elements that have the property.     *)
(***************************************************************************)
EXTENDS Allocation, EarlyWarning, Functions, FiniteSetTheorems, SequenceTheorems,
        WellFoundedInduction, TLAPS

\* Induction over the naturals: W holds 0 and with every number the next one.
LEMMA NatSetInduction ==
    ASSUME NEW W, 0 \in W, \A n \in Nat : n \in W => n + 1 \in W
    PROVE  \A n \in Nat : n \in W
<1> DEFINE T == Nat \ W
           R == {ss \in Nat \X Nat : ss[1] < ss[2]}
<1>1. SUFFICES ASSUME T # {} PROVE FALSE
  OBVIOUS
<1>2. IsWellFoundedOn(R, Nat)
  BY NatLessThanWellFounded DEF OpToRel
<1>3. PICK n \in T : \A m \in T : ~ (<<m, n>> \in R)
  <2> HIDE DEF R
  <2> QED BY <1>1, <1>2, WFMin
<1>4. \A m \in T : ~(m < n)
  BY <1>3
<1>5. n \in Nat /\ n # 0 /\ n - 1 \in Nat /\ n - 1 \notin T
  BY <1>4
<1> QED
  BY <1>5

\* A smallest set of a family of subsets.
LEMMA SmallestSubset ==
    ASSUME NEW S, NEW B, IsFiniteSet(S), \A T \in B : T \subseteq S, B # {}
    PROVE  \E T \in B : IsFiniteSet(T) /\ \A U \in SUBSET T : U # T => U \notin B
<1>1. B \subseteq FiniteSubsetsOf(S)
  BY FS_FiniteSubsetsOfFinite
<1>2. PICK T \in B : \A U \in B : ~ (<<U, T>> \in StrictSubsetOrdering(S))
  BY <1>1, FS_StrictSubsetOrderingWellFounded, WFMin
<1> QED
  BY <1>2, FS_Subset DEF StrictSubsetOrdering

\* Induction over the subsets of a finite set: a set is in W when taking out any
\* element leaves a member of W, so the smallest set outside W cannot exist.
LEMMA FiniteSetInduction ==
    ASSUME NEW S, IsFiniteSet(S), NEW W, {} \in W,
           \A T \in SUBSET S : \A x \in T : T \ {x} \in W => T \in W
    PROVE  \A T \in SUBSET S : T \in W
<1> DEFINE B == {T \in SUBSET S : T \notin W}
<1>1. SUFFICES ASSUME B # {} PROVE FALSE
  OBVIOUS
<1>2. \A T \in B : T \subseteq S
  OBVIOUS
<1>3. PICK T \in B : \A U \in SUBSET T : U # T => U \notin B
  <2> HIDE DEF B
  <2> QED BY <1>1, <1>2, SmallestSubset
<1>4. T \in SUBSET S /\ T \notin W
  OBVIOUS
<1>5. PICK x \in T : TRUE
  BY <1>4
<1>6. T \ {x} \in SUBSET T /\ T \ {x} # T /\ T \ {x} \in SUBSET S
  BY <1>4
<1>7. T \ {x} \in W
  BY <1>3, <1>6
<1> QED
  BY <1>4, <1>7

-------------------------------------------------------------------------------
(***************************************************************************)
(* Sums over finite sets.                                                  *)
(***************************************************************************)
Pick(s) == CHOOSE x \in s : TRUE

Sums(fun, F, g) == g = [s \in F |-> IF s = {} THEN 0 ELSE fun[Pick(s)] + g[s \ {Pick(s)}]]

\* The recursive function that SumFunctionOnSet chooses.
LEMMA SumUnfolds ==
    ASSUME NEW fun, NEW S
    PROVE  SumFunctionOnSet(fun, S) = (CHOOSE g : Sums(fun, SUBSET S, g))[S]
BY DEF SumFunctionOnSet, FoldFunctionOnSet, MapThenFoldSet, Sums, Pick

\* CHOOSE takes an element of the set.
LEMMA PickIsMember == \A s : s # {} => Pick(s) \in s
BY DEF Pick

\* There is a function that satisfies the recursion on all subsets: one is built for
\* each cardinality in turn.
LEMMA SumsExist ==
    ASSUME NEW fun, NEW S, IsFiniteSet(S)
    PROVE  \E g : Sums(fun, SUBSET S, g)
<1> DEFINE D(n) == {s \in SUBSET S : Cardinality(s) <= n}
           W == {n \in Nat : \E g : Sums(fun, D(n), g)}
<1>1. 0 \in W
  <2>1. \A s \in D(0) : s = {}
    BY FS_Subset, FS_CardinalityType, FS_EmptySet
  <2>2. Sums(fun, D(0), [s \in D(0) |-> 0])
    BY <2>1 DEF Sums
  <2> QED
    BY <2>2
<1>2. ASSUME NEW n \in Nat, n \in W PROVE n + 1 \in W
  <2>1. PICK g : Sums(fun, D(n), g)
    BY <1>2
  <2> DEFINE h == [s \in D(n + 1) |-> IF s = {} THEN 0 ELSE fun[Pick(s)] + g[s \ {Pick(s)}]]
  <2>2. ASSUME NEW s \in D(n + 1), s # {}
        PROVE  s \ {Pick(s)} \in D(n) /\ s \ {Pick(s)} \in D(n + 1)
    <3> DEFINE t == s \ {Pick(s)}
    <3>1. s \in SUBSET S /\ Cardinality(s) <= n + 1 /\ IsFiniteSet(s) /\ Pick(s) \in s
      BY <2>2, FS_Subset, PickIsMember
    <3>2. IsFiniteSet(t) /\ Cardinality(t) = Cardinality(s) - 1
          /\ Cardinality(s) \in Nat /\ t \in SUBSET S
      BY <3>1, FS_RemoveElement, FS_CardinalityType
    <3> HIDE DEF t
    <3>3. t \in D(n) /\ t \in D(n + 1)
      BY <3>1, <3>2
    <3> QED
      BY <3>3 DEF t
  <2>3. \A s \in D(n) : h[s] = g[s]
    <3>1. \A s \in D(n) : s \in D(n + 1)
      BY FS_Subset, FS_CardinalityType
    <3> QED
      BY <2>1, <3>1 DEF Sums
  <2>4. Sums(fun, D(n + 1), h)
    <3>1. \A s \in D(n + 1) : s # {} => h[s \ {Pick(s)}] = g[s \ {Pick(s)}]
      BY <2>2, <2>3
    <3> HIDE DEF D
    <3> QED
      BY <3>1 DEF Sums
  <2> HIDE DEF h, D
  <2> QED
    BY <2>4
<1>3. Cardinality(S) \in W
  <2> HIDE DEF W
  <2> QED
    BY <1>1, <1>2, NatSetInduction, FS_CardinalityType
<1>4. D(Cardinality(S)) = SUBSET S
  BY FS_Subset
<1> QED
  BY <1>3, <1>4

\* Any such function agrees with SumFunctionOnSet, whose recursion may stop at a
\* smaller set.
LEMMA SumsAreSums ==
    ASSUME NEW fun, NEW S, NEW g, IsFiniteSet(S), Sums(fun, SUBSET S, g)
    PROVE  \A T \in SUBSET S : SumFunctionOnSet(fun, T) = g[T]
<1> SUFFICES ASSUME NEW T \in SUBSET S PROVE SumFunctionOnSet(fun, T) = g[T]
  OBVIOUS
<1> DEFINE h == CHOOSE h : Sums(fun, SUBSET T, h)
           B == {U \in SUBSET T : h[U] # g[U]}
<1>1. IsFiniteSet(T) /\ Sums(fun, SUBSET T, h)
  BY FS_Subset, SumsExist
<1>2. SUFFICES B = {}
  BY SumUnfolds
<1>3. SUFFICES ASSUME B # {} PROVE FALSE
  OBVIOUS
<1> HIDE DEF h
<1>4. PICK U \in B : \A V \in SUBSET U : V # U => V \notin B
  <2>1. \A U \in B : U \subseteq T
    OBVIOUS
  <2> HIDE DEF B
  <2> QED
    BY <1>1, <1>3, <2>1, SmallestSubset
<1>5. U # {} => U \ {Pick(U)} \in SUBSET U /\ U \ {Pick(U)} # U
  BY PickIsMember
<1> QED
  BY <1>1, <1>4, <1>5 DEF Sums

\* The empty sum.
LEMMA SumOfNone == ASSUME NEW fun PROVE SumFunctionOnSet(fun, {}) = 0
<1> DEFINE none == {}
<1>1. IsFiniteSet(none) /\ none \in SUBSET none
  BY FS_EmptySet
<1> HIDE DEF none
<1>2. PICK g : Sums(fun, SUBSET none, g)
  BY <1>1, SumsExist
<1>3. SumFunctionOnSet(fun, none) = g[none]
  BY <1>1, <1>2, SumsAreSums
<1> QED
  BY <1>1, <1>2, <1>3 DEF Sums, none

\* One step of the recursion, at the element that CHOOSE takes.
LEMMA SumPicks ==
    ASSUME NEW fun, NEW S, IsFiniteSet(S), S # {}
    PROVE  SumFunctionOnSet(fun, S) = fun[Pick(S)] + SumFunctionOnSet(fun, S \ {Pick(S)})
<1>1. PICK g : Sums(fun, SUBSET S, g)
  BY SumsExist
<1>2. \A T \in SUBSET S : SumFunctionOnSet(fun, T) = g[T]
  BY <1>1, SumsAreSums
<1> QED
  BY <1>1, <1>2 DEF Sums

\* A sum of integers is an integer, and any element may be taken out of it.
LEMMA SumTakesOut ==
    ASSUME NEW S, NEW fun, IsFiniteSet(S), \A x \in S : fun[x] \in Int
    PROVE  /\ SumFunctionOnSet(fun, S) \in Int
           /\ \A x \in S : SumFunctionOnSet(fun, S) = fun[x] + SumFunctionOnSet(fun, S \ {x})
<1> DEFINE sum(T) == SumFunctionOnSet(fun, T)
           Good(T) == sum(T) \in Int /\ \A x \in T : sum(T) = fun[x] + sum(T \ {x})
           B == {T \in SUBSET S : ~Good(T)}
<1>1. SUFFICES ASSUME B # {} PROVE FALSE
  OBVIOUS
<1>2. PICK T \in B : IsFiniteSet(T) /\ \A U \in SUBSET T : U # T => U \notin B
  <2>1. \A T \in B : T \subseteq S
    OBVIOUS
  <2> HIDE DEF B
  <2> QED
    BY <1>1, <2>1, SmallestSubset
<1>3. \A U \in SUBSET T : U # T => Good(U)
  BY <1>2
<1>4. T \subseteq S /\ ~Good(T)
  OBVIOUS
<1>5. T # {}
  BY <1>4, SumOfNone
<1> DEFINE p == Pick(T)
<1>6. p \in T /\ sum(T) = fun[p] + sum(T \ {p})
  BY <1>2, <1>5, PickIsMember, SumPicks
<1> HIDE DEF p
<1>7. sum(T) \in Int
  BY <1>3, <1>4, <1>6
<1>8. ASSUME NEW x \in T PROVE sum(T) = fun[x] + sum(T \ {x})
  <2>1. CASE x = p
    BY <2>1, <1>6
  <2>2. CASE x # p
    <3>1. sum(T \ {p}) = fun[x] + sum((T \ {p}) \ {x})
      BY <2>2, <1>3, <1>6
    <3>2. sum(T \ {x}) = fun[p] + sum((T \ {x}) \ {p})
      BY <2>2, <1>3, <1>6
    <3>3. (T \ {p}) \ {x} = (T \ {x}) \ {p} /\ sum((T \ {x}) \ {p}) \in Int
      BY <1>3, <1>6
    <3>4. fun[x] \in Int /\ fun[p] \in Int
      BY <1>4, <1>6
    <3> HIDE DEF sum, Good, B
    <3>5. sum(T) = fun[p] + (fun[x] + sum((T \ {x}) \ {p}))
      BY <3>1, <3>3, <1>6
    <3> QED
      BY <3>2, <3>3, <3>4, <3>5
  <2> QED
    BY <2>1, <2>2
<1> HIDE DEF sum
<1> QED
  BY <1>4, <1>7, <1>8

\* The two parts of SumTakesOut for a subset of the set the terms are known on.
LEMMA SumIsInt ==
    ASSUME NEW S, IsFiniteSet(S), NEW fun, \A x \in S : fun[x] \in Int,
           NEW T \in SUBSET S
    PROVE  SumFunctionOnSet(fun, T) \in Int
BY SumTakesOut, FS_Subset

\* Any element may be taken out of the sum over a subset.
LEMMA SumWithout ==
    ASSUME NEW S, IsFiniteSet(S), NEW fun, \A x \in S : fun[x] \in Int,
           NEW T \in SUBSET S, NEW x \in T
    PROVE  SumFunctionOnSet(fun, T) = fun[x] + SumFunctionOnSet(fun, T \ {x})
<1>1. IsFiniteSet(T) /\ \A y \in T : fun[y] \in Int
  BY FS_Subset
<1> QED
  BY <1>1, SumTakesOut

\* The sum of a linear combination is the combination of the sums.
Combines(S, h, c, f, d, g) ==
    /\ IsFiniteSet(S) /\ c \in Int /\ d \in Int
    /\ \A x \in S : f[x] \in Int /\ g[x] \in Int /\ h[x] \in Int /\ h[x] = c * f[x] + d * g[x]

\* The combination moves out of the sum.
LEMMA SumIsLinear ==
    ASSUME NEW S, NEW f, NEW g, NEW h, NEW c, NEW d, Combines(S, h, c, f, d, g)
    PROVE  SumFunctionOnSet(h, S) = c * SumFunctionOnSet(f, S) + d * SumFunctionOnSet(g, S)
<1> USE DEF Combines
<1> DEFINE sf(T) == SumFunctionOnSet(f, T)
           sg(T) == SumFunctionOnSet(g, T)
           sh(T) == SumFunctionOnSet(h, T)
           W == {T \in SUBSET S : sh(T) = c * sf(T) + d * sg(T)}
<1>1. {} \in W
  BY SumOfNone
<1>2. ASSUME NEW T \in SUBSET S, NEW x \in T, T \ {x} \in W
      PROVE  T \in W
  <2>1. /\ sf(T) = f[x] + sf(T \ {x}) /\ sf(T \ {x}) \in Int
        /\ sg(T) = g[x] + sg(T \ {x}) /\ sg(T \ {x}) \in Int
        /\ sh(T) = h[x] + sh(T \ {x}) /\ sh(T \ {x}) \in Int
    BY SumIsInt, SumWithout
  <2>2. sh(T \ {x}) = c * sf(T \ {x}) + d * sg(T \ {x}) /\ h[x] = c * f[x] + d * g[x]
        /\ f[x] \in Int /\ g[x] \in Int /\ h[x] \in Int
    BY <1>2
  <2> HIDE DEF sf, sg, sh
  <2>3. sh(T) = c * sf(T) + d * sg(T)
    BY <2>1, <2>2
  <2> QED
    BY <2>3
<1> HIDE DEF W
<1>3. \A T \in SUBSET S : \A x \in T : T \ {x} \in W => T \in W
  BY <1>2
<1>4. \A T \in SUBSET S : T \in W
  BY <1>1, <1>3, FiniteSetInduction
<1> QED
  BY <1>4 DEF W

\* Larger terms have a larger sum.
LEMMA SumIsMonotone ==
    ASSUME NEW S, NEW f, NEW g, IsFiniteSet(S),
           \A x \in S : f[x] \in Int /\ g[x] \in Int, \A x \in S : f[x] <= g[x]
    PROVE  SumFunctionOnSet(f, S) <= SumFunctionOnSet(g, S)
<1> DEFINE sf(T) == SumFunctionOnSet(f, T)
           sg(T) == SumFunctionOnSet(g, T)
           W == {T \in SUBSET S : sf(T) <= sg(T)}
<1>1. {} \in W
  BY SumOfNone
<1>2. ASSUME NEW T \in SUBSET S, NEW x \in T, T \ {x} \in W
      PROVE  T \in W
  <2>1. /\ sf(T) = f[x] + sf(T \ {x}) /\ sf(T \ {x}) \in Int
        /\ sg(T) = g[x] + sg(T \ {x}) /\ sg(T \ {x}) \in Int
    BY SumIsInt, SumWithout, SMTT(30)
  <2>2. sf(T \ {x}) <= sg(T \ {x}) /\ f[x] <= g[x] /\ f[x] \in Int /\ g[x] \in Int
    BY <1>2
  <2> HIDE DEF sf, sg
  <2> QED
    BY <2>1, <2>2
<1> HIDE DEF W
<1>3. \A T \in SUBSET S : \A x \in T : T \ {x} \in W => T \in W
  BY <1>2
<1>4. \A T \in SUBSET S : T \in W
  BY <1>1, <1>3, FiniteSetInduction
<1> QED
  BY <1>4 DEF W

\* A sum depends on the values on its set only.
LEMMA SumAgrees ==
    ASSUME NEW S, NEW f, NEW g, IsFiniteSet(S), \A x \in S : f[x] \in Int,
           \A x \in S : f[x] = g[x]
    PROVE  SumFunctionOnSet(f, S) = SumFunctionOnSet(g, S)
<1>1. \A x \in S : f[x] \in Int /\ g[x] \in Int /\ f[x] <= g[x] /\ g[x] <= f[x]
  OBVIOUS
<1>2. SumFunctionOnSet(f, S) <= SumFunctionOnSet(g, S)
      /\ SumFunctionOnSet(g, S) <= SumFunctionOnSet(f, S)
  BY <1>1, SumIsMonotone
<1>3. SumFunctionOnSet(f, S) \in Int /\ SumFunctionOnSet(g, S) \in Int
  BY <1>1, SumTakesOut
<1> QED
  BY <1>2, <1>3

\* The sum over a union of disjoint sets.
LEMMA SumOfDisjoint ==
    ASSUME NEW S, NEW f, NEW A, NEW B, IsFiniteSet(S), \A x \in S : f[x] \in Int,
           A \in SUBSET S, B \in SUBSET S, A \cap B = {}
    PROVE  SumFunctionOnSet(f, A \cup B) = SumFunctionOnSet(f, A) + SumFunctionOnSet(f, B)
<1> DEFINE sum(T) == SumFunctionOnSet(f, T)
           W == {T \in SUBSET S : T \cap B # {} \/ sum(T \cup B) = sum(T) + sum(B)}
<1>0. \A T \in SUBSET S : sum(T) \in Int
  BY SumIsInt
<1>1. {} \in W
  <2>1. {} \cup B = B
    OBVIOUS
  <2> QED
    BY <1>0, <2>1, SumOfNone
<1>2. ASSUME NEW T \in SUBSET S, NEW x \in T, T \ {x} \in W
      PROVE  T \in W
  <2>1. CASE T \cap B # {}
    BY <2>1
  <2>2. CASE T \cap B = {}
    <3>1. (T \cup B) \ {x} = (T \ {x}) \cup B /\ x \in T \cup B /\ T \cup B \in SUBSET S
          /\ (T \ {x}) \cap B = {} /\ T \ {x} \in SUBSET S
      BY <2>2
    <3>2. sum((T \ {x}) \cup B) = sum(T \ {x}) + sum(B)
      BY <1>2, <3>1
    <3>3. sum(T \cup B) = f[x] + sum((T \cup B) \ {x}) /\ sum(T) = f[x] + sum(T \ {x})
      BY <3>1, SumWithout
    <3>4. f[x] \in Int /\ sum(T \ {x}) \in Int /\ sum(B) \in Int
      BY <1>0, <3>1
    <3> HIDE DEF sum
    <3>5. sum(T \cup B) = f[x] + (sum(T \ {x}) + sum(B))
      BY <3>1, <3>2, <3>3
    <3>6. sum(T \cup B) = sum(T) + sum(B)
      BY <3>3, <3>4, <3>5
    <3> QED
      BY <3>6
  <2> QED
    BY <2>1, <2>2
<1>3. A \in W
  <2> HIDE DEF W
  <2> QED
    BY <1>1, <1>2, FiniteSetInduction
<1> QED
  BY <1>3

\* The rows of a matrix first, or its columns.
SumsOfRows(row, m, I, J) ==
    /\ IsFiniteSet(I) /\ IsFiniteSet(J)
    /\ \A i \in I : row[i] = SumFunctionOnSet(m[i], J) /\ \A j \in J : m[i][j] \in Int

Transposed(m, tr, I, J) == \A i \in I, j \in J : tr[j][i] = m[i][j]

\* A double sum may be taken in either order.
LEMMA SumSwaps ==
    ASSUME NEW I, NEW J, NEW m, NEW row, NEW col, NEW tr, SumsOfRows(row, m, I, J),
           SumsOfRows(col, tr, J, I), Transposed(m, tr, I, J)
    PROVE  SumFunctionOnSet(row, I) = SumFunctionOnSet(col, J)
<1> USE DEF SumsOfRows, Transposed
<1> DEFINE c(T) == [j \in J |-> SumFunctionOnSet(tr[j], T)]
           W == {T \in SUBSET I : SumFunctionOnSet(row, T) = SumFunctionOnSet(c(T), J)}
<1>0. /\ \A i \in I : row[i] \in Int
      /\ \A T \in SUBSET I : \A j \in J : c(T)[j] \in Int
  <2>1. \A i \in I : row[i] \in Int
    BY SumTakesOut
  <2>2. ASSUME NEW j \in J, NEW T \in SUBSET I PROVE SumFunctionOnSet(tr[j], T) \in Int
    <3>1. \A i \in I : tr[j][i] \in Int
      OBVIOUS
    <3> QED
      BY <3>1, SumIsInt
  <2> QED
    BY <2>1, <2>2
<1>1. {} \in W
  <2>1. \A j \in J : c({})[j] = 0
    BY SumOfNone
  <2> DEFINE z == c({})
  <2>2. \A j \in J : z[j] \in Int /\ z[j] = 0 * z[j] + 0 * z[j]
    BY <2>1
  <2> HIDE DEF z
  <2>a. Combines(J, z, 0, z, 0, z)
    BY <2>2 DEF Combines
  <2>3. SumFunctionOnSet(z, J) = 0 * SumFunctionOnSet(z, J) + 0 * SumFunctionOnSet(z, J)
    BY <2>a, SumIsLinear
  <2>4. SumFunctionOnSet(z, J) \in Int
    BY <2>2, SumTakesOut
  <2>5. SumFunctionOnSet(z, J) = 0
    BY <2>3, <2>4
  <2> QED
    BY <2>5, SumOfNone DEF z
<1>2. ASSUME NEW T \in SUBSET I, NEW i \in T, T \ {i} \in W
      PROVE  T \in W
  <2> DEFINE a == c(T)  b == c(T \ {i})  r == m[i]
  <2>1. \A j \in J : a[j] \in Int /\ b[j] \in Int /\ r[j] \in Int
    BY <1>0
  <2>2. ASSUME NEW j \in J PROVE a[j] = 1 * r[j] + 1 * b[j]
    <3>1. \A k \in I : tr[j][k] \in Int
      OBVIOUS
    <3>2. SumFunctionOnSet(tr[j], T) = tr[j][i] + SumFunctionOnSet(tr[j], T \ {i})
      BY <3>1, SumWithout, SMTT(30)
    <3>3. a[j] = r[j] + b[j]
      BY <3>2
    <3> HIDE DEF a, b, r
    <3> QED
      BY <2>1, <3>3
  <2>3. SumFunctionOnSet(row, T) = row[i] + SumFunctionOnSet(row, T \ {i})
    BY <1>0, SumWithout
  <2>4. row[i] = SumFunctionOnSet(r, J) /\ SumFunctionOnSet(row, T \ {i}) = SumFunctionOnSet(b, J)
    BY <1>2
  <2> HIDE DEF a, b, r
  <2>a. Combines(J, a, 1, r, 1, b)
    BY <2>1, <2>2 DEF Combines
  <2>5. SumFunctionOnSet(a, J) = 1 * SumFunctionOnSet(r, J) + 1 * SumFunctionOnSet(b, J)
    BY <2>a, SumIsLinear
  <2>6. SumFunctionOnSet(b, J) \in Int /\ SumFunctionOnSet(r, J) \in Int
    BY <2>1, SumTakesOut
  <2>7. SumFunctionOnSet(row, T) = SumFunctionOnSet(a, J)
    BY <2>3, <2>4, <2>5, <2>6
  <2> QED
    BY <2>7 DEF a
<1>3. I \in W
  <2> HIDE DEF W
  <2> QED
    BY <1>1, <1>2, FiniteSetInduction
<1>4. \A j \in J : c(I)[j] \in Int /\ c(I)[j] = col[j]
  BY <1>0
<1>5. SumFunctionOnSet(c(I), J) = SumFunctionOnSet(col, J)
  <2> DEFINE k == c(I)
  <2> HIDE DEF k
  <2>1. \A j \in J : k[j] \in Int /\ k[j] = col[j]
    BY <1>4 DEF k
  <2>2. SumFunctionOnSet(k, J) = SumFunctionOnSet(col, J)
    BY <2>1, SumAgrees
  <2> QED
    BY <2>2 DEF k
<1> QED
  BY <1>3, <1>5

\* A common factor moves out of the sum.
LEMMA SumIsScaled ==
    ASSUME NEW S, NEW f, NEW h, NEW c, IsFiniteSet(S), c \in Int,
           \A x \in S : f[x] \in Int /\ h[x] \in Int, \A x \in S : h[x] = c * f[x]
    PROVE  SumFunctionOnSet(h, S) = c * SumFunctionOnSet(f, S)
<1> DEFINE d == 0
<1>1. d \in Int /\ \A x \in S : h[x] = c * f[x] + d * f[x]
  OBVIOUS
<1> HIDE DEF d
<1>2. SumFunctionOnSet(h, S) = c * SumFunctionOnSet(f, S) + d * SumFunctionOnSet(f, S)
  <2>1. Combines(S, h, c, f, d, f)
    BY <1>1 DEF Combines
  <2> QED
    BY <2>1, SumIsLinear
<1>3. SumFunctionOnSet(f, S) \in Int
  BY SumTakesOut
<1> QED
  BY <1>2, <1>3 DEF d

\* A sum of ones counts.
LEMMA SumOfOnes ==
    ASSUME NEW S, NEW f, IsFiniteSet(S), \A x \in S : f[x] = 1
    PROVE  SumFunctionOnSet(f, S) = Cardinality(S)
<1> DEFINE W == {T \in SUBSET S : SumFunctionOnSet(f, T) = Cardinality(T)}
<1>1. {} \in W
  BY SumOfNone, FS_EmptySet
<1>2. ASSUME NEW T \in SUBSET S, NEW x \in T, T \ {x} \in W
      PROVE  T \in W
  <2>1. SumFunctionOnSet(f, T) = f[x] + SumFunctionOnSet(f, T \ {x})
    BY SumWithout
  <2>2. IsFiniteSet(T) /\ Cardinality(T) \in Nat /\ Cardinality(T \ {x}) = Cardinality(T) - 1
    BY FS_Subset, FS_RemoveElement, FS_CardinalityType
  <2> QED
    BY <1>2, <2>1, <2>2
<1> HIDE DEF W
<1>3. \A T \in SUBSET S : \A x \in T : T \ {x} \in W => T \in W
  BY <1>2
<1>4. \A T \in SUBSET S : T \in W
  BY <1>1, <1>3, FiniteSetInduction
<1> QED
  BY <1>4 DEF W

\* A sum of natural numbers is one.
LEMMA SumIsNat ==
    ASSUME NEW S, NEW f, IsFiniteSet(S), \A x \in S : f[x] \in Nat
    PROVE  SumFunctionOnSet(f, S) \in Nat
<1> DEFINE z == [x \in S |-> 0 * f[x]]
<1>1. \A x \in S : z[x] \in Int /\ f[x] \in Int /\ z[x] = 0 * f[x] /\ z[x] <= f[x]
  OBVIOUS
<1> HIDE DEF z
<1>2. SumFunctionOnSet(z, S) <= SumFunctionOnSet(f, S)
  BY <1>1, SumIsMonotone
<1>3. SumFunctionOnSet(z, S) = 0 * SumFunctionOnSet(f, S)
  BY <1>1, SumIsScaled, 0 \in Int
<1>4. SumFunctionOnSet(f, S) \in Int
  BY <1>1, SumTakesOut
<1> QED
  BY <1>2, <1>3, <1>4

\* A sum of zeros.
LEMMA SumOfZeros ==
    ASSUME NEW S, NEW f, IsFiniteSet(S), \A x \in S : f[x] = 0
    PROVE  SumFunctionOnSet(f, S) = 0
<1>1. \A x \in S : f[x] \in Int /\ f[x] = 0 * f[x]
  OBVIOUS
<1>2. Combines(S, f, 0, f, 0, f)
  BY <1>1 DEF Combines
<1>3. SumFunctionOnSet(f, S) = 0 * SumFunctionOnSet(f, S) + 0 * SumFunctionOnSet(f, S)
  BY <1>2, SumIsLinear
<1>4. SumFunctionOnSet(f, S) \in Int
  BY <1>1, SumTakesOut
<1> QED
  BY <1>3, <1>4

\* Functions that differ in one place.
DifferAt(S, f, g, i) ==
    /\ IsFiniteSet(S) /\ i \in S
    /\ \A x \in S : f[x] \in Int /\ g[x] \in Int
    /\ \A x \in S \ {i} : g[x] = f[x]

\* What the one change does to the sum.
LEMMA SumChanges ==
    ASSUME NEW S, NEW f, NEW g, NEW i, DifferAt(S, f, g, i)
    PROVE  SumFunctionOnSet(g, S) = SumFunctionOnSet(f, S) + g[i] - f[i]
<1> USE DEF DifferAt
<1> DEFINE R == S \ {i}
<1>1. IsFiniteSet(R) /\ R \subseteq S
  BY FS_RemoveElement
<1>2. SumFunctionOnSet(f, S) = f[i] + SumFunctionOnSet(f, R)
      /\ SumFunctionOnSet(g, S) = g[i] + SumFunctionOnSet(g, R)
  BY SumTakesOut
<1>3. /\ \A x \in R : f[x] \in Int
      /\ \A x \in R : f[x] = g[x]
  OBVIOUS
<1> HIDE DEF R
<1>4. SumFunctionOnSet(f, R) = SumFunctionOnSet(g, R) /\ SumFunctionOnSet(f, R) \in Int
  BY <1>1, <1>3, SumAgrees, SumTakesOut
<1>5. f[i] \in Int /\ g[i] \in Int
  OBVIOUS
<1> QED
  BY <1>2, <1>4, <1>5

\* Trading the elements outside G for the rest of G, when what is outside weighs
\* nothing or less and what is inside nothing or more.
LEMMA SumDominates ==
    ASSUME NEW N, NEW f, NEW A, NEW G, IsFiniteSet(N), \A x \in N : f[x] \in Int,
           A \in SUBSET N, G \in SUBSET N, \A x \in G \ A : 0 <= f[x], \A x \in A \ G : f[x] <= 0
    PROVE  SumFunctionOnSet(f, A) <= SumFunctionOnSet(f, G)
<1> DEFINE z == [x \in N |-> 0]
<1>1. /\ IsFiniteSet(A \cap G) /\ IsFiniteSet(A \ G) /\ IsFiniteSet(G \ A)
      /\ IsFiniteSet(A) /\ IsFiniteSet(G)
  BY FS_Subset
<1>2. SumFunctionOnSet(f, A \cap G) \in Int /\ SumFunctionOnSet(f, A \ G) \in Int
      /\ SumFunctionOnSet(f, G \ A) \in Int
  BY SumIsInt
<1>3. SumFunctionOnSet(f, A \ G) <= 0
  <2>1. /\ \A x \in A \ G : z[x] = 0
        /\ \A x \in A \ G : f[x] \in Int /\ z[x] \in Int
        /\ \A x \in A \ G : f[x] <= z[x]
    OBVIOUS
  <2> HIDE DEF z
  <2>2. SumFunctionOnSet(f, A \ G) <= SumFunctionOnSet(z, A \ G)
    BY <1>1, <2>1, SumIsMonotone
  <2>3. SumFunctionOnSet(z, A \ G) = 0
    BY <1>1, <2>1, SumOfZeros
  <2> QED
    BY <2>2, <2>3
<1>4. SumFunctionOnSet(f, G \ A) >= 0
  <2>1. \A x \in G \ A : f[x] \in Nat
    OBVIOUS
  <2>2. SumFunctionOnSet(f, G \ A) \in Nat
    BY <1>1, <2>1, SumIsNat
  <2> QED
    BY <2>2
<1>5. SumFunctionOnSet(f, A) = SumFunctionOnSet(f, A \cap G) + SumFunctionOnSet(f, A \ G)
  <2>1. A = (A \cap G) \cup (A \ G) /\ (A \cap G) \cap (A \ G) = {}
        /\ A \cap G \in SUBSET A /\ A \ G \in SUBSET A
    OBVIOUS
  <2>2. \A x \in A : f[x] \in Int
    OBVIOUS
  <2> QED
    BY <1>1, <2>1, <2>2, SumOfDisjoint
<1>6. SumFunctionOnSet(f, G) = SumFunctionOnSet(f, A \cap G) + SumFunctionOnSet(f, G \ A)
  <2>1. G = (A \cap G) \cup (G \ A) /\ (A \cap G) \cap (G \ A) = {}
        /\ A \cap G \in SUBSET G /\ G \ A \in SUBSET G
    OBVIOUS
  <2>2. \A x \in G : f[x] \in Int
    OBVIOUS
  <2> QED
    BY <1>1, <2>1, <2>2, SumOfDisjoint
<1> QED
  BY <1>2, <1>3, <1>4, <1>5, <1>6

\* A larger set has a larger sum of natural numbers.
LEMMA SumGrows ==
    ASSUME NEW N, NEW f, NEW A, NEW G, IsFiniteSet(N), \A x \in N : f[x] \in Nat,
           A \in SUBSET G, G \in SUBSET N
    PROVE  SumFunctionOnSet(f, A) <= SumFunctionOnSet(f, G)
<1>1. /\ \A x \in N : f[x] \in Int
      /\ A \in SUBSET N
      /\ \A x \in G \ A : 0 <= f[x]
      /\ \A x \in A \ G : f[x] <= 0
  OBVIOUS
<1> QED
  BY <1>1, SumDominates

\* Every set of naturals has a least element.
LEMMA LeastNatural ==
    ASSUME NEW N, N \subseteq Nat, N # {}
    PROVE  \E m \in N : \A n \in N : m <= n
<1> DEFINE W == {n \in Nat : \A k \in 0 .. n : k \notin N}
<1>1. SUFFICES ASSUME \A m \in N : \E n \in N : n < m
               PROVE  FALSE
  OBVIOUS
<1>2. 0 \in W
  BY <1>1
<1>3. ASSUME NEW n \in Nat, n \in W PROVE n + 1 \in W
  <2>1. \A k \in 0 .. n : k \notin N
    BY <1>3
  <2>2. n + 1 \notin N
    <3> SUFFICES ASSUME n + 1 \in N PROVE FALSE
      OBVIOUS
    <3>1. PICK k \in N : k < n + 1
      BY <1>1
    <3>2. k \in 0 .. n
      BY <3>1
    <3> QED
      BY <2>1, <3>2
  <2>3. \A k \in 0 .. n + 1 : k \in 0 .. n \/ k = n + 1
    OBVIOUS
  <2> QED
    BY <2>1, <2>2, <2>3
<1> HIDE DEF W
<1>4. \A n \in Nat : n \in W
  BY <1>2, <1>3, NatSetInduction
<1>5. PICK n \in N : n \in W
  BY <1>4
<1>6. n \in 0 .. n
  OBVIOUS
<1> QED
  BY <1>5, <1>6 DEF W

-------------------------------------------------------------------------------
(***************************************************************************)
(* Series: parts of them, their moments and those of their mixes.          *)
(***************************************************************************)
\* The CHOOSE of the library's Max, for two integers.
LEMMA MaxOfTwo ==
    ASSUME NEW a, NEW b, a \in Int, b \in Int
    PROVE  Max({a, b}) = IF a >= b THEN a ELSE b
<1> DEFINE m == IF a >= b THEN a ELSE b
<1>1. m \in {a, b} /\ \A y \in {a, b} : m >= y
  OBVIOUS
<1>2. \A n \in {a, b} : (\A y \in {a, b} : n >= y) => n = m
  OBVIOUS
<1> QED
  BY <1>1, <1>2 DEF Max

\* The library's Min, for any set of naturals.
LEMMA MinOfNaturals ==
    ASSUME NEW N, N \subseteq Nat, N # {}
    PROVE  Min(N) \in N /\ \A n \in N : Min(N) <= n
BY LeastNatural DEF Min

\* A part of a sequence, as a series.
IsSlice(V, s, m, n, L) ==
    s \in Seq(V) /\ m \in Nat \ {0} /\ n \in Int /\ L \in Nat /\ n <= Len(s) /\ L = n - m + 1

IsPart(t, V, s, m, L) == t \in [1 .. L -> V] /\ \A k \in 1 .. L : t[k] = s[m + k - 1]

\* SubSeq gives that part.
LEMMA Slice ==
    ASSUME NEW V, NEW s, NEW m, NEW n, NEW L, IsSlice(V, s, m, n, L)
    PROVE  IsPart(SubSeq(s, m, n), V, s, m, L)
<1> USE DEF IsSlice
<1> DEFINE t == SubSeq(s, m, n)
<1>1. m \in Int /\ \A k \in m .. n : s[k] \in V
  OBVIOUS
<1>2. /\ t \in Seq(V) /\ Len(t) = IF m <= n THEN n - m + 1 ELSE 0
      /\ \A k \in 1 .. n - m + 1 : t[k] = s[m + k - 1]
  BY <1>1, SubSeqProperties
<1>3. Len(t) = L
  BY <1>1, <1>2
<1> HIDE DEF t
<1>4. t \in [1 .. Len(t) -> V]
  BY <1>2
<1>5. \A k \in 1 .. L : t[k] = s[m + k - 1]
  BY <1>2
<1> QED
  BY <1>3, <1>4, <1>5 DEF t, IsPart

\* What Newest keeps of a series.
Keeps(V, s, n, L) == s \in Seq(V) /\ n \in Nat /\ L = IF Len(s) < n THEN Len(s) ELSE n

\* s[-n:] of Python, whether or not the series has n elements.
LEMMA NewestKeeps ==
    ASSUME NEW V, NEW s, NEW n, NEW L, Keeps(V, s, n, L)
    PROVE  /\ L \in Nat /\ Newest(s, n) \in [1 .. L -> V]
           /\ \A k \in 1 .. L : Newest(s, n)[k] = s[Len(s) - L + k]
<1> USE DEF Keeps
<1> DEFINE m == Len(s) - n + 1  j == Len(s) - L + 1
<1>1. m \in Int /\ L \in Nat /\ j \in Nat \ {0} /\ Len(s) \in Int /\ Len(s) <= Len(s)
      /\ L = Len(s) - j + 1 /\ 1 \in Int
  OBVIOUS
<1>2. Max({1, m}) = j
  <2>1. (IF 1 >= m THEN 1 ELSE m) = j
    <3>1. Len(s) \in Nat /\ n \in Nat
      OBVIOUS
    <3>2. CASE Len(s) < n
      BY <3>1, <3>2
    <3>3. CASE ~(Len(s) < n)
      BY <3>1, <3>3
    <3> QED
      BY <3>2, <3>3
  <2> HIDE DEF m
  <2>2. Max({1, m}) = IF 1 >= m THEN 1 ELSE m
    BY <1>1, MaxOfTwo
  <2> QED
    BY <2>1, <2>2
<1>3. Newest(s, n) = SubSeq(s, j, Len(s))
  BY <1>2 DEF Newest
<1>4. \A k \in 1 .. L : j + k - 1 = Len(s) - L + k
  OBVIOUS
<1> HIDE DEF j
<1>5. /\ SubSeq(s, j, Len(s)) \in [1 .. L -> V]
      /\ \A k \in 1 .. L : SubSeq(s, j, Len(s))[k] = s[j + k - 1]
  <2> DEFINE e == Len(s)
  <2>1. IsSlice(V, s, j, e, L)
    BY <1>1 DEF IsSlice
  <2> HIDE DEF e
  <2>2. IsPart(SubSeq(s, j, e), V, s, j, L)
    BY <2>1, Slice
  <2> QED
    BY <2>2 DEF e, IsPart
<1> QED
  BY <1>1, <1>3, <1>4, <1>5

\* Cutting a hazard series to a length it has.
LEMMA NewestCuts ==
    ASSUME NEW s, NEW L, s \in Seq(Nat), L \in Nat, L <= Len(s)
    PROVE  Newest(s, L) \in [1 .. L -> Int]
<1>1. Keeps(Nat, s, L, L)
  BY DEF Keeps
<1>2. Newest(s, L) \in [1 .. L -> Nat]
  BY <1>1, NewestKeeps
<1> QED
  BY <1>2

\* A series is a sequence.
LEMMA SeriesLength ==
    ASSUME NEW L, NEW V, NEW x, L \in Nat, x \in [1 .. L -> V]
    PROVE  Len(x) = L /\ DOMAIN x = 1 .. L /\ x \in Seq(V)
<1>1. x \in Seq(V)
  OBVIOUS
<1> QED
  BY <1>1

Times(x, y, K) == [k \in K |-> x[k] * y[k]]

\* A moment in sums over the instants.
LEMMA MomentUnfolds ==
    ASSUME NEW L, NEW x, NEW y, L \in Nat, x \in [1 .. L -> Int], y \in [1 .. L -> Int]
    PROVE  /\ IsFiniteSet(1 .. L)
           /\ SumFunctionOnSet(x, 1 .. L) \in Int /\ SumFunctionOnSet(y, 1 .. L) \in Int
           /\ SumFunctionOnSet(Times(x, y, 1 .. L), 1 .. L) \in Int
           /\ Moment(x, y) = L * SumFunctionOnSet(Times(x, y, 1 .. L), 1 .. L)
                                 - SumFunctionOnSet(x, 1 .. L) * SumFunctionOnSet(y, 1 .. L)
           /\ Moment(x, y) \in Int
<1>1. IsFiniteSet(1 .. L)
  BY FS_Interval
<1>2. \A k \in 1 .. L : x[k] \in Int /\ y[k] \in Int /\ Times(x, y, 1 .. L)[k] \in Int
  BY DEF Times
<1>3. SumFunctionOnSet(x, 1 .. L) \in Int /\ SumFunctionOnSet(y, 1 .. L) \in Int
      /\ SumFunctionOnSet(Times(x, y, 1 .. L), 1 .. L) \in Int
  BY <1>1, <1>2, SumTakesOut
<1>4. Len(x) = L /\ DOMAIN x = 1 .. L /\ DOMAIN y = 1 .. L
  BY SeriesLength
<1>5. Moment(x, y) = L * SumFunctionOnSet(Times(x, y, 1 .. L), 1 .. L)
                         - SumFunctionOnSet(x, 1 .. L) * SumFunctionOnSet(y, 1 .. L)
  BY <1>4 DEF Moment, Total, SumFunction, Times
<1> QED
  BY <1>1, <1>3, <1>5

\* The covariance matrix is symmetric.
LEMMA MomentIsSymmetric ==
    ASSUME NEW L, NEW x, NEW y, L \in Nat, x \in [1 .. L -> Int], y \in [1 .. L -> Int]
    PROVE  Moment(x, y) = Moment(y, x)
<1>1. Times(x, y, 1 .. L) = Times(y, x, 1 .. L)
  BY DEF Times
<1>2. Moment(x, y) = L * SumFunctionOnSet(Times(x, y, 1 .. L), 1 .. L)
                         - SumFunctionOnSet(x, 1 .. L) * SumFunctionOnSet(y, 1 .. L)
      /\ Moment(y, x) = L * SumFunctionOnSet(Times(y, x, 1 .. L), 1 .. L)
                         - SumFunctionOnSet(y, 1 .. L) * SumFunctionOnSet(x, 1 .. L)
      /\ SumFunctionOnSet(x, 1 .. L) \in Int /\ SumFunctionOnSet(y, 1 .. L) \in Int
  BY MomentUnfolds
<1> QED
  BY <1>1, <1>2

\* The weighted sum of the series x[i] at every instant.
Mix(h, x, I, K) == [k \in K |-> SumFunctionOnSet([i \in I |-> h[i] * x[i][k]], I)]

\* A mix is a series.
LEMMA MixType ==
    ASSUME NEW K, NEW I, NEW x, NEW h, IsFiniteSet(I), x \in [I -> [K -> Int]],
           h \in [I -> Int]
    PROVE  Mix(h, x, I, K) \in [K -> Int]
<1> SUFFICES ASSUME NEW k \in K PROVE SumFunctionOnSet([i \in I |-> h[i] * x[i][k]], I) \in Int
  BY DEF Mix
<1> DEFINE f == [i \in I |-> h[i] * x[i][k]]
<1>1. \A i \in I : f[i] \in Int
  OBVIOUS
<1> HIDE DEF f
<1>2. SumFunctionOnSet(f, I) \in Int
  BY <1>1, SumTakesOut
<1> QED
  BY <1>2 DEF f

WeightedProducts(s, h, y, x, I, K) ==
    /\ IsFiniteSet(K) /\ IsFiniteSet(I)
    /\ y \in [K -> Int] /\ x \in [I -> [K -> Int]] /\ h \in [I -> Int]
    /\ \A i \in I : s[i] = h[i] * SumFunctionOnSet(Times(y, x[i], K), K)

\* The sum over the instants of y times the mix is the weighted sum of the products.
LEMMA WeightsAndInstantsSwap ==
    ASSUME NEW K, NEW I, NEW y, NEW x, NEW h, NEW s, WeightedProducts(s, h, y, x, I, K)
    PROVE  SumFunctionOnSet(s, I) = SumFunctionOnSet(Times(y, Mix(h, x, I, K), K), K)
<1> USE DEF WeightedProducts
<1> DEFINE m == [i \in I |-> [k \in K |-> h[i] * (y[k] * x[i][k])]]
           tr == [k \in K |-> [i \in I |-> h[i] * (y[k] * x[i][k])]]
           p == Mix(h, x, I, K)
           c == Times(y, p, K)
<1>1. \A i \in I : \A k \in K : h[i] \in Int /\ y[k] \in Int /\ x[i][k] \in Int
  OBVIOUS
<1>2. \A i \in I, k \in K : m[i][k] \in Int /\ tr[k][i] = m[i][k]
  BY <1>1
<1>3. ASSUME NEW i \in I PROVE s[i] = SumFunctionOnSet(m[i], K)
  <2> DEFINE f == Times(y, x[i], K)  g == m[i]
  <2>1. \A k \in K : f[k] \in Int /\ g[k] \in Int /\ g[k] = h[i] * f[k]
    BY <1>1 DEF Times
  <2> HIDE DEF f, g
  <2>2. SumFunctionOnSet(g, K) = h[i] * SumFunctionOnSet(f, K)
    BY <2>1, SumIsScaled
  <2> QED
    BY <2>2 DEF f, g
<1>4. ASSUME NEW k \in K PROVE c[k] = SumFunctionOnSet(tr[k], I)
  <2> DEFINE f == [i \in I |-> h[i] * x[i][k]]  g == tr[k]
  <2>1. \A i \in I : f[i] \in Int /\ g[i] \in Int /\ g[i] = y[k] * f[i]
    <3> SUFFICES ASSUME NEW i \in I PROVE f[i] \in Int /\ g[i] \in Int /\ g[i] = y[k] * f[i]
      OBVIOUS
    <3>1. \A a, b, d \in Int : a * (b * d) = b * (a * d) /\ a * (b * d) \in Int /\ a * d \in Int
      OBVIOUS
    <3>2. f[i] = h[i] * x[i][k] /\ g[i] = h[i] * (y[k] * x[i][k])
      OBVIOUS
    <3> QED
      BY <1>1, <3>1, <3>2
  <2>2. c[k] = y[k] * SumFunctionOnSet(f, I)
    BY DEF Times, Mix
  <2> HIDE DEF f, g, c
  <2>3. SumFunctionOnSet(g, I) = y[k] * SumFunctionOnSet(f, I)
    <3>1. \A i \in I : f[i] \in Int /\ g[i] \in Int
      BY <2>1
    <3>2. y[k] \in Int /\ \A i \in I : g[i] = y[k] * f[i]
      BY <2>1
    <3> QED
      BY <3>1, <3>2, SumIsScaled
  <2> QED
    BY <2>2, <2>3 DEF g
<1> HIDE DEF m, tr, c
<1>5. /\ \A i \in I, k \in K : m[i][k] \in Int
      /\ \A i \in I, k \in K : tr[k][i] = m[i][k]
  BY <1>2
<1>6. /\ \A i \in I : s[i] = SumFunctionOnSet(m[i], K)
      /\ \A k \in K : c[k] = SumFunctionOnSet(tr[k], I)
  BY <1>3, <1>4
<1>7. SumFunctionOnSet(s, I) = SumFunctionOnSet(c, K)
  <2>1. SumsOfRows(s, m, I, K) /\ SumsOfRows(c, tr, K, I) /\ Transposed(m, tr, I, K)
    BY <1>5, <1>6 DEF SumsOfRows, Transposed
  <2> QED
    BY <2>1, SumSwaps
<1> QED
  BY <1>7 DEF c

\* s[i] is the weighted moment of y and the i-th series.
Moments(s, h, y, x, I, L) ==
    /\ L \in Nat /\ IsFiniteSet(I)
    /\ y \in [1 .. L -> Int] /\ x \in [I -> [1 .. L -> Int]] /\ h \in [I -> Int]
    /\ \A i \in I : s[i] = h[i] * Moment(y, x[i])

\* The moment with a mix of series is the mix of the moments.
LEMMA MomentOfMix ==
    ASSUME NEW L, NEW I, NEW y, NEW x, NEW h, NEW s, Moments(s, h, y, x, I, L)
    PROVE  SumFunctionOnSet(s, I) = Moment(y, Mix(h, x, I, 1 .. L))
<1> USE DEF Moments
<1> DEFINE K == 1 .. L
           one == [k \in K |-> 1]
           p == Mix(h, x, I, K)
           Y == SumFunctionOnSet(y, K)
           a == [i \in I |-> h[i] * SumFunctionOnSet(Times(y, x[i], K), K)]
           b == [i \in I |-> h[i] * SumFunctionOnSet(x[i], K)]
           d == -Y
<1>1. IsFiniteSet(K) /\ p \in [K -> Int] /\ one \in [K -> Int]
  <2>1. IsFiniteSet(K) /\ one \in [K -> Int] /\ x \in [I -> [K -> Int]]
    BY FS_Interval
  <2> HIDE DEF K
  <2>2. p \in [K -> Int]
    BY <2>1, MixType
  <2> QED
    BY <2>1, <2>2
<1>2. Y \in Int /\ SumFunctionOnSet(p, K) \in Int /\ SumFunctionOnSet(Times(y, p, K), K) \in Int
      /\ Moment(y, p) = L * SumFunctionOnSet(Times(y, p, K), K) - Y * SumFunctionOnSet(p, K)
  BY <1>1, MomentUnfolds
<1>3. ASSUME NEW i \in I
      PROVE  a[i] \in Int /\ b[i] \in Int /\ s[i] \in Int /\ s[i] = L * a[i] + d * b[i]
  <2> DEFINE u == SumFunctionOnSet(Times(y, x[i], K), K)  v == SumFunctionOnSet(x[i], K)
  <2>1. h[i] \in Int /\ x[i] \in [1 .. L -> Int]
    OBVIOUS
  <2>2. u \in Int /\ v \in Int /\ Moment(y, x[i]) = L * u - Y * v
    BY <2>1, MomentUnfolds
  <2>3. a[i] = h[i] * u /\ b[i] = h[i] * v /\ s[i] = h[i] * (L * u - Y * v)
    BY <2>2
  <2> HIDE DEF u, v, a, b, Y
  <2> QED
    BY <1>2, <2>1, <2>2, <2>3, SMTT(30)
<1>4. SumFunctionOnSet(a, I) = SumFunctionOnSet(Times(y, p, K), K)
  <2>1. \A i \in I : a[i] = h[i] * SumFunctionOnSet(Times(y, x[i], K), K)
    OBVIOUS
  <2>2. y \in [K -> Int] /\ x \in [I -> [K -> Int]]
    OBVIOUS
  <2> HIDE DEF a, K, p
  <2>3. SumFunctionOnSet(a, I) = SumFunctionOnSet(Times(y, Mix(h, x, I, K), K), K)
    <3>1. WeightedProducts(a, h, y, x, I, K)
      BY <1>1, <2>1, <2>2 DEF WeightedProducts
    <3> QED
      BY <3>1, WeightsAndInstantsSwap
  <2> QED
    BY <2>3 DEF p
<1>5. SumFunctionOnSet(b, I) = SumFunctionOnSet(p, K)
  <2>1. ASSUME NEW i \in I PROVE b[i] = h[i] * SumFunctionOnSet(Times(one, x[i], K), K)
    <3>1. Times(one, x[i], K) = x[i]
      BY DEF Times
    <3> QED
      BY <3>1
  <2>2. Times(one, p, K) = p
    BY <1>1 DEF Times
  <2> HIDE DEF b, one, p
  <2>3. \A i \in I : b[i] = h[i] * SumFunctionOnSet(Times(one, x[i], K), K)
    BY <2>1
  <2>4. x \in [I -> [K -> Int]]
    OBVIOUS
  <2> HIDE DEF K
  <2>5. SumFunctionOnSet(b, I) = SumFunctionOnSet(Times(one, Mix(h, x, I, K), K), K)
    <3>1. WeightedProducts(b, h, one, x, I, K)
      BY <1>1, <2>3, <2>4 DEF WeightedProducts
    <3> QED
      BY <3>1, WeightsAndInstantsSwap
  <2> QED
    BY <2>2, <2>5 DEF p
<1> HIDE DEF a, b, d, Y, p, K
<1>6. d \in Int /\ L \in Int
  BY <1>2 DEF d
<1>7. SumFunctionOnSet(s, I) = L * SumFunctionOnSet(a, I) + d * SumFunctionOnSet(b, I)
  <2>1. \A i \in I : a[i] \in Int /\ b[i] \in Int /\ s[i] \in Int
    BY <1>3
  <2>2. \A i \in I : s[i] = L * a[i] + d * b[i]
    BY <1>3
  <2> QED
    <3>1. Combines(I, s, L, a, d, b)
      BY <2>1, <2>2, <1>6 DEF Combines
    <3> QED
      BY <3>1, SumIsLinear
<1>8. Moment(y, p) = L * SumFunctionOnSet(a, I) + d * SumFunctionOnSet(b, I)
  BY <1>2, <1>4, <1>5 DEF d
<1> QED
  BY <1>7, <1>8 DEF p, K

\* The square of the deviation from the mean, L * L times.
LEMMA MomentNonNegative ==
    ASSUME NEW L, NEW p, L \in Nat, p \in [1 .. L -> Int]
    PROVE  Moment(p, p) >= 0
<1> DEFINE K == 1 .. L
           P == SumFunctionOnSet(p, K)
           sq == Times(p, p, K)
           one == [k \in K |-> 1]
           r == [k \in K |-> (0 - 2 * L * P) * p[k] + (P * P) * one[k]]
           q == [k \in K |-> (L * p[k] - P) * (L * p[k] - P)]
           S2 == SumFunctionOnSet(sq, K)
<1>1. IsFiniteSet(K) /\ P \in Int /\ S2 \in Int /\ Moment(p, p) \in Int
      /\ Moment(p, p) = L * S2 - P * P
  BY MomentUnfolds
<1>2. \A k \in K : p[k] \in Int /\ one[k] = 1 /\ sq[k] = p[k] * p[k]
  BY DEF Times
<1>3. SumFunctionOnSet(one, K) = L
  <2>1. Cardinality(K) = L
    BY FS_Interval
  <2> QED
    BY <1>1, <1>2, <2>1, SumOfOnes
<1> DEFINE c == 0 - 2 * L * P  e == P * P  LL == L * L  u == 1
<1> HIDE DEF P, sq, S2, one, K
<1>K. IsFiniteSet(K)
  BY <1>1
<1>4. c \in Int /\ e \in Int /\ LL \in Int /\ u \in Int
  BY <1>1
<1>5. /\ \A k \in K : p[k] \in Int /\ one[k] \in Int /\ r[k] \in Int
      /\ \A k \in K : r[k] = c * p[k] + e * one[k]
  BY <1>1, <1>2
<1>6. /\ \A k \in K : sq[k] \in Int /\ r[k] \in Int /\ q[k] \in Int
      /\ \A k \in K : q[k] = LL * sq[k] + u * r[k]
      /\ \A k \in K : q[k] \in Nat
  <2> SUFFICES ASSUME NEW k \in K
               PROVE  q[k] \in Nat /\ sq[k] \in Int /\ q[k] = LL * sq[k] + u * r[k]
    BY <1>5
  <2>1. p[k] \in Int /\ sq[k] = p[k] * p[k] /\ one[k] = 1
    BY <1>2
  <2>2. q[k] = (L * p[k] - P) * (L * p[k] - P) /\ r[k] = (0 - 2 * L * P) * p[k] + (P * P) * one[k]
    OBVIOUS
  <2>3. \A a, b \in Int :
           /\ (L * a - b) * (L * a - b) = (L * L) * (a * a) + ((0 - 2 * L * b) * a + (b * b) * 1)
           /\ (L * a - b) * (L * a - b) \in Nat
    <3> SUFFICES ASSUME NEW a \in Int, NEW b \in Int
                 PROVE /\ (L * a - b) * (L * a - b) = (L * L) * (a * a) + ((0 - 2 * L * b) * a + (b * b) * 1)
                       /\ (L * a - b) * (L * a - b) \in Nat
      OBVIOUS
    <3>1. (L * a - b) * (L * a - b) \in Int /\ (L * a - b) * (L * a - b) >= 0
      OBVIOUS
    <3>2. (L * a - b) * (L * a - b) = (L * L) * (a * a) + ((0 - 2 * L * b) * a + (b * b) * 1)
      OBVIOUS
    <3> QED
      BY <3>1, <3>2
  <2> DEFINE sq1 == (L * p[k] - P) * (L * p[k] - P)
             r1 == (0 - 2 * L * P) * p[k] + (P * P) * 1
  <2> HIDE DEF q, r
  <2>4. q[k] = (L * L) * (p[k] * p[k]) + r[k] /\ q[k] \in Nat
    <3>1. sq1 = (L * L) * (p[k] * p[k]) + r1 /\ sq1 \in Nat
      <4>1. P \in Int /\ p[k] \in Int
        BY <1>1, <2>1
      <4> HIDE DEF P
      <4> QED
        BY <2>3, <4>1, Zenon
    <3>2. q[k] = sq1 /\ r[k] = r1
      BY <2>1, <2>2, Zenon
    <3> HIDE DEF sq1, r1
    <3> QED
      BY <3>1, <3>2
  <2>5. r[k] \in Int /\ 1 * r[k] = r[k]
    BY <1>5
  <2> QED
    BY <2>1, <2>4, <2>5
<1> HIDE DEF r, q, c, e, LL, u
<1>7. SumFunctionOnSet(r, K) = c * P + e * SumFunctionOnSet(one, K)
  <2>1. SumFunctionOnSet(r, K) = c * SumFunctionOnSet(p, K) + e * SumFunctionOnSet(one, K)
    <3>1. Combines(K, r, c, p, e, one)
      BY <1>K, <1>4, <1>5 DEF Combines
    <3> QED
      BY <3>1, SumIsLinear
  <2> QED
    BY <2>1 DEF P
<1>8. SumFunctionOnSet(q, K) = LL * S2 + u * SumFunctionOnSet(r, K)
  <2>1. Combines(K, q, LL, sq, u, r)
    BY <1>K, <1>4, <1>6 DEF Combines
  <2> QED
    BY <2>1, SumIsLinear DEF S2
<1>9. SumFunctionOnSet(q, K) \in Nat
  BY <1>1, <1>6, SumIsNat
<1>10. LL * S2 + (c * P + e * L) = L * Moment(p, p)
  BY <1>1 DEF LL, c, e
<1>11. L * Moment(p, p) >= 0
  <2>1. SumFunctionOnSet(r, K) = c * P + e * L /\ c * P + e * L \in Int
    BY <1>1, <1>3, <1>4, <1>7
  <2> QED
    BY <1>8, <1>9, <1>10, <2>1 DEF u
<1>12. CASE L = 0
  <2>1. K = {}
    BY <1>12 DEF K
  <2>2. P = 0 /\ S2 = 0
    BY <2>1, SumOfNone DEF P, S2
  <2> QED
    BY <1>1, <1>12, <2>2
<1>13. CASE L > 0
  BY <1>1, <1>11, <1>13
<1> QED
  BY <1>12, <1>13

\* A sum does not depend on the direction in which a series is read.
LEMMA SumReverses ==
    ASSUME NEW L, NEW f, NEW g, L \in Nat, \A k \in 1 .. L : f[k] \in Int /\ g[k] \in Int,
           \A k \in 1 .. L : g[k] = f[L + 1 - k]
    PROVE  SumFunctionOnSet(g, 1 .. L) = SumFunctionOnSet(f, 1 .. L)
<1> DEFINE K == 1 .. L
           image(T) == {L + 1 - k : k \in T}
           W == {T \in SUBSET K : SumFunctionOnSet(g, T) = SumFunctionOnSet(f, image(T))}
<1>1. IsFiniteSet(K)
  BY FS_Interval
<1>2. {} \in W
  <2>1. image({}) = {}
    OBVIOUS
  <2> QED
    BY <2>1, SumOfNone
<1>3. ASSUME NEW T \in SUBSET K, NEW x \in T, T \ {x} \in W PROVE T \in W
  <2> DEFINE I == image(T)  y == L + 1 - x
  <2>1. image(T \ {x}) = I \ {y} /\ y \in I /\ I \in SUBSET K /\ g[x] = f[y]
    <3>1. \A k \in K : L + 1 - k \in K
      OBVIOUS
    <3>2. \A k \in K : L + 1 - k = y => k = x
      OBVIOUS
    <3> QED
      BY <3>1, <3>2
  <2> HIDE DEF I, y, K
  <2>2. \A k \in K : f[k] \in Int /\ g[k] \in Int
    BY DEF K
  <2>3. SumFunctionOnSet(g, T) = g[x] + SumFunctionOnSet(g, T \ {x})
    BY <1>1, <2>2, SumWithout
  <2>4. SumFunctionOnSet(f, I) = f[y] + SumFunctionOnSet(f, I \ {y})
    BY <1>1, <2>1, <2>2, SumWithout
  <2>5. SumFunctionOnSet(g, T \ {x}) = SumFunctionOnSet(f, I \ {y})
    BY <1>3, <2>1
  <2>6. SumFunctionOnSet(g, T) = SumFunctionOnSet(f, I)
    BY <2>1, <2>3, <2>4, <2>5
  <2> QED
    BY <2>6 DEF I
<1>4. \A T \in SUBSET K : T \in W
  <2> HIDE DEF W, K
  <2> QED
    BY <1>1, <1>2, <1>3, FiniteSetInduction
<1>5. image(K) = K
  <2>1. \A k \in K : L + 1 - k \in K /\ k = L + 1 - (L + 1 - k)
    OBVIOUS
  <2> QED
    BY <2>1
<1>6. K \in W
  BY <1>4
<1> QED
  BY <1>5, <1>6

Reversed(L, x, y, u, v) ==
    /\ L \in Nat /\ x \in [1 .. L -> Int] /\ y \in [1 .. L -> Int]
    /\ u = [k \in 1 .. L |-> x[L + 1 - k]] /\ v = [k \in 1 .. L |-> y[L + 1 - k]]

\* Two series read backwards keep their moment.
LEMMA ReversedMoment ==
    ASSUME NEW L, NEW x, NEW y, NEW u, NEW v, Reversed(L, x, y, u, v)
    PROVE  Moment(u, v) = Moment(x, y)
<1> USE DEF Reversed
<1>1. \A k \in 1 .. L : L + 1 - k \in 1 .. L
  OBVIOUS
<1>2. u \in [1 .. L -> Int] /\ v \in [1 .. L -> Int]
  BY <1>1
<1> DEFINE K == 1 .. L  p == Times(x, y, K)  q == Times(u, v, K)
<1>3. /\ \A k \in 1 .. L : x[k] \in Int /\ u[k] \in Int
      /\ \A k \in 1 .. L : u[k] = x[L + 1 - k]
  BY <1>2
<1>4. /\ \A k \in 1 .. L : y[k] \in Int /\ v[k] \in Int
      /\ \A k \in 1 .. L : v[k] = y[L + 1 - k]
  BY <1>2
<1>5. /\ \A k \in 1 .. L : p[k] \in Int /\ q[k] \in Int
      /\ \A k \in 1 .. L : q[k] = p[L + 1 - k]
  BY <1>1, <1>2, <1>3, <1>4 DEF Times
<1> HIDE DEF p, q, K
<1>6. SumFunctionOnSet(u, 1 .. L) = SumFunctionOnSet(x, 1 .. L)
  BY <1>3, SumReverses
<1>7. SumFunctionOnSet(v, 1 .. L) = SumFunctionOnSet(y, 1 .. L)
  BY <1>4, SumReverses
<1>8. SumFunctionOnSet(q, 1 .. L) = SumFunctionOnSet(p, 1 .. L)
  BY <1>5, SumReverses
<1>9. Moment(u, v) = L * SumFunctionOnSet(q, 1 .. L)
                         - SumFunctionOnSet(u, 1 .. L) * SumFunctionOnSet(v, 1 .. L)
  BY <1>2, MomentUnfolds DEF q, K
<1>10. Moment(x, y) = L * SumFunctionOnSet(p, 1 .. L)
                         - SumFunctionOnSet(x, 1 .. L) * SumFunctionOnSet(y, 1 .. L)
  BY MomentUnfolds DEF p, K
<1> QED
  BY <1>6, <1>7, <1>8, <1>9, <1>10

\* A constant series has no variance.
LEMMA SteadyMoment ==
    ASSUME NEW L, NEW x, NEW c, L \in Nat, c \in Int, x \in [1 .. L -> Int],
           \A k \in 1 .. L : x[k] = c
    PROVE  Moment(x, x) = 0
<1> DEFINE K == 1 .. L  one == [k \in K |-> 1]  p == Times(x, x, K)
<1>1. IsFiniteSet(K) /\ \A k \in K : one[k] = 1
  BY FS_Interval
<1>2. /\ \A k \in K : one[k] \in Int /\ x[k] \in Int
      /\ \A k \in K : x[k] = c * one[k]
  OBVIOUS
<1>3. /\ \A k \in K : x[k] \in Int /\ p[k] \in Int
      /\ \A k \in K : p[k] = c * x[k]
  BY DEF Times
<1>4. Cardinality(K) = L
  BY FS_Interval
<1>5. Moment(x, x) = L * SumFunctionOnSet(p, K)
                         - SumFunctionOnSet(x, K) * SumFunctionOnSet(x, K)
  BY MomentUnfolds
<1> HIDE DEF K, one, p
<1>6. SumFunctionOnSet(one, K) = L
  BY <1>1, <1>4, SumOfOnes
<1>7. SumFunctionOnSet(x, K) = c * SumFunctionOnSet(one, K)
  BY <1>1, <1>2, SumIsScaled
<1>8. SumFunctionOnSet(p, K) = c * SumFunctionOnSet(x, K)
  BY <1>1, <1>3, SumIsScaled
<1>9. L * (c * (c * L)) - (c * L) * (c * L) = 0
  BY c \in Int, L \in Nat
<1> QED
  BY <1>5, <1>6, <1>7, <1>8, <1>9

\* A series and what it lacks of a constant move against each other.
Complement(L, x, y, c) ==
    /\ L \in Nat /\ c \in Int /\ x \in [1 .. L -> Int] /\ y \in [1 .. L -> Int]
    /\ \A k \in 1 .. L : y[k] = c - x[k]

\* So their moment is not positive.
LEMMA ComplementMoment ==
    ASSUME NEW L, NEW x, NEW y, NEW c, Complement(L, x, y, c)
    PROVE  Moment(x, y) = -Moment(x, x)
<1> USE DEF Complement
<1> DEFINE K == 1 .. L  one == [k \in K |-> 1]  p == Times(x, x, K)  q == Times(x, y, K)
           m == -1
           X == SumFunctionOnSet(x, K)  P == SumFunctionOnSet(p, K)
<1>1. IsFiniteSet(K) /\ Cardinality(K) = L /\ \A k \in K : one[k] = 1
  BY FS_Interval
<1>2. Combines(K, y, c, one, m, x)
  BY <1>1 DEF Combines
<1>3. Combines(K, q, c, x, m, p)
  <2>1. \A k \in K : q[k] = x[k] * y[k] /\ p[k] = x[k] * x[k] /\ x[k] \in Int /\ y[k] = c - x[k]
    BY DEF Times
  <2>2. \A a \in Int : a * (c - a) = c * a + m * (a * a) /\ a * (c - a) \in Int /\ a * a \in Int
    OBVIOUS
  <2>3. \A k \in K : x[k] \in Int /\ p[k] \in Int /\ q[k] \in Int /\ q[k] = c * x[k] + m * p[k]
    <3> HIDE DEF p, q, K, m
    <3> QED
      BY <2>1, <2>2, SMTT(30)
  <2>4. m \in Int /\ c \in Int
    OBVIOUS
  <2> HIDE DEF m, p, q, K
  <2> QED
    BY <1>1, <2>3, <2>4 DEF Combines
<1>4. /\ Moment(x, x) = L * P - X * X /\ X \in Int /\ P \in Int
      /\ Moment(x, y) = L * SumFunctionOnSet(q, K) - X * SumFunctionOnSet(y, K)
  BY MomentUnfolds
<1> HIDE DEF K, one, p, q, m
<1>5. SumFunctionOnSet(one, K) = L
  BY <1>1, SumOfOnes
<1>6. SumFunctionOnSet(y, K) = c * SumFunctionOnSet(one, K) + m * X
  BY <1>2, SumIsLinear
<1>7. SumFunctionOnSet(q, K) = c * X + m * P
  BY <1>3, SumIsLinear
<1> HIDE DEF X, P
<1>8. \A a, b, d, e \in Int : d * (e * a + m * b) - a * (e * d + m * a) = -(d * b - a * a)
  BY DEF m
<1>9. L \in Int /\ c \in Int
  OBVIOUS
<1> QED
  BY <1>4, <1>5, <1>6, <1>7, <1>8, <1>9

-------------------------------------------------------------------------------
(***************************************************************************)
(* The covariance of a portfolio is that of one series, the mix of all.    *)
(***************************************************************************)
\* The series of a fleet have one length when they are aligned.
LEMMA AlignedSeries ==
    ASSUME NEW trails, NEW S, S # {}, \A i \in S : trails[i] \in Seq(Nat)
    PROVE  \E L \in Nat : Aligned(trails, S) \in [S -> [1 .. L -> Int]]
<1> DEFINE N == {Len(trails[j]) : j \in S}
           L == Min(N)
<1>1. N \subseteq Nat /\ N # {}
  <2>1. \A i \in S : Len(trails[i]) \in Nat
    OBVIOUS
  <2> QED
    BY <2>1
<1>2. L \in N /\ \A n \in N : L <= n
  <2> HIDE DEF N
  <2> QED
    BY <1>1, MinOfNaturals
<1>3. L \in Nat /\ \A i \in S : L <= Len(trails[i])
  BY <1>1, <1>2
<1> HIDE DEF L
<1>4. \A i \in S : Newest(trails[i], L) \in [1 .. L -> Int]
  BY <1>3, NewestCuts
<1>5. Aligned(trails, S) = [i \in S |-> Newest(trails[i], L)]
  BY DEF Aligned, L
<1> QED
  BY <1>3, <1>4, <1>5

\* The rows and the total of the covariance matrix, in terms of the series that the
\* hazards weigh together: a portfolio has the variance of that one series.
WeighedPortfolio(trails, S, L, h) ==
    /\ IsFiniteSet(S) /\ ~(Cardinality(S) < 2) /\ L \in Nat
    /\ Aligned(trails, S) \in [S -> [1 .. L -> Int]] /\ h \in [S -> Int]

\* So the quadratic form of the covariance matrix is the moment of the mix with itself.
LEMMA VarianceIsAMoment ==
    ASSUME NEW trails, NEW S, NEW L, NEW h, WeighedPortfolio(trails, S, L, h)
    PROVE  LET cov == compute_hazard_covariance_matrix(trails, S)
               x == Aligned(trails, S)
               p == Mix(h, x, S, 1 .. L)
           IN  /\ p \in [1 .. L -> Int]
               /\ \A i \in S : SigmaH(cov, h, i) = Moment(x[i], p)
               /\ Variance(cov, h) = Moment(p, p)
<1> USE DEF WeighedPortfolio
<1> DEFINE cov == compute_hazard_covariance_matrix(trails, S)
           x == Aligned(trails, S)
           K == 1 .. L
           p == Mix(h, x, S, K)
<1> HIDE DEF x, K
<1>1. x \in [S -> [K -> Int]] /\ h \in [S -> Int]
  BY DEF x, K
<1>2. p \in [K -> Int]
  BY <1>1, MixType
<1>3. cov = [i \in S |-> [j \in S |-> Moment(x[i], x[j])]]
  BY DEF compute_hazard_covariance_matrix, x
<1>4. \A y \in [K -> Int], z \in [K -> Int] : Moment(y, z) \in Int /\ Moment(y, z) = Moment(z, y)
  BY MomentUnfolds, MomentIsSymmetric DEF K
<1> HIDE DEF cov, p
<1>5. ASSUME NEW i \in S PROVE SigmaH(cov, h, i) = Moment(x[i], p)
  <2> DEFINE s == [j \in S |-> h[j] * Moment(x[i], x[j])]
  <2>1. Moments(s, h, x[i], x, S, L)
    BY <1>1 DEF Moments, K
  <2>2. [j \in DOMAIN h |-> cov[i][j] * h[j]] = s
    <3>1. DOMAIN h = S /\ \A j \in S : h[j] \in Int
      BY <1>1
    <3>2. \A j \in S : cov[i][j] = Moment(x[i], x[j]) /\ Moment(x[i], x[j]) \in Int
      BY <1>1, <1>3, <1>4
    <3>3. \A j \in S : cov[i][j] * h[j] = h[j] * Moment(x[i], x[j])
      BY <3>1, <3>2
    <3> QED
      BY <3>1, <3>3
  <2>3. SigmaH(cov, h, i) = SumFunctionOnSet(s, S)
    BY <2>2 DEF SigmaH, SumFunction
  <2> HIDE DEF s
  <2> QED
    BY <2>1, <2>3, MomentOfMix DEF p, K
<1>6. Variance(cov, h) = Moment(p, p)
  <2> DEFINE s == [i \in S |-> h[i] * Moment(p, x[i])]
  <2>1. Moments(s, h, p, x, S, L)
    BY <1>1, <1>2 DEF Moments, K
  <2>2. [i \in DOMAIN h |-> h[i] * SigmaH(cov, h, i)] = s
    BY <1>1, <1>2, <1>4, <1>5
  <2>3. Variance(cov, h) = SumFunctionOnSet(s, S)
    BY <2>2 DEF Variance, SumFunction
  <2> HIDE DEF s
  <2> QED
    BY <2>1, <2>3, MomentOfMix DEF p, K
<1> QED
  BY <1>2, <1>5, <1>6 DEF p, K, x, cov

\* Fewer than two series: no covariance at all.
LEMMA NoVariance ==
    ASSUME NEW trails, NEW S, NEW h, IsFiniteSet(S), Cardinality(S) < 2, h \in [S -> Int]
    PROVE  Variance(compute_hazard_covariance_matrix(trails, S), h) = 0
<1> DEFINE cov == compute_hazard_covariance_matrix(trails, S)
<1>1. cov = [i \in S |-> [j \in S |-> 0]]
  BY DEF compute_hazard_covariance_matrix
<1> HIDE DEF cov
<1>2. ASSUME NEW i \in S PROVE SigmaH(cov, h, i) = 0
  <2> DEFINE f == [j \in DOMAIN h |-> cov[i][j] * h[j]]
  <2>1. DOMAIN f = S /\ \A j \in S : f[j] = 0
    BY <1>1
  <2> HIDE DEF f
  <2>2. SumFunctionOnSet(f, S) = 0
    BY <2>1, SumOfZeros
  <2> QED
    BY <2>1, <2>2 DEF SigmaH, SumFunction, f
<1> DEFINE g == [i \in DOMAIN h |-> h[i] * SigmaH(cov, h, i)]
<1>3. DOMAIN g = S /\ \A i \in S : g[i] = 0
  BY <1>2
<1> HIDE DEF g
<1>4. SumFunctionOnSet(g, S) = 0
  BY <1>3, SumOfZeros
<1>5. Variance(cov, h) = 0
  BY <1>3, <1>4 DEF Variance, SumFunction, g
<1> QED
  BY <1>5 DEF cov

\* One weight more or less moves the mix along its series.
Mixes(y, x, g, h, i, I, L) ==
    /\ L \in Nat /\ IsFiniteSet(I) /\ i \in I /\ g \in [I -> Int] /\ h \in [I -> Int]
    /\ \A j \in I \ {i} : g[j] = h[j]
    /\ y \in [1 .. L -> Int] /\ x \in [I -> [1 .. L -> Int]]

\* The moment moves with the mix.
LEMMA MixMoves ==
    ASSUME NEW L, NEW I, NEW y, NEW x, NEW g, NEW h, NEW i, NEW d, Mixes(y, x, g, h, i, I, L),
           d = h[i] - g[i]
    PROVE  Moment(y, Mix(g, x, I, 1 .. L)) = Moment(y, Mix(h, x, I, 1 .. L)) - d * Moment(y, x[i])
<1> USE DEF Mixes
<1> DEFINE s == [j \in I |-> h[j] * Moment(y, x[j])]
           t == [j \in I |-> g[j] * Moment(y, x[j])]
<1>2. \A j \in I : Moment(y, x[j]) \in Int /\ h[j] \in Int /\ g[j] \in Int
  BY MomentUnfolds
<1>3. Moments(s, h, y, x, I, L) /\ Moments(t, g, y, x, I, L)
  BY DEF Moments
<1>4. /\ \A j \in I : s[j] \in Int /\ t[j] \in Int
      /\ \A j \in I \ {i} : t[j] = s[j]
      /\ s[i] = h[i] * Moment(y, x[i]) /\ t[i] = g[i] * Moment(y, x[i])
  BY <1>2
<1> HIDE DEF s, t
<1>5. SumFunctionOnSet(t, I) = SumFunctionOnSet(s, I) + t[i] - s[i]
  <2>1. DifferAt(I, s, t, i)
    BY <1>4 DEF DifferAt
  <2> QED
    BY <2>1, SumChanges
<1>6. SumFunctionOnSet(s, I) = Moment(y, Mix(h, x, I, 1 .. L))
      /\ SumFunctionOnSet(t, I) = Moment(y, Mix(g, x, I, 1 .. L))
  BY <1>3, MomentOfMix
<1>7. SumFunctionOnSet(s, I) \in Int /\ h[i] \in Int /\ g[i] \in Int
  BY <1>2, <1>4, SumTakesOut
<1>8. \A a, b, u, v \in Int : a + u * b - v * b = a - (v - u) * b
  OBVIOUS
<1> QED
  BY <1>2, <1>4, <1>5, <1>6, <1>7, <1>8

\* What a review of node i does to the variance, when the node's share is not positive.
LEMMA HedgeKeepsVariance ==
    ASSUME NEW trails, NEW S, NEW h, NEW i, NEW c, IsFiniteSet(S), i \in S, c \in Nat,
           h \in [S -> Nat], \A j \in S : trails[j] \in Seq(Nat), c <= h[i],
           h[i] * SigmaH(compute_hazard_covariance_matrix(trails, S), h, i) <= 0
    PROVE  Variance(compute_hazard_covariance_matrix(trails, S), h) <=
               Variance(compute_hazard_covariance_matrix(trails, S), [h EXCEPT ![i] = c])
<1> DEFINE cov == compute_hazard_covariance_matrix(trails, S)
           x == Aligned(trails, S)
           g == [h EXCEPT ![i] = c]
<1>1. h \in [S -> Int] /\ g \in [S -> Int] /\ S # {} /\ h[i] \in Nat /\ h[i] \in Int
  OBVIOUS
<1>2. CASE Cardinality(S) < 2
  <2> HIDE DEF g
  <2>1. Variance(cov, h) = 0 /\ Variance(cov, g) = 0
    BY <1>1, <1>2, NoVariance
  <2> QED
    BY <2>1 DEF g
<1>3. CASE ~(Cardinality(S) < 2)
  <2>1. PICK L \in Nat : x \in [S -> [1 .. L -> Int]]
    BY <1>1, AlignedSeries
  <2> DEFINE p == Mix(h, x, S, 1 .. L)  q == Mix(g, x, S, 1 .. L)  d == h[i] - c
  <2> HIDE DEF g
  <2>0. WeighedPortfolio(trails, S, L, h) /\ WeighedPortfolio(trails, S, L, g)
    BY <1>1, <1>3, <2>1 DEF WeighedPortfolio
  <2>2. /\ p \in [1 .. L -> Int] /\ SigmaH(cov, h, i) = Moment(x[i], p)
        /\ Variance(cov, h) = Moment(p, p)
    BY <2>0, VarianceIsAMoment
  <2>3. q \in [1 .. L -> Int] /\ Variance(cov, g) = Moment(q, q)
    BY <2>0, VarianceIsAMoment
  <2> HIDE DEF x, cov, p, q, d
  <2>4. ASSUME NEW y \in [1 .. L -> Int]
        PROVE  Moment(y, q) = Moment(y, p) - d * Moment(y, x[i])
    <3>1. Mixes(y, x, g, h, i, S, L) /\ d = h[i] - g[i]
      BY <1>1, <2>1 DEF Mixes, g, d
    <3> QED
      BY <3>1, MixMoves DEF p, q
  <2>5. x[i] \in [1 .. L -> Int]
    BY <2>1
  <2>6. /\ Moment(q, q) = Moment(q, p) - d * Moment(q, x[i])
        /\ Moment(p, q) = Moment(p, p) - d * Moment(p, x[i])
        /\ Moment(x[i], q) = Moment(x[i], p) - d * Moment(x[i], x[i])
    BY <2>2, <2>3, <2>4, <2>5
  <2>7. /\ Moment(q, p) = Moment(p, q) /\ Moment(q, x[i]) = Moment(x[i], q)
        /\ Moment(p, x[i]) = Moment(x[i], p)
    BY <2>2, <2>3, <2>5, MomentIsSymmetric
  <2>8. Moment(p, p) \in Int /\ Moment(x[i], p) \in Int /\ Moment(x[i], x[i]) \in Int
        /\ Moment(x[i], x[i]) >= 0
    BY <2>2, <2>5, MomentUnfolds, MomentNonNegative
  <2>9. h[i] * Moment(x[i], p) <= 0
    BY <2>2 DEF cov
  <2>10. Moment(q, q) = Moment(p, p) - 2 * (d * Moment(x[i], p)) + d * (d * Moment(x[i], x[i]))
    <3>1. d \in Int
      BY <1>1 DEF d
    <3>2. \A a, b, e, k \in Int : (a - k * b) - k * (b - k * e) = a - 2 * (k * b) + k * (k * e)
      OBVIOUS
    <3>3. Moment(q, q) = (Moment(p, p) - d * Moment(x[i], p))
                             - d * (Moment(x[i], p) - d * Moment(x[i], x[i]))
      BY <2>6, <2>7
    <3> QED
      BY <2>8, <3>1, <3>2, <3>3
  <2>11. d * Moment(x[i], p) <= 0 /\ d * (d * Moment(x[i], x[i])) >= 0
         /\ d * Moment(x[i], p) \in Int /\ d * (d * Moment(x[i], x[i])) \in Int
    <3>1. \A k \in Nat : \A b \in Int : b >= 0 => k * b \in Int /\ k * b >= 0
      OBVIOUS
    <3>2. \A k \in Nat, b \in Int : b <= 0 => k * b \in Int /\ k * b <= 0
      OBVIOUS
    <3>3. d \in Nat /\ d <= h[i]
      BY <1>1 DEF d
    <3>4. d = 0 \/ Moment(x[i], p) <= 0
      <4> SUFFICES ASSUME d # 0, Moment(x[i], p) > 0 PROVE FALSE
        BY <2>8
      <4>1. h[i] >= 1
        BY <1>1, <3>3
      <4>2. \A a \in Nat, b \in Int : a >= 1 /\ b > 0 => a * b > 0
        OBVIOUS
      <4>3. h[i] * Moment(x[i], p) > 0 /\ h[i] * Moment(x[i], p) \in Int
        BY <1>1, <2>8, <4>1, <4>2
      <4> QED
        BY <2>9, <4>3
    <3>5. d * Moment(x[i], p) <= 0 /\ d * Moment(x[i], p) \in Int
      BY <2>8, <3>2, <3>3, <3>4
    <3>6. d * Moment(x[i], x[i]) >= 0 /\ d * Moment(x[i], x[i]) \in Int
      BY <2>8, <3>1, <3>3
    <3> QED
      BY <3>1, <3>3, <3>5, <3>6
  <2>12. Moment(p, p) <= Moment(q, q)
    BY <2>8, <2>10, <2>11
  <2> QED
    BY <2>2, <2>3, <2>12 DEF cov, g
<1> QED
  BY <1>2, <1>3

\* No portfolio has a negative variance, with one series or none either.
LEMMA VarianceSign ==
    ASSUME NEW trails, NEW S, NEW h, IsFiniteSet(S), h \in [S -> Nat],
           \A j \in S : trails[j] \in Seq(Nat)
    PROVE  LET v == Variance(compute_hazard_covariance_matrix(trails, S), h) IN v \in Int /\ v >= 0
<1> DEFINE cov == compute_hazard_covariance_matrix(trails, S)
           x == Aligned(trails, S)
<1>1. h \in [S -> Int]
  OBVIOUS
<1>2. CASE Cardinality(S) < 2
  BY <1>1, <1>2, NoVariance
<1>3. CASE ~(Cardinality(S) < 2)
  <2>0. S # {}
    BY <1>3, FS_EmptySet
  <2>1. PICK L \in Nat : x \in [S -> [1 .. L -> Int]]
    BY <2>0, AlignedSeries
  <2> DEFINE p == Mix(h, x, S, 1 .. L)
  <2>2. p \in [1 .. L -> Int] /\ Variance(cov, h) = Moment(p, p)
    <3>1. WeighedPortfolio(trails, S, L, h)
      BY <1>1, <1>3, <2>1 DEF WeighedPortfolio
    <3> QED
      BY <3>1, VarianceIsAMoment
  <2> HIDE DEF p, cov, x
  <2>3. Moment(p, p) \in Int /\ Moment(p, p) >= 0
    BY <2>2, MomentUnfolds, MomentNonNegative
  <2> QED
    BY <2>2, <2>3 DEF cov
<1> QED
  BY <1>2, <1>3

\* Every natural number has a root, rounded down.
IsRoot(r, v) == r * r <= v /\ v < (r + 1) * (r + 1)

\* By induction: the root of v + 1 is that of v or the next number.
LEMMA RootExists == \A v \in Nat : \E r \in 0 .. v : IsRoot(r, v)
<1> DEFINE W == {v \in Nat : \E r \in 0 .. v : IsRoot(r, v)}
<1>1. 0 \in W
  <2>1. 0 \in 0 .. 0 /\ IsRoot(0, 0)
    BY DEF IsRoot
  <2> QED
    BY <2>1
<1>2. ASSUME NEW v \in Nat, v \in W PROVE v + 1 \in W
  <2>1. PICK r \in 0 .. v : IsRoot(r, v)
    BY <1>2
  <2>2. CASE v + 1 < (r + 1) * (r + 1)
    <3>1. r \in 0 .. v + 1 /\ IsRoot(r, v + 1)
      BY <2>1, <2>2 DEF IsRoot
    <3> QED
      BY <3>1
  <2>3. CASE ~(v + 1 < (r + 1) * (r + 1))
    <3>1. r \in Nat /\ r + 1 \in 0 .. v + 1
      OBVIOUS
    <3>2. (r + 1) * (r + 1) <= v + 1 /\ v + 1 <= (r + 1) * (r + 1)
      BY <2>1, <2>3 DEF IsRoot
    <3>3. (r + 1) * (r + 1) < (r + 1 + 1) * (r + 1 + 1)
      BY <3>1
    <3>4. v + 1 < (r + 1 + 1) * (r + 1 + 1)
      BY <3>2, <3>3, <3>1
    <3>5. IsRoot(r + 1, v + 1)
      BY <3>2, <3>4 DEF IsRoot
    <3> QED
      BY <3>1, <3>5
  <2> QED
    BY <2>2, <2>3
<1>3. \A v \in Nat : v \in W
  <2> HIDE DEF W
  <2> QED
    BY <1>1, <1>2, NatSetInduction
<1> QED
  BY <1>3

\* The CHOOSE of Volatility finds a root.
LEMMA VolatilityIsARoot ==
    ASSUME NEW cov, NEW h, Variance(cov, h) \in Int, Variance(cov, h) >= 0
    PROVE  Volatility(cov, h) \in Nat /\ IsRoot(Volatility(cov, h), Variance(cov, h))
<1> DEFINE v == Variance(cov, h)
<1>1. v \in Nat /\ v \in Int /\ 0 \in Int
  OBVIOUS
<1>2. Max({0, v}) = v
  <2> HIDE DEF v
  <2>1. Max({0, v}) = IF 0 >= v THEN 0 ELSE v
    BY <1>1, MaxOfTwo
  <2> QED
    BY <1>1, <2>1
<1>3. Volatility(cov, h) = CHOOSE r \in 0 .. v : IsRoot(r, v)
  BY <1>2 DEF Volatility, IsRoot
<1> HIDE DEF v
<1>4. \E r \in 0 .. v : IsRoot(r, v)
  BY <1>1, RootExists
<1> QED
  BY <1>1, <1>3, <1>4 DEF v

\* A larger variance has no smaller root.
LEMMA VolatilityIsMonotone ==
    ASSUME NEW cov, NEW g, NEW h, Variance(cov, g) \in Int, Variance(cov, h) \in Int,
           Variance(cov, g) >= 0, Variance(cov, g) <= Variance(cov, h)
    PROVE  Volatility(cov, g) \in Nat /\ Volatility(cov, h) \in Nat
           /\ Volatility(cov, g) <= Volatility(cov, h)
<1> DEFINE a == Volatility(cov, g)  b == Volatility(cov, h)
           u == Variance(cov, g)  v == Variance(cov, h)
<1>1. u \in Int /\ v \in Int /\ 0 <= u /\ u <= v /\ 0 <= v
  OBVIOUS
<1>2. a \in Nat /\ b \in Nat /\ IsRoot(a, u) /\ IsRoot(b, v)
  BY <1>1, VolatilityIsARoot
<1> HIDE DEF a, b, u, v
<1>3. a <= b
  <2> SUFFICES ASSUME b + 1 <= a PROVE FALSE
    BY <1>2
  <2>1. (b + 1) * (b + 1) <= a * a
    BY <1>2
  <2>2. a * a <= u /\ v < (b + 1) * (b + 1) /\ a * a \in Int /\ (b + 1) * (b + 1) \in Int
    BY <1>2 DEF IsRoot
  <2> QED
    BY <1>1, <2>1, <2>2
<1> QED
  BY <1>2, <1>3 DEF a, b

-------------------------------------------------------------------------------
(***************************************************************************)
(* The greedy pass implements ReviewBudget for any fleet, whatever the     *)
(* scores are: the order of the nodes plays no part in the argument.       *)
(***************************************************************************)

\* Every node behind the loop is chosen or does not fit, and since time is only ever
\* spent it will not fit later.
AllocationInv ==
    /\ fleet \in Fleets
    /\ pc \in {"scoring", "greedy", "returned"}
    /\ selected \in Seq(NodeIds)
    /\ spent \in Nat /\ spent <= fleet.budget
    /\ pc = "scoring" => selected = <<>> /\ spent = 0
    /\ todo \subseteq NodeIds /\ todo \cap Chosen = {}
    /\ pc # "scoring" =>
          \A i \in NodeIds : i \in todo \/ i \in Chosen \/ spent + fleet.hours[i] > fleet.budget
    /\ pc = "returned" => todo = {}

\* What the arguments are.
LEMMA FleetType ==
    ASSUME fleet \in Fleets
    PROVE  /\ NodeIds \subseteq Positions
           /\ fleet.hours \in [Positions -> Nat] /\ fleet.budget \in Nat
BY AllocationAssumption DEF NodeIds, extract_hazard_series

\* What Append does to the set of chosen nodes.
LEMMA ChosenAppend ==
    ASSUME NEW S, selected \in Seq(S), NEW i \in S, selected' = Append(selected, i)
    PROVE  Chosen' = Chosen \cup {i}
<1>1. /\ DOMAIN selected' = 1 .. Len(selected) + 1
      /\ \A k \in 1 .. Len(selected) : selected'[k] = selected[k]
      /\ selected'[Len(selected) + 1] = i
OBVIOUS
<1>2. DOMAIN selected = 1 .. Len(selected) /\ Len(selected) \in Nat
OBVIOUS
<1> QED
BY <1>1, <1>2 DEF Chosen

\* The two ways a node leaves the loop.
LEMMA ConsiderEffect ==
    ASSUME AllocationInv, NEW i \in todo, Consider(i)
    PROVE  /\ UNCHANGED <<fleet, pc>> /\ pc = "greedy" /\ NodeIds' = NodeIds
           /\ i \in NodeIds \ Chosen /\ todo' = todo \ {i}
           /\ \/ /\ spent + fleet.hours[i] <= fleet.budget
                 /\ spent' = spent + fleet.hours[i]
                 /\ selected' = Append(selected, i) /\ Chosen' = Chosen \cup {i}
              \/ /\ spent + fleet.hours[i] > fleet.budget
                 /\ UNCHANGED <<spent, selected>> /\ Chosen' = Chosen
<1>1. UNCHANGED <<fleet, pc>> /\ pc = "greedy" /\ NodeIds' = NodeIds
BY DEF Consider, NodeIds
<1>2. i \in NodeIds \ Chosen /\ todo' = todo \ {i}
BY DEF AllocationInv, Consider
<1>3. spent \in Nat /\ fleet.hours[i] \in Nat /\ fleet.budget \in Nat
BY <1>2, FleetType DEF AllocationInv
<1>4. CASE spent + fleet.hours[i] <= fleet.budget
  <2>1. selected' = Append(selected, i) /\ spent' = spent + fleet.hours[i]
    BY <1>4 DEF Consider
  <2>2. Chosen' = Chosen \cup {i}
    BY <2>1, <1>2, ChosenAppend DEF AllocationInv
  <2> QED
    BY <1>1, <1>2, <1>4, <2>1, <2>2
<1>5. CASE ~(spent + fleet.hours[i] <= fleet.budget)
  <2>1. UNCHANGED <<selected, spent>>
    BY <1>5 DEF Consider
  <2>2. Chosen' = Chosen
    BY <2>1 DEF Chosen
  <2> QED
    BY <1>1, <1>2, <1>3, <1>5, <2>1, <2>2
<1> QED
BY <1>4, <1>5

\* AllocationInv holds at the start.
LEMMA AllocationStart == AllocationInit => AllocationInv
<1> SUFFICES ASSUME AllocationInit PROVE AllocationInv
OBVIOUS
<1>1. fleet.budget \in Nat
BY FleetType DEF AllocationInit
<1>2. Chosen = {}
BY DEF AllocationInit, Chosen
<1> QED
BY <1>1, <1>2 DEF AllocationInit, AllocationInv

\* Every step of allocate_reviewer_bandwidth keeps AllocationInv.
LEMMA AllocationPreserved ==
    AllocationInv /\ [AllocationNext]_allocationVars => AllocationInv'
<1> SUFFICES ASSUME AllocationInv, [AllocationNext]_allocationVars PROVE AllocationInv'
OBVIOUS
<1>1. CASE Score
  <2>1. NodeIds' = NodeIds /\ Chosen' = Chosen
    BY <1>1 DEF Score, NodeIds, Chosen
  <2>2. Chosen = {}
    BY <1>1 DEF Score, Chosen, AllocationInv
  <2> QED
    BY <1>1, <2>1, <2>2 DEF Score, AllocationInv
<1>2. ASSUME NEW i \in todo, Consider(i) PROVE AllocationInv'
  <2>1. /\ UNCHANGED <<fleet, pc>> /\ pc = "greedy" /\ NodeIds' = NodeIds
        /\ i \in NodeIds \ Chosen /\ todo' = todo \ {i}
    BY <1>2, ConsiderEffect
  <2>2. /\ NodeIds \subseteq Positions
        /\ fleet.hours \in [Positions -> Nat] /\ fleet.budget \in Nat
    BY FleetType DEF AllocationInv
  <2>3. CASE /\ spent + fleet.hours[i] <= fleet.budget
             /\ spent' = spent + fleet.hours[i]
             /\ selected' = Append(selected, i) /\ Chosen' = Chosen \cup {i}
    <3>1. selected' \in Seq(NodeIds)' /\ spent' \in Nat /\ spent' <= fleet.budget
      BY <2>1, <2>2, <2>3 DEF AllocationInv
    <3>2. ASSUME NEW j \in NodeIds, j \notin todo', j \notin Chosen'
          PROVE  spent' + fleet.hours[j] > fleet.budget
      <4>1. spent + fleet.hours[j] > fleet.budget
        BY <2>1, <2>3, <3>2 DEF AllocationInv
      <4>2. fleet.hours[i] \in Nat /\ fleet.hours[j] \in Nat /\ spent \in Nat
        BY <2>1, <2>2 DEF AllocationInv
      <4>3. fleet.budget \in Nat /\ spent' = spent + fleet.hours[i]
        BY <2>2, <2>3
      <4> QED
        BY <4>1, <4>2, <4>3
    <3> QED
      BY <2>1, <2>3, <3>1, <3>2 DEF AllocationInv
  <2>4. CASE /\ spent + fleet.hours[i] > fleet.budget
             /\ UNCHANGED <<spent, selected>> /\ Chosen' = Chosen
    BY <2>1, <2>4 DEF AllocationInv
  <2> QED
    BY <1>2, <2>3, <2>4, ConsiderEffect
<1>3. CASE Return
  <2>1. NodeIds' = NodeIds /\ Chosen' = Chosen
    BY <1>3 DEF Return, NodeIds, Chosen
  <2> QED
    BY <1>3, <2>1 DEF Return, AllocationInv
<1>4. CASE UNCHANGED allocationVars
  <2>1. NodeIds' = NodeIds /\ Chosen' = Chosen
    BY <1>4 DEF allocationVars, NodeIds, Chosen
  <2> QED
    BY <1>4, <2>1 DEF allocationVars, AllocationInv
<1> QED
BY <1>1, <1>2, <1>3, <1>4 DEF AllocationNext

\* AllocationInv holds throughout.
LEMMA AllocationInvariant == AllocationSpec => []AllocationInv
<1>1. AllocationInit => AllocationInv
BY AllocationStart
<1>2. AllocationInv /\ [AllocationNext]_allocationVars => AllocationInv'
BY AllocationPreserved
<1> QED
BY <1>1, <1>2, PTL DEF AllocationSpec

\* allocate_reviewer_bandwidth never spends more than total_bandwidth and leaves out
\* only nodes that do not fit, for every fleet.
THEOREM RespectsBudget == AllocationSpec => BudgetSpec
<1>1. AllocationInit => Budget!Init
  <2> SUFFICES ASSUME AllocationInit PROVE Budget!Init
    OBVIOUS
  <2>1. NodeIds \subseteq Positions /\ fleet.hours \in [Positions -> Nat] /\ fleet.budget \in Nat
    BY FleetType DEF AllocationInit
  <2>2. Chosen = {} /\ pc # "returned" /\ spent = 0
    BY DEF AllocationInit, Chosen
  <2> QED
    BY <2>1, <2>2 DEF Budget!Init
<1>2. AllocationInv /\ [AllocationNext]_allocationVars => [Budget!Next]_(Budget!vars)
  <2> SUFFICES ASSUME AllocationInv, [AllocationNext]_allocationVars PROVE [Budget!Next]_(Budget!vars)
    OBVIOUS
  <2>1. CASE Score
    BY <2>1 DEF Score, NodeIds, Chosen, Budget!vars
  <2>2. ASSUME NEW i \in todo, Consider(i) PROVE [Budget!Next]_(Budget!vars)
    <3>1. /\ UNCHANGED <<fleet, pc>> /\ pc = "greedy" /\ NodeIds' = NodeIds
          /\ i \in NodeIds \ Chosen
      BY <2>2, ConsiderEffect
    <3>2. CASE /\ spent + fleet.hours[i] <= fleet.budget
               /\ spent' = spent + fleet.hours[i] /\ Chosen' = Chosen \cup {i}
      BY <3>1, <3>2 DEF Budget!Choose, Budget!Next
    <3>3. CASE spent' = spent /\ Chosen' = Chosen
      BY <3>1, <3>3 DEF Budget!vars
    <3> QED
      BY <2>2, <3>2, <3>3, ConsiderEffect
  <2>3. CASE Return
    <3>1. /\ NodeIds' = NodeIds /\ Chosen' = Chosen
          /\ UNCHANGED <<fleet, spent>> /\ pc' = "returned"
      BY <2>3 DEF Return, NodeIds, Chosen
    <3>2. \A i \in NodeIds \ Chosen : spent + fleet.hours[i] > fleet.budget
      BY <2>3 DEF Return, AllocationInv
    <3> QED
      BY <3>1, <3>2 DEF Budget!Close, Budget!Next
  <2>4. CASE UNCHANGED allocationVars
    BY <2>4 DEF allocationVars, NodeIds, Chosen, Budget!vars
  <2> QED
    BY <2>1, <2>2, <2>3, <2>4 DEF AllocationNext
<1>3. AllocationSpec => []AllocationInv
BY AllocationInvariant
<1> QED
BY <1>1, <1>2, <1>3, PTL DEF AllocationSpec, BudgetSpec, Budget!Spec

\* f is the first element that did not fit behind P, the elements that weigh nothing
\* (Z) aside: what comes before it is worth at least as much per hour, what comes
\* after it at most as much.
DensityCut(N, hours, worth, f, P, Z, limit) ==
    /\ IsFiniteSet(N) /\ P \subseteq N /\ Z \subseteq N /\ f \in N \ P /\ limit \in Int
    /\ \A x \in N : hours[x] \in Nat /\ worth[x] \in Nat
    /\ hours[f] > 0 /\ SumFunctionOnSet(hours, P) + hours[f] > limit
    /\ \A x \in P \cup Z : worth[f] * hours[x] <= hours[f] * worth[x]
    /\ \A x \in N \ (P \cup Z) : hours[f] * worth[x] <= worth[f] * hours[x]

\* Nothing that keeps the limit is worth more than the cut, which exceeds it.
LEMMA DensityCutIsBest ==
    ASSUME NEW N, NEW hours, NEW worth, NEW f, NEW P, NEW Z, NEW limit, NEW A,
           DensityCut(N, hours, worth, f, P, Z, limit), A \in SUBSET N,
           SumFunctionOnSet(hours, A) <= limit
    PROVE  SumFunctionOnSet(worth, A) <= SumFunctionOnSet(worth, P \cup Z \cup {f})
<1> DEFINE G == P \cup Z \cup {f}
           a == worth[f]  b == hours[f]  c == -a
           w == [x \in N |-> b * worth[x] + c * hours[x]]
           value(T) == SumFunctionOnSet(worth, T)
           time(T) == SumFunctionOnSet(hours, T)
<1>1. /\ IsFiniteSet(N) /\ P \subseteq N /\ Z \subseteq N /\ f \in N \ P /\ limit \in Int
      /\ \A x \in N : hours[x] \in Nat /\ worth[x] \in Nat
  BY DEF DensityCut
<1>2. a \in Nat /\ b \in Nat /\ b > 0 /\ c \in Int /\ G \in SUBSET N /\ A \in SUBSET N
  BY <1>1 DEF DensityCut
<1>3. \A x \in N : hours[x] \in Int /\ worth[x] \in Int
  BY <1>1
<1>4. \A x \in N : w[x] = b * worth[x] + c * hours[x] /\ w[x] \in Int
  BY <1>2, <1>3
<1>5. \A x \in P \cup Z : 0 <= w[x]
  <2>1. \A x \in P \cup Z : a * hours[x] <= b * worth[x]
    BY DEF DensityCut
  <2>2. \A x \in P \cup Z : w[x] = b * worth[x] + c * hours[x] /\ x \in N
    BY <1>1, <1>4
  <2>3. \A k, m \in Int : a * k <= b * m => 0 <= b * m + c * k
    BY <1>2
  <2> HIDE DEF w, a, b, c
  <2> QED
    BY <1>3, <2>1, <2>2, <2>3
<1>6. \A x \in N \ (P \cup Z) : w[x] <= 0
  <2>1. \A x \in N \ (P \cup Z) : b * worth[x] <= a * hours[x]
    BY DEF DensityCut
  <2>2. \A x \in N \ (P \cup Z) : w[x] = b * worth[x] + c * hours[x]
    BY <1>4
  <2>3. \A k, m \in Int : b * m <= a * k => b * m + c * k <= 0
    BY <1>2
  <2> HIDE DEF w, a, b, c
  <2> QED
    BY <1>3, <2>1, <2>2, <2>3
<1>7. w[f] = 0
  BY <1>1, <1>2, <1>4
<1>8. ASSUME NEW T \in SUBSET N
      PROVE  /\ SumFunctionOnSet(w, T) = b * value(T) + c * time(T)
             /\ value(T) \in Int /\ time(T) \in Int
  <2> HIDE DEF a, b, c, w
  <2>1. IsFiniteSet(T)
    BY <1>1, FS_Subset
  <2>2. Combines(T, w, b, worth, c, hours)
    BY <1>2, <1>3, <1>4, <2>1 DEF Combines
  <2>3. SumFunctionOnSet(w, T) = b * value(T) + c * time(T)
    BY <2>2, SumIsLinear
  <2>4. value(T) \in Int
    BY <1>1, <1>3, SumIsInt
  <2>5. time(T) \in Int
    BY <1>1, <1>3, SumIsInt
  <2> QED
    BY <2>3, <2>4, <2>5
<1>9. SumFunctionOnSet(w, A) <= SumFunctionOnSet(w, G)
  <2>1. /\ \A x \in N : w[x] \in Int
        /\ \A x \in G \ A : 0 <= w[x]
        /\ \A x \in A \ G : w[x] <= 0
    BY <1>1, <1>4, <1>5, <1>6, <1>7
  <2> HIDE DEF w, G, a, b, c
  <2> QED
    BY <1>1, <1>2, <2>1, SumDominates
<1>10. time(G) > limit
  <2>1. time(P \cup {f}) = time(P) + time({f})
    <3>1. P \in SUBSET N /\ {f} \in SUBSET N /\ P \cap {f} = {}
      BY <1>1
    <3> HIDE DEF a, b, c, w, G
    <3> QED
      BY <1>1, <1>3, <3>1, SumOfDisjoint
  <2>2. time({f}) = b
    <3>1. IsFiniteSet({f}) /\ \A x \in {f} : hours[x] \in Int
      BY <1>3, <1>1, FS_Singleton
    <3>2. time({f}) = hours[f] + time({f} \ {f})
      BY <3>1, SumTakesOut
    <3>3. time({f} \ {f}) = 0
      <4>1. {f} \ {f} = {}
        OBVIOUS
      <4> QED
        BY <4>1, SumOfNone
    <3> QED
      BY <1>2, <3>2, <3>3
  <2>3. time(P \cup {f}) <= time(G)
    <3>1. P \cup {f} \in SUBSET G /\ \A x \in N : hours[x] \in Nat
      BY <1>1
    <3> HIDE DEF G
    <3> QED
      BY <1>1, <1>2, <3>1, SumGrows
  <2>4. time(P) + b > limit
    BY DEF DensityCut
  <2>5. time(P) \in Int /\ time(G) \in Int
    BY <1>1, <1>2, <1>8
  <2> HIDE DEF time, G, b
  <2> QED
    BY <1>1, <1>2, <2>1, <2>2, <2>3, <2>4, <2>5
<1>11. b * value(A) + c * time(A) <= b * value(G) + c * time(G)
  BY <1>2, <1>8, <1>9
<1>12. /\ value(A) \in Int /\ value(G) \in Int /\ time(A) \in Int /\ time(G) \in Int
       /\ time(A) <= limit
  BY <1>2, <1>8
<1> HIDE DEF value, time, G, b, c, a
<1>13. c * time(G) <= c * time(A)
  <2>1. time(A) <= time(G) /\ c <= 0
    BY <1>1, <1>2, <1>10, <1>12 DEF c
  <2>2. \A k, m, n \in Int : k <= 0 /\ m <= n => k * n <= k * m
    OBVIOUS
  <2> QED
    BY <1>2, <1>12, <2>1, <2>2
<1>14. b * value(A) <= b * value(G)
  <2>1. b * value(A) \in Int /\ b * value(G) \in Int /\ c * time(A) \in Int /\ c * time(G) \in Int
    BY <1>2, <1>12
  <2> QED
    BY <1>11, <1>13, <2>1
<1>15. value(A) <= value(G)
  <2>1. \A k \in Nat : \A m, n \in Int : k > 0 /\ n < m => k * n < k * m
    OBVIOUS
  <2>2. b * value(A) \in Int /\ b * value(G) \in Int
    BY <1>2, <1>12
  <2> QED
    BY <1>2, <1>12, <1>14, <2>1, <2>2
<1> QED
  BY <1>15 DEF value, G

\* What the list of nodes and their hazards are.
LEMMA FleetSeries ==
    ASSUME fleet \in Fleets
    PROVE  /\ IsFiniteSet(NodeIds) /\ NodeIds \subseteq Positions
           /\ \A i \in NodeIds : fleet.trails[i] \in Seq(Nat)
           /\ Hazards \in [NodeIds -> Nat] /\ DOMAIN Hazards = NodeIds /\ PostReview \in Nat
           /\ fleet.budget \in Nat /\ \A i \in NodeIds : fleet.hours[i] \in Nat
<1>1. NodeIds \subseteq Positions /\ fleet.hours \in [Positions -> Nat] /\ fleet.budget \in Nat
  BY FleetType
<1>2. /\ IsFiniteSet(Positions) /\ PostReview \in Nat
      /\ fleet.trails \in [Positions -> Seq(Nat)] /\ fleet.hazards \in [Positions -> Nat]
  BY AllocationAssumption
<1>3. IsFiniteSet(NodeIds)
  BY <1>1, <1>2, FS_Subset
<1> QED
  BY <1>1, <1>2, <1>3 DEF Hazards

\* What a review takes away: the volatility before it and after it are both roots.
LEMMA ReductionType ==
    ASSUME fleet \in Fleets
    PROVE  RiskReduction(Covariance, Hazards) \in [NodeIds -> Nat]
<1>1. ASSUME NEW h \in [NodeIds -> Nat] PROVE Volatility(Covariance, h) \in Nat
  <2>1. Variance(Covariance, h) \in Int /\ Variance(Covariance, h) >= 0
    BY FleetSeries, VarianceSign DEF Covariance
  <2> QED
    BY <2>1, VolatilityIsARoot
<1>2. ASSUME NEW i \in NodeIds
      PROVE  Max({0, Volatility(Covariance, Hazards)
                         - Volatility(Covariance, PostHazards(Hazards, i))}) \in Nat
  <2> DEFINE a == Volatility(Covariance, Hazards)
             b == Volatility(Covariance, PostHazards(Hazards, i))
  <2>1. PostHazards(Hazards, i) \in [NodeIds -> Nat]
    BY FleetSeries DEF PostHazards
  <2>2. a \in Nat /\ b \in Nat
    BY <1>1, <2>1, FleetSeries
  <2> HIDE DEF a, b
  <2>3. a - b \in Int /\ 0 \in Int
    BY <2>2
  <2>4. Max({0, a - b}) = IF 0 >= a - b THEN 0 ELSE a - b
    BY <2>3, MaxOfTwo
  <2> QED
    BY <2>3, <2>4 DEF a, b
<1> QED
  BY <1>2, FleetSeries DEF RiskReduction

\* A review of a node whose contribution is not positive takes nothing away.
LEMMA HedgeReduction ==
    ASSUME fleet \in Fleets, NEW i \in NodeIds,
           RiskContribution(Covariance, Hazards, i) <= 0, PostReview <= Hazards[i]
    PROVE  RiskReduction(Covariance, Hazards)[i] = 0
<1> DEFINE g == PostHazards(Hazards, i)
           a == Volatility(Covariance, Hazards)
           b == Volatility(Covariance, g)
<1>0. g \in [NodeIds -> Nat]
  BY FleetSeries DEF PostHazards
<1>1. /\ Variance(Covariance, Hazards) \in Int /\ Variance(Covariance, Hazards) >= 0
      /\ Variance(Covariance, g) \in Int /\ Variance(Covariance, g) >= 0
  <2> HIDE DEF g
  <2> QED
    BY <1>0, FleetSeries, VarianceSign DEF Covariance
<1>2. a \in Nat /\ b \in Nat
  <2> HIDE DEF g
  <2> QED
    BY <1>1, VolatilityIsARoot
<1>3. a <= b
  <2>1. CASE a = 0
    BY <1>2, <2>1
  <2>2. CASE a # 0
    <3>1. Hazards[i] * SigmaH(Covariance, Hazards, i) <= 0
      BY <2>2 DEF RiskContribution
    <3>2. Variance(Covariance, Hazards) <= Variance(Covariance, g)
      BY <3>1, FleetSeries, HedgeKeepsVariance DEF Covariance, PostHazards
    <3> HIDE DEF g
    <3> QED
      BY <1>1, <3>2, VolatilityIsMonotone
  <2> QED
    BY <2>1, <2>2
<1>4. RiskReduction(Covariance, Hazards)[i] = Max({0, a - b})
  BY FleetSeries DEF RiskReduction
<1> HIDE DEF a, b
<1>5. a - b \in Int /\ 0 \in Int /\ a - b <= 0
  BY <1>2, <1>3
<1>6. Max({0, a - b}) = IF 0 >= a - b THEN 0 ELSE a - b
  BY <1>5, MaxOfTwo
<1> QED
  BY <1>4, <1>5, <1>6

\* No fleet has a negative variance: aligned as they are, the series that the hazards
\* weigh together have the variance of one series.
THEOREM NoNegativeVariance == AllocationSpec => []VarianceNeverNegative
<1>1. AllocationInv => VarianceNeverNegative
  <2> SUFFICES ASSUME AllocationInv PROVE Variance(Covariance, Hazards) >= 0
    BY DEF VarianceNeverNegative
  <2>1. fleet \in Fleets
    BY DEF AllocationInv
  <2> QED
    BY <2>1, FleetSeries, VarianceSign DEF Covariance
<1> QED
  BY <1>1, AllocationInvariant, PTL

-------------------------------------------------------------------------------
(***************************************************************************)
(* The order of the scores: what the pass loses against the best choice.   *)
(***************************************************************************)
\* f was passed over when P had been chosen, and P was all that came before it.
FirstSkipped(f, P) ==
    /\ f \in NodeIds \ Chosen /\ P \subseteq Chosen
    /\ HoursOf(P) + fleet.hours[f] > fleet.budget
    /\ \A i \in P : Before(i, f)
    /\ \A i \in NodeIds \ P : Before(f, i)

\* The loop goes through the nodes in the order of their scores, takes every review
\* that needs no time, and the first node it passes over ends a prefix of that order.
GreedyInv ==
    /\ spent = HoursOf(Chosen)
    /\ pc # "scoring" =>
          /\ reduction = RiskReduction(Covariance, Hazards)
          /\ \A i \in NodeIds \ todo, j \in todo : Before(i, j)
          /\ \A i \in NodeIds \ todo : fleet.hours[i] = 0 => i \in Chosen
          /\ \/ NodeIds \ todo \subseteq Chosen
             \/ \E f \in NodeIds \ todo, P \in SUBSET Chosen : FirstSkipped(f, P)

\* The order of the scores is total on the nodes.
LEMMA BeforeItself ==
    ASSUME fleet \in Fleets, reduction = RiskReduction(Covariance, Hazards), NEW i \in NodeIds
    PROVE  Before(i, i)
<1>1. reduction[i] \in Nat /\ fleet.hours[i] \in Nat /\ i \in Nat
  BY ReductionType, FleetSeries, AllocationAssumption
<1>2. ScoreOf(i)[1] * ScoreOf(i)[2] \in Int
  BY <1>1 DEF ScoreOf
<1> QED
  BY <1>1, <1>2 DEF Before

\* GreedyInv holds at the start.
LEMMA GreedyStart == AllocationInit => GreedyInv
<1> SUFFICES ASSUME AllocationInit PROVE GreedyInv
  OBVIOUS
<1>1. Chosen = {} /\ spent = 0 /\ pc = "scoring"
  BY DEF AllocationInit, Chosen
<1> QED
  BY <1>1, SumOfNone DEF GreedyInv, HoursOf

\* All that a step leaves alone when it changes neither the fleet nor the scores.
LEMMA ScoresStand ==
    ASSUME UNCHANGED <<fleet, reduction>>
    PROVE  /\ NodeIds' = NodeIds /\ Hazards' = Hazards /\ Covariance' = Covariance
           /\ \A i, j : Before(i, j)' <=> Before(i, j)
           /\ \A T : HoursOf(T)' = HoursOf(T)
BY DEF NodeIds, Hazards, Covariance, extract_hazard_series, Before, ScoreOf, HoursOf

\* Every step keeps GreedyInv: a node is looked at only before all that are left.
LEMMA GreedyPreserved ==
    AllocationInv /\ GreedyInv /\ [AllocationNext]_allocationVars => GreedyInv'
<1> SUFFICES ASSUME AllocationInv, GreedyInv, [AllocationNext]_allocationVars PROVE GreedyInv'
  OBVIOUS
<1>0. fleet \in Fleets
  BY DEF AllocationInv
<1>1. CASE Score
  <2>1. /\ UNCHANGED fleet /\ NodeIds' = NodeIds /\ Hazards' = Hazards
        /\ Covariance' = Covariance /\ Chosen' = Chosen /\ HoursOf(Chosen)' = HoursOf(Chosen)
    BY <1>1 DEF Score, NodeIds, Hazards, Covariance, Chosen, HoursOf, extract_hazard_series
  <2>2. RiskReduction(Covariance, Hazards)' = RiskReduction(Covariance, Hazards)
    BY <2>1
  <2>3. reduction' = RiskReduction(Covariance, Hazards)' /\ todo' = NodeIds' /\ spent' = spent
    BY <1>1, <2>1, <2>2 DEF Score
  <2> QED
    BY <2>1, <2>3 DEF GreedyInv
<1>2. ASSUME NEW i \in todo, Consider(i) PROVE GreedyInv'
  <2>1. /\ UNCHANGED <<fleet, pc>> /\ pc = "greedy" /\ NodeIds' = NodeIds
        /\ i \in NodeIds \ Chosen /\ todo' = todo \ {i}
        /\ \/ /\ spent + fleet.hours[i] <= fleet.budget
              /\ spent' = spent + fleet.hours[i] /\ Chosen' = Chosen \cup {i}
           \/ /\ spent + fleet.hours[i] > fleet.budget
              /\ spent' = spent /\ Chosen' = Chosen
    BY <1>2, ConsiderEffect
  <2>2. UNCHANGED reduction /\ \A j \in todo : Before(i, j)
    BY <1>2 DEF Consider, Best
  <2>3. /\ Hazards' = Hazards /\ Covariance' = Covariance
        /\ \A j, k : Before(j, k)' <=> Before(j, k)
        /\ \A T : HoursOf(T)' = HoursOf(T)
    BY <2>1, <2>2, ScoresStand
  <2>4. /\ IsFiniteSet(NodeIds) /\ fleet.budget \in Nat
        /\ \A j \in NodeIds : fleet.hours[j] \in Nat
    BY <1>0, FleetSeries
  <2>5. Chosen \subseteq NodeIds /\ todo \subseteq NodeIds /\ Chosen \cap todo = {}
        /\ spent \in Nat
    BY DEF AllocationInv, Chosen
  <2>6. Chosen \subseteq Chosen' /\ Chosen' \subseteq Chosen \cup {i}
    BY <2>1
  <2>7. spent' = SumFunctionOnSet(fleet.hours, Chosen')
    <3>1. spent = HoursOf(Chosen)
      BY DEF GreedyInv
    <3>2. CASE Chosen' = Chosen /\ spent' = spent
      BY <3>1, <3>2 DEF HoursOf
    <3>3. CASE Chosen' = Chosen \cup {i} /\ spent' = spent + fleet.hours[i]
      <4> DEFINE T == Chosen \cup {i}
      <4>1. T \subseteq NodeIds /\ i \in T /\ T \ {i} = Chosen
        BY <2>1, <2>5
      <4> HIDE DEF T
      <4>2. IsFiniteSet(T) /\ \A j \in T : fleet.hours[j] \in Int
        BY <2>4, <4>1, FS_Subset
      <4>3. HoursOf(T) = fleet.hours[i] + HoursOf(Chosen)
        BY <4>1, <4>2, SumTakesOut DEF HoursOf
      <4>4. fleet.hours[i] \in Nat
        BY <2>1, <2>4
      <4> QED
        BY <2>5, <3>1, <3>3, <4>3, <4>4 DEF T, HoursOf
    <3> QED
      BY <2>1, <3>2, <3>3
  <2>8. reduction' = RiskReduction(Covariance, Hazards)'
    BY <2>1, <2>2, <2>3 DEF GreedyInv
  <2>9. \A j \in NodeIds' \ todo', k \in todo' : Before(j, k)'
    <3> SUFFICES ASSUME NEW j \in NodeIds \ todo', NEW k \in todo' PROVE Before(j, k)
      BY <2>1, <2>3
    <3>1. k \in todo /\ (j = i \/ j \in NodeIds \ todo)
      BY <2>1
    <3> QED
      BY <2>1, <2>2, <3>1 DEF GreedyInv
  <2>10. \A j \in NodeIds' \ todo' : fleet'.hours[j] = 0 => j \in Chosen'
    <3> SUFFICES ASSUME NEW j \in NodeIds \ todo', fleet.hours[j] = 0 PROVE j \in Chosen'
      BY <2>1
    <3>1. CASE j = i
      <4>1. spent <= fleet.budget
        BY DEF AllocationInv
      <4> QED
        BY <2>1, <2>4, <2>5, <3>1, <4>1
    <3>2. CASE j # i
      BY <2>1, <2>6, <3>2 DEF GreedyInv
    <3> QED
      BY <3>1, <3>2
  <2>11. \/ NodeIds' \ todo' \subseteq Chosen'
         \/ \E f \in NodeIds' \ todo', P \in SUBSET Chosen' : FirstSkipped(f, P)'
    <3>1. CASE NodeIds \ todo \subseteq Chosen /\ Chosen' = Chosen \cup {i}
      BY <2>1, <3>1
    <3>2. CASE /\ NodeIds \ todo \subseteq Chosen
               /\ Chosen' = Chosen /\ spent + fleet.hours[i] > fleet.budget
      <4>1. NodeIds \ Chosen = todo
        BY <2>5, <3>2
      <4>2. \A j \in Chosen : Before(j, i)
        BY <2>1, <2>5 DEF GreedyInv
      <4>3. HoursOf(Chosen) + fleet.hours[i] > fleet.budget
        BY <3>2 DEF GreedyInv
      <4>4. PICK P \in SUBSET Chosen : P = Chosen
        OBVIOUS
      <4>5. FirstSkipped(i, P)
        BY <2>1, <2>2, <4>1, <4>2, <4>3, <4>4 DEF FirstSkipped
      <4>6. FirstSkipped(i, P)' /\ P \in SUBSET Chosen' /\ i \in NodeIds' \ todo'
        BY <2>1, <2>3, <3>2, <4>4, <4>5 DEF FirstSkipped
      <4> QED
        BY <4>6
    <3>3. ASSUME NEW f \in NodeIds \ todo, NEW P \in SUBSET Chosen, FirstSkipped(f, P)
          PROVE  \E g \in NodeIds' \ todo', Q \in SUBSET Chosen' : FirstSkipped(g, Q)'
      <4>1. f \in NodeIds' \ todo' /\ P \in SUBSET Chosen' /\ f \notin Chosen'
        BY <2>1, <2>6, <3>3 DEF FirstSkipped
      <4>2. FirstSkipped(f, P)'
        BY <2>1, <2>3, <3>3, <4>1 DEF FirstSkipped
      <4> QED
        BY <4>1, <4>2
    <3> QED
      BY <2>1, <3>1, <3>2, <3>3 DEF GreedyInv
  <2> QED
    BY <2>1, <2>7, <2>8, <2>9, <2>10, <2>11 DEF GreedyInv, HoursOf
<1>3. CASE Return \/ UNCHANGED allocationVars
  <2>1. UNCHANGED <<fleet, reduction, todo, selected, spent>> /\ (pc' = pc \/ pc = "greedy")
    BY <1>3 DEF Return, allocationVars
  <2>2. /\ NodeIds' = NodeIds /\ Hazards' = Hazards /\ Covariance' = Covariance
        /\ \A i, j : Before(i, j)' <=> Before(i, j)
        /\ \A T : HoursOf(T)' = HoursOf(T)
    BY <2>1, ScoresStand
  <2>3. Chosen' = Chosen
    BY <2>1 DEF Chosen
  <2>4. SumFunctionOnSet(fleet'.hours, Chosen') = HoursOf(Chosen)
    BY <2>1, <2>3 DEF HoursOf
  <2>5. ASSUME NEW f, NEW P PROVE FirstSkipped(f, P)' <=> FirstSkipped(f, P)
    BY <2>1, <2>2, <2>3 DEF FirstSkipped
  <2> QED
    BY <2>1, <2>2, <2>3, <2>4, <2>5 DEF GreedyInv, HoursOf
<1> QED
  BY <1>1, <1>2, <1>3 DEF AllocationNext

\* GreedyInv holds throughout.
LEMMA GreedyInvariant == AllocationSpec => []GreedyInv
<1>1. AllocationSpec => []AllocationInv
  BY AllocationInvariant
<1> QED
  BY <1>1, GreedyStart, GreedyPreserved, PTL DEF AllocationSpec

\* portfolio.py and portfolio_optimizer.py agree on hedges, for every fleet.
THEOREM HedgesAreLeftAlone == AllocationSpec => []HedgesNeverPay
<1>1. AllocationInv /\ GreedyInv => HedgesNeverPay
  <2> SUFFICES ASSUME AllocationInv, GreedyInv, pc = "greedy", NEW i \in NodeIds,
                      RiskContribution(Covariance, Hazards, i) <= 0, PostReview <= Hazards[i]
               PROVE  reduction[i] = 0
    BY DEF HedgesNeverPay
  <2>1. fleet \in Fleets
    BY DEF AllocationInv
  <2>2. reduction = RiskReduction(Covariance, Hazards)
    BY DEF GreedyInv
  <2> QED
    BY <2>1, <2>2, HedgeReduction
<1> QED
  BY <1>1, AllocationInvariant, GreedyInvariant, PTL

\* The greedy pass loses at most one review against every choice within the budget, for
\* every fleet: cut at the first node passed over, the order of the scores is the best
\* choice for a budget that is larger than the one there is.
THEOREM LosesOneReview == AllocationSpec => []WithinOneReview
<1>1. AllocationInv /\ GreedyInv => WithinOneReview
  <2> SUFFICES ASSUME AllocationInv, GreedyInv, pc = "returned",
                      NEW S \in SUBSET NodeIds, HoursOf(S) <= fleet.budget
               PROVE  \/ ReductionOf(S) <= ReductionOf(Chosen)
                      \/ \E i \in NodeIds \ Chosen :
                             ReductionOf(S) <= ReductionOf(Chosen) + reduction[i]
    BY DEF WithinOneReview
  <2>1. fleet \in Fleets /\ todo = {} /\ Chosen \subseteq NodeIds
    BY DEF AllocationInv, Chosen
  <2>2. reduction \in [NodeIds -> Nat] /\ reduction = RiskReduction(Covariance, Hazards)
    BY <2>1, ReductionType DEF GreedyInv
  <2>3. /\ IsFiniteSet(NodeIds) /\ fleet.budget \in Nat
        /\ \A i \in NodeIds : fleet.hours[i] \in Nat
    BY <2>1, FleetSeries
  <2>4. \A i \in NodeIds : reduction[i] \in Nat
    BY <2>2
  <2>5. CASE NodeIds \subseteq Chosen
    <3>1. S \in SUBSET Chosen /\ Chosen \in SUBSET NodeIds
      BY <2>1, <2>5
    <3>2. ReductionOf(S) <= ReductionOf(Chosen)
      BY <2>3, <2>4, <3>1, SumGrows DEF ReductionOf
    <3> QED
      BY <3>2
  <2>6. ASSUME NEW f \in NodeIds, NEW P \in SUBSET Chosen, FirstSkipped(f, P)
        PROVE  ReductionOf(S) <= ReductionOf(Chosen) + reduction[f] /\ f \notin Chosen
    <3> DEFINE Z == {i \in NodeIds : fleet.hours[i] = 0}
    <3>1. f \in NodeIds \ Chosen /\ Z \subseteq Chosen /\ P \subseteq NodeIds /\ Z \subseteq NodeIds
      BY <2>1, <2>6 DEF FirstSkipped, GreedyInv
    <3>2. fleet.hours[f] \in Nat /\ fleet.hours[f] > 0
      BY <2>3, <3>1
    <3>3. ASSUME NEW i \in P \cup Z
          PROVE  reduction[f] * fleet.hours[i] <= fleet.hours[f] * reduction[i]
      <4>1. /\ reduction[f] \in Nat /\ reduction[i] \in Nat
            /\ fleet.hours[f] \in Nat /\ fleet.hours[i] \in Nat
        BY <2>3, <2>4, <3>1
      <4>2. CASE fleet.hours[i] = 0
        BY <4>1, <4>2
      <4>3. CASE fleet.hours[i] > 0
        <5>1. Before(i, f)
          BY <4>3, <2>6 DEF FirstSkipped
        <5>2. /\ ScoreOf(i)[1] = reduction[i] /\ ScoreOf(i)[2] = fleet.hours[i]
              /\ ScoreOf(f)[1] = reduction[f] /\ ScoreOf(f)[2] = fleet.hours[f]
          BY <3>2, <4>3 DEF ScoreOf
        <5>3. reduction[i] * fleet.hours[f] >= reduction[f] * fleet.hours[i]
          BY <4>1, <5>1, <5>2 DEF Before
        <5> QED
          BY <4>1, <5>3
      <4> QED
        BY <4>1, <4>2, <4>3
    <3>4. ASSUME NEW i \in NodeIds \ (P \cup Z)
          PROVE  fleet.hours[f] * reduction[i] <= reduction[f] * fleet.hours[i]
      <4>1. /\ reduction[f] \in Nat /\ reduction[i] \in Nat /\ fleet.hours[f] \in Nat
            /\ fleet.hours[i] \in Nat /\ fleet.hours[i] > 0
        BY <2>3, <2>4, <3>1
      <4>2. Before(f, i)
        BY <2>6 DEF FirstSkipped
      <4>3. /\ ScoreOf(i)[1] = reduction[i] /\ ScoreOf(i)[2] = fleet.hours[i]
            /\ ScoreOf(f)[1] = reduction[f] /\ ScoreOf(f)[2] = fleet.hours[f]
        BY <3>2, <4>1 DEF ScoreOf
      <4>4. reduction[f] * fleet.hours[i] >= reduction[i] * fleet.hours[f]
        BY <4>1, <4>2, <4>3 DEF Before
      <4> QED
        BY <4>1, <4>4
    <3>5. SumFunctionOnSet(fleet.hours, P) + fleet.hours[f] > fleet.budget
      BY <2>6 DEF FirstSkipped, HoursOf
    <3>6. DensityCut(NodeIds, fleet.hours, reduction, f, P, Z, fleet.budget)
      <4>1. P \subseteq NodeIds /\ Z \subseteq NodeIds /\ f \in NodeIds \ P
            /\ fleet.budget \in Int
        BY <2>3, <3>1
      <4> HIDE DEF Z
      <4> QED
        BY <2>3, <2>4, <3>2, <3>3, <3>4, <3>5, <4>1 DEF DensityCut
    <3> DEFINE G == P \cup Z \cup {f}  C == Chosen \cup {f}
    <3>7. ReductionOf(S) <= ReductionOf(G)
      <4> HIDE DEF Z
      <4> QED
        BY <3>6, DensityCutIsBest DEF HoursOf, ReductionOf
    <3>8. G \in SUBSET C /\ C \in SUBSET NodeIds /\ f \in C /\ C \ {f} = Chosen
      BY <2>1, <3>1
    <3> HIDE DEF G, C
    <3>9. ReductionOf(G) <= ReductionOf(C)
      BY <2>3, <2>4, <3>8, SumGrows DEF ReductionOf
    <3>10. IsFiniteSet(C) /\ \A i \in C : reduction[i] \in Int
      BY <2>3, <2>4, <3>8, FS_Subset
    <3>11. ReductionOf(C) = reduction[f] + ReductionOf(Chosen)
      BY <3>8, <3>10, SumTakesOut DEF ReductionOf
    <3>12. /\ \A i \in NodeIds : reduction[i] \in Int
           /\ G \in SUBSET NodeIds
      BY <2>4, <3>8
    <3>13. ReductionOf(S) \in Int /\ ReductionOf(G) \in Int /\ ReductionOf(Chosen) \in Int
           /\ reduction[f] \in Int
      BY <2>1, <2>3, <3>12, SumIsInt DEF ReductionOf
    <3> QED
      BY <3>1, <3>7, <3>9, <3>11, <3>13
  <2> QED
    BY <2>1, <2>5, <2>6 DEF GreedyInv
<1> QED
  BY <1>1, AllocationInvariant, GreedyInvariant, PTL

-------------------------------------------------------------------------------
(***************************************************************************)
(* Early warning, for any snapshots, window and limit.                     *)
(***************************************************************************)
WarningInv == trail \in Seq(Snapshots)

\* The trail holds snapshots only (LifecycleRun appends one, nobody else does).
LEMMA WarningInvariant == WarningSpec => []WarningInv
<1>1. WarningInit => WarningInv
  BY DEF WarningInit, WarningInv
<1>2. WarningInv /\ [WarningNext]_warningVars => WarningInv'
  BY DEF WarningInv, WarningNext, warningVars, LifecycleRun, check_and_warn_node, Recertification
<1> QED
  BY <1>1, <1>2, PTL DEF WarningSpec

Shown == IF Len(trail) < Limit THEN Len(trail) ELSE Limit

\* The series that the check reads on a watched axis.
LEMMA HistoryType ==
    ASSUME WarningInv, NEW a \in WatchedAxes
    PROVE  LET w == get_reliability_history(a) IN
           /\ Shown \in Nat /\ Len(w) = Shown /\ w \in [1 .. Shown -> Level] /\ w \in [1 .. Shown -> Int]
           /\ \A k \in 1 .. Shown : /\ Len(trail) - Shown + k \in DOMAIN trail
                                    /\ w[k] = trail[Len(trail) - Shown + k][a]
<1> DEFINE w == get_reliability_history(a)  L == Shown  t == Newest(trail, Limit)
<1>1. trail \in Seq(Snapshots) /\ Limit \in Nat /\ Len(trail) \in Nat
  BY WarningAssumption DEF WarningInv
<1>2. L = IF Len(trail) < Limit THEN Len(trail) ELSE Limit
  BY DEF Shown
<1> HIDE DEF L
<1>3. /\ L \in Nat /\ t \in [1 .. L -> Snapshots]
      /\ \A k \in 1 .. L : t[k] = trail[Len(trail) - L + k]
  <2>1. Keeps(Snapshots, trail, Limit, L)
    BY <1>1, <1>2 DEF Keeps
  <2> QED
    BY <2>1, NewestKeeps DEF t
<1> HIDE DEF t
<1>4. \A v \in Snapshots : v[a] \in Level
  BY WarningAssumption DEF WatchedAxes
<1>5. Level \subseteq Int
  BY ScaleAssumption DEF Level
<1>6. w = [k \in DOMAIN t |-> t[k][a]]
  BY DEF get_reliability_history, t
<1> HIDE DEF w
<1>7. w = [k \in 1 .. L |-> t[k][a]]
  BY <1>3, <1>6
<1>8. w \in [1 .. L -> Level] /\ w \in [1 .. L -> Int]
  BY <1>3, <1>4, <1>5, <1>7
<1>9. Len(w) = L
  BY <1>3, <1>8, SeriesLength
<1>10. \A k \in 1 .. L : w[k] = trail[Len(trail) - L + k][a]
  BY <1>3, <1>7
<1>11. DOMAIN trail = 1 .. Len(trail) /\ L <= Len(trail)
  BY <1>1, <1>2
<1>12. \A k \in 1 .. L : Len(trail) - L + k \in DOMAIN trail
  BY <1>1, <1>3, <1>11
<1> QED
  BY <1>3, <1>8, <1>9, <1>10, <1>12 DEF w, L

\* The pairs of neighbours that lag1_autocorr correlates.
IsWindow(L, w) == L \in Nat /\ L >= 1 /\ w \in [1 .. L -> Int]

ArePair(M, x, y, w) == /\ x \in [1 .. M -> Int] /\ y \in [1 .. M -> Int]
                       /\ \A k \in 1 .. M : x[k] = w[k] /\ y[k] = w[k + 1]

\* Both have one element less than the window.
LEMMA LagSeries ==
    ASSUME NEW L, NEW w, IsWindow(L, w)
    PROVE  ArePair(L - 1, SubSeq(w, 1, L - 1), SubSeq(w, 2, L), w)
<1> DEFINE x == SubSeq(w, 1, L - 1)  y == SubSeq(w, 2, L)  M == L - 1
<1>0. L \in Nat /\ L >= 1 /\ w \in [1 .. L -> Int]
  BY DEF IsWindow
<1>1. w \in Seq(Int) /\ Len(w) = L
  BY <1>0, SeriesLength
<1> DEFINE first == 1  second == 2
<1>2. IsSlice(Int, w, first, M, M) /\ IsSlice(Int, w, second, L, M)
  BY <1>0, <1>1 DEF IsSlice
<1>3. \A k \in 1 .. M : first + k - 1 = k /\ second + k - 1 = k + 1
  BY <1>0
<1> HIDE DEF first, second, M
<1>4. IsPart(SubSeq(w, first, M), Int, w, first, M)
  BY <1>2, Slice
<1>5. IsPart(SubSeq(w, second, L), Int, w, second, M)
  BY <1>2, Slice
<1>6. x = SubSeq(w, first, M) /\ y = SubSeq(w, second, L)
  BY DEF first, second, M
<1> HIDE DEF x, y
<1>7. ArePair(M, x, y, w)
  BY <1>3, <1>4, <1>5, <1>6 DEF IsPart, ArePair
<1> QED
  BY <1>7 DEF x, y, M

\* The only step that warns.
LEMMA OnlyTheCheckWarns ==
    ASSUME [WarningNext]_warningVars, Warned
    PROVE  \E a \in WatchedAxes : compute_csd_warnings(get_reliability_history(a))
BY DEF WarningNext, warningVars, Warned, LifecycleRun, check_and_warn_node, Recertification, SEVERITY

\* A window in which the axis stood still does not warn.
THEOREM SteadyNodesAreLeftAlone == WarningSpec => OldSwingsForgotten
<1>1. WarningInv /\ [WarningNext]_warningVars
          => [Warned => \E a \in WatchedAxes : Cardinality(Recent(a)) > 1]_warningVars
  <2> SUFFICES ASSUME WarningInv, [WarningNext]_warningVars, Warned
               PROVE  \E a \in WatchedAxes : Cardinality(Recent(a)) > 1
    OBVIOUS
  <2>1. PICK a \in WatchedAxes : compute_csd_warnings(get_reliability_history(a))
    BY OnlyTheCheckWarns
  <2> DEFINE w == get_reliability_history(a)  L == Shown
  <2>2. /\ L \in Nat /\ Len(w) = L /\ w \in [1 .. L -> Level] /\ w \in [1 .. L -> Int]
        /\ \A k \in 1 .. L : /\ Len(trail) - L + k \in DOMAIN trail
                             /\ w[k] = trail[Len(trail) - L + k][a]
    BY HistoryType
  <2>3. L >= 2 /\ Moment(w, w) # 0
    <3>1. Len(w) >= 2 /\ 50 * Moment(w, w) > Len(w) * Len(w) * Scale * Scale
      BY <2>1 DEF compute_csd_warnings, rolling_variance_high
    <3> HIDE DEF w, L
    <3> DEFINE X == L * L * Scale * Scale
    <3>2. X \in Nat
      <4>1. L * L \in Nat
        BY <2>2
      <4>2. L * L * Scale \in Nat
        BY <4>1, ScaleAssumption
      <4> QED
        BY <4>2, ScaleAssumption
    <3>3. 50 * Moment(w, w) > X /\ L >= 2
      BY <2>2, <3>1
    <3> HIDE DEF X
    <3>4. Moment(w, w) # 0
      BY <3>2, <3>3
    <3> QED
      BY <3>3, <3>4
  <2>4. \A k \in 1 .. L : w[k] \in Recent(a)
    <3>1. L <= Limit /\ Len(trail) \in Nat /\ Limit \in Nat
      BY WarningAssumption DEF Shown, WarningInv
    <3>2. \A k \in 1 .. L : (Len(trail) - L + k) + Limit > Len(trail)
      BY <2>2, <3>1
    <3> HIDE DEF w, L
    <3> QED
      BY <2>2, <3>2 DEF Recent
  <2>5. \E k \in 1 .. L : w[k] # w[1]
    <3> SUFFICES ASSUME \A k \in 1 .. L : w[k] = w[1] PROVE FALSE
      OBVIOUS
    <3> HIDE DEF w, L
    <3>1. w[1] \in Int
      BY <2>2, <2>3
    <3>2. Moment(w, w) = 0
      BY <2>2, <3>1, SteadyMoment
    <3> QED
      BY <2>3, <3>2
  <2>6. PICK u \in Recent(a), v \in Recent(a) : u # v
    <3> HIDE DEF w, L
    <3>1. 1 \in 1 .. L
      BY <2>2, <2>3
    <3> QED
      BY <2>4, <2>5, <3>1
  <2>7. IsFiniteSet(Recent(a))
    <3>1. \A s \in Snapshots : s[a] \in Level
      BY WarningAssumption DEF WatchedAxes
    <3>2. \A k \in DOMAIN trail : trail[k] \in Snapshots
      BY DEF WarningInv
    <3>3. Recent(a) \subseteq Level
      BY <3>1, <3>2 DEF Recent
    <3>4. IsFiniteSet(Level)
      BY ScaleAssumption, FS_Interval DEF Level
    <3> QED
      BY <3>3, <3>4, FS_Subset
  <2>8. Cardinality({u, v}) = 2
    <3>1. IsFiniteSet({u}) /\ Cardinality({u}) = 1
      BY FS_Singleton
    <3>2. {u, v} = {u} \cup {v} /\ v \notin {u}
      BY <2>6
    <3> QED
      BY <3>1, <3>2, FS_AddElement, SMTT(30)
  <2>9. {u, v} \subseteq Recent(a)
    BY <2>6
  <2>10. Cardinality({u, v}) <= Cardinality(Recent(a)) /\ Cardinality(Recent(a)) \in Nat
    BY <2>7, <2>9, FS_Subset, FS_CardinalityType
  <2> QED
    BY <2>8, <2>10
<1> QED
  BY <1>1, WarningInvariant, PTL DEF WarningSpec, OldSwingsForgotten

\* An axis that flips between two values in the whole window does not warn.
THEOREM FlappingNeverWarns == WarningSpec => FlappingIsQuiet
<1>1. WarningInv /\ [WarningNext]_warningVars
          => [Warned => \E a \in WatchedAxes : ~Flaps(a)]_warningVars
  <2> SUFFICES ASSUME WarningInv, [WarningNext]_warningVars, Warned
               PROVE  \E a \in WatchedAxes : ~Flaps(a)
    OBVIOUS
  <2>1. PICK a \in WatchedAxes : compute_csd_warnings(get_reliability_history(a))
    BY OnlyTheCheckWarns
  <2> SUFFICES ASSUME Flaps(a) PROVE FALSE
    OBVIOUS
  <2> DEFINE w == get_reliability_history(a)  L == Shown  M == L - 1
             x == SubSeq(w, 1, L - 1)  y == SubSeq(w, 2, L)
  <2>2. /\ L \in Nat /\ Len(w) = L /\ w \in [1 .. L -> Int]
        /\ \A k \in 1 .. L : /\ Len(trail) - L + k \in DOMAIN trail
                             /\ w[k] = trail[Len(trail) - L + k][a]
    BY HistoryType
  <2>3. L >= 3 /\ Moment(x, y) > 0
    BY <2>1, <2>2 DEF compute_csd_warnings, lag1_autocorr_high
  <2>4. \A k \in 1 .. L : k + 2 <= L => w[k + 2] = w[k]
    <3>1. L <= Limit /\ Len(trail) \in Nat /\ Limit \in Nat
      BY WarningAssumption DEF Shown, WarningInv
    <3> HIDE DEF w, L
    <3> SUFFICES ASSUME NEW k \in 1 .. L, k + 2 <= L PROVE w[k + 2] = w[k]
      OBVIOUS
    <3> DEFINE j == Len(trail) - L + k
    <3>2. j + Limit > Len(trail) /\ j + 2 <= Len(trail) /\ j + 2 = Len(trail) - L + (k + 2)
      BY <2>2, <3>1
    <3>3. j \in DOMAIN trail /\ w[k] = trail[j][a]
      BY <2>2
    <3>4. k + 2 \in 1 .. L
      BY <2>2
    <3>5. w[k + 2] = trail[j + 2][a]
      <4>1. w[k + 2] = trail[Len(trail) - L + (k + 2)][a]
        BY <2>2, <3>4
      <4> QED
        BY <3>2, <4>1
    <3> HIDE DEF j
    <3>6. trail[j + 2][a] = trail[j][a]
      BY <3>2, <3>3 DEF Flaps
    <3> QED
      BY <3>3, <3>5, <3>6
  <2> HIDE DEF w, L
  <2>5. /\ x \in [1 .. M -> Int] /\ y \in [1 .. M -> Int] /\ M \in Nat /\ M >= 2
        /\ \A k \in 1 .. M : x[k] = w[k] /\ y[k] = w[k + 1]
    <3>1. IsWindow(L, w) /\ M \in Nat /\ M >= 2
      BY <2>2, <2>3 DEF IsWindow
    <3>2. ArePair(M, x, y, w)
      BY <3>1, LagSeries
    <3> HIDE DEF x, y, M
    <3> QED
      BY <3>1, <3>2 DEF ArePair
  <2> DEFINE c == w[1] + w[2]
             W == {k \in Nat : k < M => w[k + 1] + w[k + 2] = c}
  <2>6. \A k \in 1 .. L : w[k] \in Int
    BY <2>2
  <2>7. \A k \in Nat : k \in W
    <3>1. 0 \in W
      OBVIOUS
    <3>2. ASSUME NEW k \in Nat, k \in W PROVE k + 1 \in W
      <4> SUFFICES ASSUME k + 1 < M PROVE w[(k + 1) + 1] + w[(k + 1) + 2] = c
        OBVIOUS
      <4>1. k + 1 \in 1 .. L /\ k + 2 \in 1 .. L /\ k + 3 \in 1 .. L /\ (k + 1) + 2 = k + 3
            /\ (k + 1) + 1 = k + 2 /\ k < M /\ (k + 1) + 2 <= L
        BY <2>2
      <4>2. w[k + 1] + w[k + 2] = c
        BY <3>2, <4>1
      <4>3. w[(k + 1) + 2] = w[k + 1]
        BY <2>4, <4>1
      <4>4. w[k + 1] \in Int /\ w[k + 2] \in Int
        BY <2>6, <4>1
      <4> HIDE DEF c
      <4> QED
        BY <4>1, <4>2, <4>3, <4>4
    <3> HIDE DEF W
    <3> QED
      BY <3>1, <3>2, NatSetInduction
  <2>8. \A k \in 1 .. M : y[k] = c - x[k]
    <3> SUFFICES ASSUME NEW k \in 1 .. M PROVE y[k] = c - x[k]
      OBVIOUS
    <3>1. k - 1 \in Nat /\ k - 1 < M /\ (k - 1) + 1 = k /\ (k - 1) + 2 = k + 1
      BY <2>5
    <3>2. w[(k - 1) + 1] + w[(k - 1) + 2] = c
      BY <2>7, <3>1
    <3>3. x[k] = w[k] /\ y[k] = w[k + 1] /\ x[k] \in Int /\ y[k] \in Int
      BY <2>5
    <3> HIDE DEF x, y, c
    <3> QED
      BY <3>1, <3>2, <3>3
  <2>9. c \in Int
    BY <2>3, <2>6, <2>2
  <2>10. Moment(x, y) = -Moment(x, x) /\ Moment(x, x) >= 0 /\ Moment(x, x) \in Int
    <3> HIDE DEF x, y, c, M
    <3>1. Moment(x, y) = -Moment(x, x)
      <4>1. Complement(M, x, y, c)
        BY <2>5, <2>8, <2>9 DEF Complement
      <4> QED
        BY <4>1, ComplementMoment
    <3>2. Moment(x, x) >= 0
      BY <2>5, MomentNonNegative
    <3>3. Moment(x, x) \in Int
      BY <2>5, MomentUnfolds
    <3> QED
      BY <3>1, <3>2, <3>3
  <2> QED
    BY <2>3, <2>10
<1> QED
  BY <1>1, WarningInvariant, PTL DEF WarningSpec, FlappingIsQuiet

\* A series that rises warns whenever the one that falls the same way does.
THEOREM WarningsAreDirectionless == WarningSpec => []RecoveryWarnsToo
<1>1. WarningInv => RecoveryWarnsToo
  <2> SUFFICES ASSUME WarningInv, NEW a \in WatchedAxes
               PROVE  LET w == get_reliability_history(a)
                      IN  compute_csd_warnings(w)
                              <=> compute_csd_warnings([k \in DOMAIN w |-> w[Len(w) + 1 - k]])
    BY DEF RecoveryWarnsToo
  <2> DEFINE w == get_reliability_history(a)  L == Shown
             r == [k \in DOMAIN w |-> w[Len(w) + 1 - k]]
  <2>1. L \in Nat /\ Len(w) = L /\ w \in [1 .. L -> Int]
    BY HistoryType
  <2> HIDE DEF w, L
  <2>2. r = [k \in 1 .. L |-> w[L + 1 - k]]
    BY <2>1
  <2>3. \A k \in 1 .. L : L + 1 - k \in 1 .. L
    BY <2>1
  <2> HIDE DEF r
  <2>4. r \in [1 .. L -> Int]
    BY <2>1, <2>2, <2>3
  <2>5. Len(r) = L
    BY <2>1, <2>4, SeriesLength
  <2>6. Moment(r, r) = Moment(w, w)
    <3>1. Reversed(L, w, w, r, r)
      BY <2>1, <2>2 DEF Reversed
    <3> QED
      BY <3>1, ReversedMoment
  <2>7. rolling_variance_high(r) <=> rolling_variance_high(w)
    BY <2>1, <2>5, <2>6 DEF rolling_variance_high
  <2>8. lag1_autocorr_high(r) <=> lag1_autocorr_high(w)
    <3>1. CASE L < 3
      BY <2>1, <2>5, <3>1 DEF lag1_autocorr_high
    <3>2. CASE L >= 3
      <4> DEFINE x == SubSeq(w, 1, L - 1)  y == SubSeq(w, 2, L)  M == L - 1
                 u == SubSeq(r, 1, L - 1)  v == SubSeq(r, 2, L)
      <4>1. IsWindow(L, w) /\ IsWindow(L, r) /\ M \in Nat
        BY <2>1, <2>4, <3>2 DEF IsWindow
      <4>2. /\ x \in [1 .. M -> Int] /\ y \in [1 .. M -> Int]
            /\ \A k \in 1 .. M : x[k] = w[k] /\ y[k] = w[k + 1]
        <5>1. ArePair(M, x, y, w)
          BY <4>1, LagSeries
        <5> HIDE DEF x, y, M
        <5> QED
          BY <5>1 DEF ArePair
      <4>3. /\ u \in [1 .. M -> Int] /\ v \in [1 .. M -> Int]
            /\ \A k \in 1 .. M : u[k] = r[k] /\ v[k] = r[k + 1]
        <5>1. ArePair(M, u, v, r)
          BY <4>1, LagSeries
        <5> HIDE DEF u, v, M
        <5> QED
          BY <5>1 DEF ArePair
      <4>4. \A k \in 1 .. M : /\ M + 1 - k \in 1 .. M /\ k \in 1 .. L /\ k + 1 \in 1 .. L
                              /\ (M + 1 - k) + 1 = L + 1 - k /\ M + 1 - k = L + 1 - (k + 1)
        BY <2>1, <4>1
      <4> HIDE DEF x, y, u, v, M
      <4>5. \A k \in 1 .. M : u[k] = y[M + 1 - k] /\ v[k] = x[M + 1 - k]
        <5> SUFFICES ASSUME NEW k \in 1 .. M PROVE u[k] = y[M + 1 - k] /\ v[k] = x[M + 1 - k]
          OBVIOUS
        <5>1. r[k] = w[L + 1 - k] /\ r[k + 1] = w[L + 1 - (k + 1)]
          BY <2>2, <4>4
        <5>2. y[M + 1 - k] = w[(M + 1 - k) + 1] /\ x[M + 1 - k] = w[M + 1 - k]
          BY <4>2, <4>4
        <5>3. /\ M + 1 - k \in 1 .. M /\ (M + 1 - k) + 1 = L + 1 - k
              /\ M + 1 - k = L + 1 - (k + 1)
          BY <4>4
        <5>4. u[k] = r[k] /\ v[k] = r[k + 1]
          BY <4>3
        <5> QED
          BY <5>1, <5>2, <5>3, <5>4
      <4>6. u = [k \in 1 .. M |-> y[M + 1 - k]] /\ v = [k \in 1 .. M |-> x[M + 1 - k]]
        BY <4>3, <4>5
      <4>7. Reversed(M, y, x, u, v) /\ Reversed(M, y, y, u, u) /\ Reversed(M, x, x, v, v)
        BY <4>1, <4>2, <4>6 DEF Reversed
      <4>8. Moment(u, v) = Moment(y, x) /\ Moment(u, u) = Moment(y, y)
            /\ Moment(v, v) = Moment(x, x)
        BY <4>7, ReversedMoment
      <4>9. Moment(y, x) = Moment(x, y)
        BY <4>1, <4>2, MomentIsSymmetric
      <4>10. /\ Moment(x, x) \in Int /\ Moment(y, y) \in Int
             /\ Moment(x, x) * Moment(y, y) = Moment(y, y) * Moment(x, x)
        <5>1. Moment(x, x) \in Int /\ Moment(y, y) \in Int
          BY <4>1, <4>2, MomentUnfolds
        <5> QED
          BY <5>1
      <4>11. lag1_autocorr_high(w) <=>
                 Moment(x, y) > 0 /\ 4 * Moment(x, y) * Moment(x, y) > Moment(x, x) * Moment(y, y)
        BY <2>1, <3>2 DEF lag1_autocorr_high, x, y
      <4>12. lag1_autocorr_high(r) <=>
                 Moment(u, v) > 0 /\ 4 * Moment(u, v) * Moment(u, v) > Moment(u, u) * Moment(v, v)
        BY <2>5, <3>2 DEF lag1_autocorr_high, u, v
      <4> QED
        BY <4>8, <4>9, <4>10, <4>11, <4>12
    <3> QED
      BY <2>1, <3>1, <3>2
  <2>9. compute_csd_warnings(w) <=> compute_csd_warnings(r)
    BY <2>1, <2>5, <2>7, <2>8 DEF compute_csd_warnings
  <2> QED
    BY <2>9 DEF w, r
<1> QED
  BY <1>1, WarningInvariant, PTL
===============================================================================
