-------------------------- MODULE InductionTheorems --------------------------
(***************************************************************************)
(* Lemmas that rest on induction: on the least number of a set, on finite    *)
(* sets, on functions defined by recursion, for the proofs about loops, and  *)
(* on the sums SumFunctionOnSet takes, for the proofs that count what        *)
(* several callers or requests have in flight.                               *)
(*                                                                           *)
(* An induction is stated of a set instead of a predicate: the numbers, or   *)
(* the subsets, that have the property.                                      *)
(***************************************************************************)
EXTENDS Functions, Integers, FiniteSetTheorems, WellFoundedInduction, TLAPS

-----------------------------------------------------------------------------
(* Induction.                                                                *)

\* A set of numbers has a least one.
LEMMA LeastOf ==
  ASSUME NEW T \in SUBSET Nat, T # {}
  PROVE  \E m \in T : \A k \in T : m <= k
<1> DEFINE R == OpToRel(<, Nat)
<1>1. IsWellFoundedOn(R, Nat)
  BY NatLessThanWellFounded
<1>2. \A k, m \in Nat : k < m => <<k, m>> \in R
  BY DEF OpToRel
<1> HIDE DEF R
<1>3. PICK m \in T : \A k \in T : ~(<<k, m>> \in R)
  BY <1>1, WFMin
<1>4. ASSUME NEW k \in T PROVE m <= k
  <2>1. ~(k < m)
    BY <1>2, <1>3
  <2> QED
    BY <2>1
<1> QED
  BY <1>4

\* A set of numbers with 0 that has the successor of each is all of them.
LEMMA InductiveSet ==
  ASSUME NEW T \in SUBSET Nat, 0 \in T, \A n \in T : n + 1 \in T
  PROVE  T = Nat
<1> SUFFICES ASSUME Nat \ T # {} PROVE FALSE
  OBVIOUS
<1>1. PICK m \in Nat \ T : \A k \in Nat \ T : m <= k
  BY LeastOf
<1>2. m # 0 /\ m - 1 \in Nat
  BY <1>1
<1>3. m - 1 \in T
  BY <1>1, <1>2
<1>4. (m - 1) + 1 = m
  BY <1>1
<1> QED
  BY <1>1, <1>3, <1>4

\* What is left of a set without one of its elements.
LEMMA OneFewer ==
  ASSUME NEW S, IsFiniteSet(S), NEW n \in Nat, Cardinality(S) = n + 1
  PROVE  /\ S # {}
         /\ \A x \in S : IsFiniteSet(S \ {x}) /\ Cardinality(S \ {x}) = n
<1>1. S # {}
  <2>1. n + 1 # 0
    OBVIOUS
  <2> QED
    BY <2>1, FS_EmptySet
<1>2. ASSUME NEW x \in S PROVE IsFiniteSet(S \ {x}) /\ Cardinality(S \ {x}) = n
  <2>1. IsFiniteSet(S \ {x}) /\ Cardinality(S \ {x}) = Cardinality(S) - 1
    BY FS_RemoveElement
  <2> QED
    BY <2>1
<1> QED
  BY <1>1, <1>2

\* A family with the empty set that has S's part with one more element of S
\* for each of its own has S.
LEMMA FiniteInduction ==
  ASSUME NEW S, IsFiniteSet(S), NEW F \in SUBSET SUBSET S,
         {} \in F,
         \A T \in F : \A x \in S \ T : T \cup {x} \in F
  PROVE  S \in F
<1> DEFINE N == { n \in Nat : \A T \in SUBSET S : Cardinality(T) = n => T \in F }
<1>1. \A T \in SUBSET S : IsFiniteSet(T) /\ Cardinality(T) \in Nat
  BY FS_Subset, FS_CardinalityType
<1>2. 0 \in N
  BY <1>1, FS_EmptySet
<1>3. ASSUME NEW n \in N PROVE n + 1 \in N
  <2> SUFFICES ASSUME NEW T \in SUBSET S, Cardinality(T) = n + 1 PROVE T \in F
    BY <1>3
  <2>1. T # {}
    BY <1>1, <1>3, OneFewer
  <2>2. PICK x \in T : TRUE
    BY <2>1
  <2>3. Cardinality(T \ {x}) = n
    BY <1>1, <1>3, <2>2, OneFewer
  <2>4. T \ {x} \in F
    BY <1>3, <2>3
  <2>5. T = (T \ {x}) \cup {x} /\ x \in S \ (T \ {x})
    BY <2>2
  <2> QED
    BY <2>4, <2>5
<1>4. N = Nat
  <2> HIDE DEF N
  <2>1. N \in SUBSET Nat
    BY DEF N
  <2> QED
    BY <1>2, <1>3, <2>1, InductiveSet
<1> QED
  BY <1>1, <1>4

\* A set that has the first number of 0 .. n, and with a number the one behind
\* it, has them all.
LEMMA InductiveUpTo ==
  ASSUME NEW n \in Nat, NEW T, 0 \in T, \A i \in T : i \in 0 .. n - 1 => i + 1 \in T
  PROVE  0 .. n \subseteq T
<1> DEFINE N == { i \in Nat : i <= n => i \in T }
<1>1. 0 \in N
  OBVIOUS
<1>2. ASSUME NEW i \in N PROVE i + 1 \in N
  <2>1. CASE i + 1 <= n
    <3>1. i \in T /\ i \in 0 .. n - 1
      BY <2>1
    <3> QED
      BY <3>1
  <2> QED
    BY <2>1
<1>3. N = Nat
  <2> HIDE DEF N
  <2>1. N \in SUBSET Nat
    BY DEF N
  <2> QED
    BY <1>1, <1>2, <2>1, InductiveSet
<1> QED
  BY <1>3

\* A loop starts with base, and its i-th iteration takes a value v to step[i][v]:
\* g has the value behind each of its n iterations.
LoopRuns(V, base, n, step, g) ==
  /\ g \in [0 .. n -> V]
  /\ \A i \in 0 .. n : g[i] = IF i = 0 THEN base ELSE step[i][g[i - 1]]

\* Every such loop runs.
LEMMA LoopsRun ==
  ASSUME NEW V, NEW base \in V, NEW n \in Nat, NEW step \in [1 .. n -> [V -> V]]
  PROVE  \E g : LoopRuns(V, base, n, step, g)
<1> USE DEF LoopRuns
<1> DEFINE Runs(m, g) == LoopRuns(V, base, m, step, g)
           T == { m \in 0 .. n : \E g : Runs(m, g) }
<1>1. 0 \in T
  <2>1. Runs(0, [i \in 0 .. 0 |-> base])
    OBVIOUS
  <2> HIDE DEF Runs
  <2> QED
    BY <2>1
<1>2. ASSUME NEW m \in T, m \in 0 .. n - 1 PROVE m + 1 \in T
  <2>1. PICK g : Runs(m, g)
    OBVIOUS
  <2> DEFINE h == [i \in 0 .. m + 1 |-> IF i = m + 1 THEN step[m + 1][g[m]] ELSE g[i]]
  <2>2. step[m + 1] \in [V -> V] /\ g[m] \in V
    BY <1>2, <2>1
  <2>3. h \in [0 .. m + 1 -> V]
    <3>1. \A i \in 0 .. m + 1 : i # m + 1 => i \in 0 .. m
      BY <1>2
    <3> QED
      BY <2>1, <2>2, <3>1
  <2>4. \A i \in 0 .. m + 1 : h[i] = IF i = 0 THEN base ELSE step[i][h[i - 1]]
    <3> SUFFICES ASSUME NEW i \in 0 .. m + 1
                 PROVE  h[i] = IF i = 0 THEN base ELSE step[i][h[i - 1]]
      OBVIOUS
    <3>1. CASE i = m + 1
      <4>1. i # 0 /\ i - 1 = m /\ h[m] = g[m] /\ h[i] = step[m + 1][g[m]]
        BY <1>2, <3>1
      <4> QED
        BY <3>1, <4>1
    <3>2. CASE i \in 1 .. m
      <4>1. h[i] = g[i] /\ h[i - 1] = g[i - 1] /\ i # 0
        BY <1>2, <3>2
      <4> QED
        BY <2>1, <3>2, <4>1
    <3>3. CASE i = 0
      <4>1. h[i] = g[i]
        BY <1>2, <3>3
      <4> QED
        BY <1>2, <2>1, <3>3, <4>1
    <3> QED
      BY <1>2, <3>1, <3>2, <3>3
  <2>5. Runs(m + 1, h)
    BY <2>3, <2>4
  <2> HIDE DEF Runs, h
  <2> QED
    BY <1>2, <2>5
<1>3. n \in T
  <2> HIDE DEF T
  <2>1. 0 .. n \subseteq T
    BY <1>1, <1>2, InductiveUpTo
  <2> QED
    BY <2>1
<1> QED
  BY <1>3

-----------------------------------------------------------------------------
(* What SumFunctionOnSet computes.                                           *)

Pick(s) == CHOOSE x \in s : TRUE

\* g sums f over the parts of S, one element after the other.
SumsOver(f, S, g) ==
    g = [s \in SUBSET S |-> IF s = {} THEN 0 ELSE f[Pick(s)] + g[s \ {Pick(s)}]]

\* There is such a g: on the parts with at most n elements for every n.
LEMMA SumsExist ==
  ASSUME NEW f, NEW S, IsFiniteSet(S)
  PROVE  \E g : SumsOver(f, S, g)
<1> DEFINE Small(n) == { s \in SUBSET S : Cardinality(s) <= n }
           Sums(n, g) == g = [s \in Small(n) |->
                                IF s = {} THEN 0 ELSE f[Pick(s)] + g[s \ {Pick(s)}]]
           N == { n \in Nat : \E g : Sums(n, g) }
<1>1. \A s \in SUBSET S : /\ IsFiniteSet(s) /\ Cardinality(s) \in Nat
                          /\ Cardinality(s) <= Cardinality(S)
  BY FS_Subset, FS_CardinalityType
<1>2. \A s \in SUBSET S : s # {} => /\ Pick(s) \in s
                                    /\ Cardinality(s \ {Pick(s)}) = Cardinality(s) - 1
  <2> SUFFICES ASSUME NEW s \in SUBSET S, s # {}
               PROVE  Pick(s) \in s /\ Cardinality(s \ {Pick(s)}) = Cardinality(s) - 1
    OBVIOUS
  <2>1. Pick(s) \in s
    BY DEF Pick
  <2> QED
    BY <1>1, <2>1, FS_RemoveElement
<1>3. 0 \in N
  <2>1. \A s \in Small(0) : s = {}
    BY <1>1, FS_EmptySet
  <2>2. Sums(0, [s \in Small(0) |-> 0])
    BY <2>1
  <2> QED
    BY <2>2
<1>4. ASSUME NEW n \in N PROVE n + 1 \in N
  <2>1. PICK g : Sums(n, g)
    BY <1>4
  <2> DEFINE h == [s \in Small(n + 1) |-> IF s = {} THEN 0 ELSE f[Pick(s)] + g[s \ {Pick(s)}]]
  <2>2. \A s \in Small(n) : s \in Small(n + 1) /\ g[s] = h[s]
    <3>1. \A s \in Small(n) : s \in Small(n + 1)
      BY <1>1, <1>4
    <3>2. \A s \in Small(n) : g[s] = IF s = {} THEN 0 ELSE f[Pick(s)] + g[s \ {Pick(s)}]
      BY <2>1
    <3> QED
      BY <3>1, <3>2
  <2>3. \A s \in Small(n + 1) : s # {} => s \ {Pick(s)} \in Small(n)
    BY <1>1, <1>2, <1>4
  <2>4. Sums(n + 1, h)
    BY <2>2, <2>3
  <2> HIDE DEF h, Sums
  <2>5. n + 1 \in Nat
    BY <1>4
  <2> QED
    BY <2>4, <2>5
<1>5. N = Nat
  <2> HIDE DEF N
  <2>1. N \in SUBSET Nat
    BY DEF N
  <2> QED
    BY <1>3, <1>4, <2>1, InductiveSet
<1>6. Cardinality(S) \in N
  BY <1>1, <1>5
<1>7. PICK g : Sums(Cardinality(S), g)
  BY <1>6
<1>8. Small(Cardinality(S)) = SUBSET S
  BY <1>1
<1>9. SumsOver(f, S, g)
  BY <1>7, <1>8 DEF SumsOver
<1> QED
  BY <1>9

\* Two of them agree on the parts they share, if the functions do.
LEMMA SumsAgree ==
  ASSUME NEW S, IsFiniteSet(S), NEW T \in SUBSET S,
         NEW f, NEW g, SumsOver(f, S, g),
         NEW e, NEW h, SumsOver(e, T, h),
         \A x \in T : e[x] = f[x]
  PROVE  g[T] = h[T]
<1> DEFINE N == { n \in Nat : \A s \in SUBSET T : Cardinality(s) = n => g[s] = h[s] }
<1>1. \A s \in SUBSET T : s \in SUBSET S /\ IsFiniteSet(s) /\ Cardinality(s) \in Nat
  BY FS_Subset, FS_CardinalityType
<1>2. 0 \in N
  <2>1. \A s \in SUBSET T : Cardinality(s) = 0 => s = {}
    BY <1>1, FS_EmptySet
  <2>2. g[{}] = 0 /\ h[{}] = 0
    BY DEF SumsOver
  <2> QED
    BY <2>1, <2>2
<1>3. ASSUME NEW n \in N PROVE n + 1 \in N
  <2> SUFFICES ASSUME NEW s \in SUBSET T, Cardinality(s) = n + 1 PROVE g[s] = h[s]
    BY <1>3
  <2>1. s # {}
    BY <1>1, <1>3, OneFewer
  <2>2. Pick(s) \in s
    BY <2>1 DEF Pick
  <2>3. Cardinality(s \ {Pick(s)}) = n
    BY <1>1, <1>3, <2>2, OneFewer
  <2>4. g[s \ {Pick(s)}] = h[s \ {Pick(s)}]
    BY <1>3, <2>3
  <2>5. g[s] = f[Pick(s)] + g[s \ {Pick(s)}]
    BY <1>1, <2>1 DEF SumsOver
  <2>6. h[s] = e[Pick(s)] + h[s \ {Pick(s)}]
    BY <2>1 DEF SumsOver
  <2> QED
    BY <2>2, <2>4, <2>5, <2>6
<1>4. N = Nat
  <2> HIDE DEF N
  <2>1. N \in SUBSET Nat
    BY DEF N
  <2> QED
    BY <1>2, <1>3, <2>1, InductiveSet
<1> QED
  BY <1>1, <1>4

\* SumFunctionOnSet is one of them.
LEMMA SumIsSums ==
  ASSUME NEW f, NEW S, IsFiniteSet(S)
  PROVE  \E g : SumsOver(f, S, g) /\ SumFunctionOnSet(f, S) = g[S]
<1> DEFINE it == CHOOSE g : g = [s \in SUBSET S |->
                                   IF s = {} THEN 0 ELSE f[Pick(s)] + g[s \ {Pick(s)}]]
<1>1. PICK h : SumsOver(f, S, h)
  BY SumsExist
<1>2. it = [s \in SUBSET S |-> IF s = {} THEN 0 ELSE f[Pick(s)] + it[s \ {Pick(s)}]]
  BY <1>1 DEF SumsOver
<1>3. SumFunctionOnSet(f, S) = it[S]
  BY Zenon DEF SumFunctionOnSet, FoldFunctionOnSet, MapThenFoldSet, Pick
<1> QED
  BY <1>2, <1>3 DEF SumsOver

\* The sum over no elements, ...
LEMMA SumOfNone == ASSUME NEW f PROVE SumFunctionOnSet(f, {}) = 0
<1>1. IsFiniteSet({})
  BY FS_EmptySet
<1>2. PICK g : SumsOver(f, {}, g) /\ SumFunctionOnSet(f, {}) = g[{}]
  BY <1>1, SumIsSums
<1>3. g[{}] = 0
  BY <1>2 DEF SumsOver
<1> QED
  BY <1>2, <1>3

\* ... of functions that agree on the set, ...
LEMMA SumAgrees ==
  ASSUME NEW S, IsFiniteSet(S), NEW f, NEW e, \A x \in S : e[x] = f[x]
  PROVE  SumFunctionOnSet(e, S) = SumFunctionOnSet(f, S)
<1>1. PICK g : SumsOver(f, S, g) /\ SumFunctionOnSet(f, S) = g[S]
  BY SumIsSums
<1>2. PICK h : SumsOver(e, S, h) /\ SumFunctionOnSet(e, S) = h[S]
  BY SumIsSums
<1>3. S \in SUBSET S
  OBVIOUS
<1> QED
  BY <1>1, <1>2, <1>3, SumsAgree

\* ... and over one element more: the one that is picked, ...
LEMMA SumOfPicked ==
  ASSUME NEW S, IsFiniteSet(S), S # {}, NEW f
  PROVE  SumFunctionOnSet(f, S) = f[Pick(S)] + SumFunctionOnSet(f, S \ {Pick(S)})
<1> DEFINE T == S \ {Pick(S)}
<1>1. IsFiniteSet(T) /\ T \in SUBSET S
  BY FS_RemoveElement
<1>2. PICK g : SumsOver(f, S, g) /\ SumFunctionOnSet(f, S) = g[S]
  BY SumIsSums
<1>3. PICK h : SumsOver(f, T, h) /\ SumFunctionOnSet(f, T) = h[T]
  BY <1>1, SumIsSums
<1> HIDE DEF T
<1>4. g[T] = h[T]
  BY <1>1, <1>2, <1>3, SumsAgree
<1>5. g[S] = f[Pick(S)] + g[T]
  BY <1>2 DEF SumsOver, T
<1> QED
  BY <1>2, <1>3, <1>4, <1>5 DEF T

\* A sum of numbers is a number.
LEMMA SumType ==
  ASSUME NEW S, IsFiniteSet(S), NEW f, \A x \in S : f[x] \in Nat
  PROVE  SumFunctionOnSet(f, S) \in Nat
<1> DEFINE N == { n \in Nat : \A s \in SUBSET S :
                    Cardinality(s) = n => SumFunctionOnSet(f, s) \in Nat }
<1>1. \A s \in SUBSET S : IsFiniteSet(s) /\ Cardinality(s) \in Nat
  BY FS_Subset, FS_CardinalityType
<1>2. 0 \in N
  <2>1. \A s \in SUBSET S : Cardinality(s) = 0 => s = {}
    BY <1>1, FS_EmptySet
  <2> QED
    BY <2>1, SumOfNone
<1>3. ASSUME NEW n \in N PROVE n + 1 \in N
  <2> SUFFICES ASSUME NEW s \in SUBSET S, Cardinality(s) = n + 1
               PROVE  SumFunctionOnSet(f, s) \in Nat
    BY <1>3
  <2>1. s # {}
    BY <1>1, <1>3, OneFewer
  <2>2. Pick(s) \in s
    BY <2>1 DEF Pick
  <2>3. Cardinality(s \ {Pick(s)}) = n
    BY <1>1, <1>3, <2>2, OneFewer
  <2>4. SumFunctionOnSet(f, s \ {Pick(s)}) \in Nat
    BY <1>3, <2>3
  <2>5. SumFunctionOnSet(f, s) = f[Pick(s)] + SumFunctionOnSet(f, s \ {Pick(s)})
    BY <1>1, <2>1, SumOfPicked
  <2> QED
    BY <2>2, <2>4, <2>5
<1>4. N = Nat
  <2> HIDE DEF N
  <2>1. N \in SUBSET Nat
    BY DEF N
  <2> QED
    BY <1>2, <1>3, <2>1, InductiveSet
<1> QED
  BY <1>1, <1>4

\* ... or any other: the order in which the elements are picked is without effect.
LEMMA SumOfOneMore ==
  ASSUME NEW S, IsFiniteSet(S), NEW f, \A x \in S : f[x] \in Nat, NEW t \in S
  PROVE  SumFunctionOnSet(f, S) = f[t] + SumFunctionOnSet(f, S \ {t})
<1> DEFINE Sum(s) == SumFunctionOnSet(f, s)
           N == { n \in Nat : \A s \in SUBSET S : Cardinality(s) = n =>
                    \A x \in s : Sum(s) = f[x] + Sum(s \ {x}) }
<1>1. \A s \in SUBSET S : IsFiniteSet(s) /\ Cardinality(s) \in Nat /\ Sum(s) \in Nat
  BY FS_Subset, FS_CardinalityType, SumType
<1>2. 0 \in N
  <2>1. \A s \in SUBSET S : Cardinality(s) = 0 => s = {}
    BY <1>1, FS_EmptySet
  <2> QED
    BY <2>1
<1>3. ASSUME NEW n \in N PROVE n + 1 \in N
  <2> SUFFICES ASSUME NEW s \in SUBSET S, Cardinality(s) = n + 1, NEW x \in s
               PROVE  Sum(s) = f[x] + Sum(s \ {x})
    BY <1>3
  <2> DEFINE p == Pick(s)
  <2>1. p \in s /\ s # {}
    BY DEF Pick
  <2>2. Sum(s) = f[p] + Sum(s \ {p})
    BY <1>1, <2>1, SumOfPicked
  <2>3. CASE x = p
    BY <2>2, <2>3
  <2>4. CASE x # p
    <3>1. Cardinality(s \ {x}) = n /\ Cardinality(s \ {p}) = n
      BY <1>1, <1>3, <2>1, OneFewer
    <3>2. x \in s \ {p} /\ p \in s \ {x} /\ (s \ {p}) \ {x} = (s \ {x}) \ {p}
      BY <2>1, <2>4
    <3> HIDE DEF p, Sum
    <3>3. Sum(s \ {p}) = f[x] + Sum((s \ {p}) \ {x})
      BY <1>3, <3>1, <3>2
    <3>4. Sum(s \ {x}) = f[p] + Sum((s \ {x}) \ {p})
      BY <1>3, <3>1, <3>2
    <3>5. f[x] \in Nat /\ f[p] \in Nat /\ Sum((s \ {x}) \ {p}) \in Nat
      BY <1>1, <2>1
    <3>6. Sum((s \ {p}) \ {x}) = Sum((s \ {x}) \ {p})
      BY <3>2
    <3> QED
      BY <2>2, <3>3, <3>4, <3>5, <3>6
  <2> QED
    BY <2>3, <2>4
<1>4. N = Nat
  <2> HIDE DEF N
  <2>1. N \in SUBSET Nat
    BY DEF N
  <2> QED
    BY <1>2, <1>3, <2>1, InductiveSet
<1> QED
  BY <1>1, <1>4

\* The same, of a set that grows.
LEMMA SumOfAdded ==
  ASSUME NEW S, IsFiniteSet(S), NEW f, NEW t, t \notin S, \A x \in S \cup {t} : f[x] \in Nat
  PROVE  SumFunctionOnSet(f, S \cup {t}) = f[t] + SumFunctionOnSet(f, S)
<1> DEFINE T == S \cup {t}
<1>1. IsFiniteSet(T) /\ t \in T /\ T \ {t} = S /\ \A x \in T : f[x] \in Nat
  BY FS_AddElement
<1> HIDE DEF T
<1>2. SumFunctionOnSet(f, T) = f[t] + SumFunctionOnSet(f, T \ {t})
  BY <1>1, SumOfOneMore
<1> QED
  BY <1>1, <1>2 DEF T

-----------------------------------------------------------------------------
(* How sums compare.                                                         *)

\* A sum whose function changes at one element.
LEMMA SumOfChanged ==
  ASSUME NEW S, IsFiniteSet(S), NEW t \in S, NEW f, NEW e,
         \A x \in S : f[x] \in Nat /\ e[x] \in Nat,
         \A x \in S \ {t} : e[x] = f[x]
  PROVE  SumFunctionOnSet(e, S) + f[t] = SumFunctionOnSet(f, S) + e[t]
<1>1. IsFiniteSet(S \ {t})
  BY FS_RemoveElement
<1>2. SumFunctionOnSet(e, S \ {t}) = SumFunctionOnSet(f, S \ {t})
  BY <1>1, SumAgrees
<1>3. SumFunctionOnSet(f, S) = f[t] + SumFunctionOnSet(f, S \ {t})
  BY SumOfOneMore
<1>4. SumFunctionOnSet(e, S) = e[t] + SumFunctionOnSet(e, S \ {t})
  BY SumOfOneMore
<1>5. SumFunctionOnSet(f, S \ {t}) \in Nat
  BY <1>1, SumType
<1> QED
  BY <1>2, <1>3, <1>4, <1>5

\* A bound on each element's part is one on the sum.
LEMMA SumMonotone ==
  ASSUME NEW S, IsFiniteSet(S), NEW f, NEW e,
         \A x \in S : f[x] \in Nat /\ e[x] \in Nat /\ f[x] <= e[x]
  PROVE  SumFunctionOnSet(f, S) <= SumFunctionOnSet(e, S)
<1> DEFINE F == { s \in SUBSET S : SumFunctionOnSet(f, s) <= SumFunctionOnSet(e, s) }
<1>1. \A s \in SUBSET S : /\ IsFiniteSet(s)
                          /\ SumFunctionOnSet(f, s) \in Nat
                          /\ SumFunctionOnSet(e, s) \in Nat
  BY FS_Subset, SumType
<1>2. {} \in F
  BY SumOfNone
<1>3. ASSUME NEW s \in F, NEW x \in S \ s PROVE s \cup {x} \in F
  <2>1. s \cup {x} \in SUBSET S /\ s \in SUBSET S /\ x \notin s
    BY <1>3
  <2>2. SumFunctionOnSet(f, s \cup {x}) = f[x] + SumFunctionOnSet(f, s)
    BY <1>1, <2>1, SumOfAdded
  <2>3. SumFunctionOnSet(e, s \cup {x}) = e[x] + SumFunctionOnSet(e, s)
    BY <1>1, <2>1, SumOfAdded
  <2>4. SumFunctionOnSet(f, s) <= SumFunctionOnSet(e, s)
    BY <1>3
  <2>5. f[x] \in Nat /\ e[x] \in Nat /\ f[x] <= e[x]
    BY <1>3
  <2>6. SumFunctionOnSet(f, s \cup {x}) <= SumFunctionOnSet(e, s \cup {x})
    BY <1>1, <1>3, <2>2, <2>3, <2>4, <2>5
  <2> QED
    BY <2>1, <2>6
<1> HIDE DEF F
<1>4. F \in SUBSET SUBSET S
  BY DEF F
<1>5. S \in F
  BY <1>2, <1>3, <1>4, FiniteInduction
<1> QED
  BY <1>5 DEF F

\* The sum of a function that is the sum of two.
LEMMA SumOfSum ==
  ASSUME NEW S, IsFiniteSet(S), NEW f, NEW e, NEW g,
         \A x \in S : f[x] \in Nat /\ e[x] \in Nat /\ g[x] = f[x] + e[x]
  PROVE  SumFunctionOnSet(g, S) = SumFunctionOnSet(f, S) + SumFunctionOnSet(e, S)
<1> DEFINE F == { s \in SUBSET S :
                    SumFunctionOnSet(g, s) = SumFunctionOnSet(f, s) + SumFunctionOnSet(e, s) }
<1>0. \A x \in S : g[x] \in Nat
  OBVIOUS
<1>1. \A s \in SUBSET S : /\ IsFiniteSet(s)
                          /\ SumFunctionOnSet(f, s) \in Nat
                          /\ SumFunctionOnSet(e, s) \in Nat
  BY FS_Subset, SumType
<1>2. {} \in F
  BY SumOfNone
<1>3. ASSUME NEW s \in F, NEW x \in S \ s PROVE s \cup {x} \in F
  <2>1. s \cup {x} \in SUBSET S /\ s \in SUBSET S /\ x \notin s
    BY <1>3
  <2>2. SumFunctionOnSet(f, s \cup {x}) = f[x] + SumFunctionOnSet(f, s)
    BY <1>1, <2>1, SumOfAdded
  <2>3. SumFunctionOnSet(e, s \cup {x}) = e[x] + SumFunctionOnSet(e, s)
    BY <1>1, <2>1, SumOfAdded
  <2>4. SumFunctionOnSet(g, s \cup {x}) = g[x] + SumFunctionOnSet(g, s)
    BY <1>0, <1>1, <2>1, SumOfAdded
  <2>5. SumFunctionOnSet(g, s) = SumFunctionOnSet(f, s) + SumFunctionOnSet(e, s)
    BY <1>3
  <2>6. f[x] \in Nat /\ e[x] \in Nat /\ g[x] = f[x] + e[x]
    BY <1>3
  <2>7. SumFunctionOnSet(g, s \cup {x})
           = SumFunctionOnSet(f, s \cup {x}) + SumFunctionOnSet(e, s \cup {x})
    BY <1>1, <1>3, <2>2, <2>3, <2>4, <2>5, <2>6
  <2> QED
    BY <2>1, <2>7
<1> HIDE DEF F
<1>4. F \in SUBSET SUBSET S
  BY DEF F
<1>5. S \in F
  BY <1>2, <1>3, <1>4, FiniteInduction
<1> QED
  BY <1>5 DEF F

\* The sum of a function that is 0 everywhere.
LEMMA SumOfZeros ==
  ASSUME NEW S, IsFiniteSet(S), NEW f, \A x \in S : f[x] = 0
  PROVE  SumFunctionOnSet(f, S) = 0
<1> DEFINE F == { s \in SUBSET S : SumFunctionOnSet(f, s) = 0 }
<1>1. {} \in F
  BY SumOfNone
<1>2. ASSUME NEW s \in F, NEW x \in S \ s PROVE s \cup {x} \in F
  <2>1. s \cup {x} \in SUBSET S /\ s \in SUBSET S /\ x \notin s
    BY <1>2
  <2>2. SumFunctionOnSet(f, s \cup {x}) = f[x] + SumFunctionOnSet(f, s)
    <3>1. IsFiniteSet(s) /\ \A y \in s \cup {x} : f[y] \in Nat
      BY <2>1, FS_Subset
    <3> QED
      BY <2>1, <3>1, SumOfAdded
  <2>3. SumFunctionOnSet(f, s) = 0 /\ f[x] = 0
    BY <1>2
  <2> QED
    BY <2>1, <2>2, <2>3
<1> HIDE DEF F
<1>3. F \in SUBSET SUBSET S
  BY DEF F
<1>4. S \in F
  BY <1>1, <1>2, <1>3, FiniteInduction
<1> QED
  BY <1>4 DEF F

\* A bound on every term bounds the sum.
LEMMA SumBounded ==
  ASSUME NEW S, IsFiniteSet(S), NEW f, NEW m \in Nat, \A x \in S : f[x] \in Nat /\ f[x] <= m
  PROVE  SumFunctionOnSet(f, S) <= Cardinality(S) * m
<1> DEFINE F == { s \in SUBSET S : SumFunctionOnSet(f, s) <= Cardinality(s) * m }
<1>1. \A s \in SUBSET S : /\ IsFiniteSet(s) /\ Cardinality(s) \in Nat
                          /\ SumFunctionOnSet(f, s) \in Nat
  BY FS_Subset, FS_CardinalityType, SumType
<1>2. {} \in F
  <2>1. SumFunctionOnSet(f, {}) = 0 /\ Cardinality({}) = 0
    BY SumOfNone, FS_EmptySet
  <2>2. 0 <= 0 * m
    OBVIOUS
  <2> QED
    BY <2>1, <2>2
<1>3. ASSUME NEW s \in F, NEW x \in S \ s PROVE s \cup {x} \in F
  <2>1. s \cup {x} \in SUBSET S /\ s \in SUBSET S /\ x \notin s
    BY <1>3
  <2>2. SumFunctionOnSet(f, s \cup {x}) = f[x] + SumFunctionOnSet(f, s)
    BY <1>1, <2>1, SumOfAdded
  <2>3. Cardinality(s \cup {x}) = Cardinality(s) + 1
    BY <1>1, <2>1, FS_AddElement
  <2>4. SumFunctionOnSet(f, s) <= Cardinality(s) * m /\ f[x] \in Nat /\ f[x] <= m
    BY <1>3
  <2>5. /\ (Cardinality(s) + 1) * m = Cardinality(s) * m + m
        /\ Cardinality(s) * m \in Nat
    BY <1>1, <2>1
  <2>6. SumFunctionOnSet(f, s) \in Nat
    BY <1>1, <2>1
  <2>7. SumFunctionOnSet(f, s \cup {x}) <= Cardinality(s \cup {x}) * m
    BY <2>2, <2>3, <2>4, <2>5, <2>6
  <2> QED
    BY <2>1, <2>7
<1> HIDE DEF F
<1>4. F \in SUBSET SUBSET S
  BY DEF F
<1>5. S \in F
  BY <1>2, <1>3, <1>4, FiniteInduction
<1> QED
  BY <1>5 DEF F
=============================================================================
