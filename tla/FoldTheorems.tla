--------------------------- MODULE FoldTheorems ---------------------------
(***************************************************************************)
(* What the recursions of the models compute: the sums of Functions        *)
(* (SumFunction, SumFunctionOnSet), for every finite set, and Without, for *)
(* every sequence.  utils::dir_size, the usage of a quota bucket and the   *)
(* contents of a tree are such sums.  The library's induction theorems     *)
(* take an operator as a parameter, which the provers cannot instantiate;  *)
(* the inductions here are by a minimal counterexample, a subset of the    *)
(* finite set, which exists because strict inclusion is well founded, or a *)
(* least natural number.                                                   *)
(***************************************************************************)
EXTENDS Filters, Functions, FiniteSetTheorems, SequenceTheorems, WellFoundedInduction, TLAPS

\* The recursion behind SumFunctionOnSet: the element the fold takes out of
\* s, and the value at s from the values below s.
Pick(s) == CHOOSE x \in s : TRUE
Step(g, f, s) == IF s = {} THEN 0 ELSE f[Pick(s)] + g[s \ {Pick(s)}]
IsSum(g, f, S) == g = [s \in SUBSET S |-> Step(g, f, s)]

-----------------------------------------------------------------------------
LEMMA SumIsChosen ==
  ASSUME NEW f, NEW S
  PROVE  SumFunctionOnSet(f, S) = (CHOOSE g : IsSum(g, f, S))[S]
BY DEF SumFunctionOnSet, FoldFunctionOnSet, MapThenFoldSet, IsSum, Step, Pick

LEMMA PickIn == ASSUME NEW s, s # {} PROVE Pick(s) \in s
BY DEF Pick

\* A non-empty set of subsets of a finite set has a minimal member.
LEMMA MinimalSubset ==
  ASSUME NEW S, IsFiniteSet(S), NEW T \in SUBSET SUBSET S, T # {}
  PROVE  \E x \in T : \A y \in T : y \subseteq x => y = x
<1>1. T \subseteq FiniteSubsetsOf(S)
  BY FS_FiniteSubsetsOfFinite
<1>2. IsWellFoundedOn(StrictSubsetOrdering(S), FiniteSubsetsOf(S))
  BY FS_StrictSubsetOrderingWellFounded
<1>3. \E x \in T : \A y \in T : ~ (<<y, x>> \in StrictSubsetOrdering(S))
  BY <1>1, <1>2, WFMin
<1> QED BY <1>3 DEF StrictSubsetOrdering

\* The recursion has at most one solution.
LEMMA SumUnique ==
  ASSUME NEW f, NEW S, IsFiniteSet(S), NEW g, NEW h, IsSum(g, f, S), IsSum(h, f, S)
  PROVE  g = h
<1> DEFINE T == {s \in SUBSET S : g[s] # h[s]}
<1>1. /\ \A s \in SUBSET S : g[s] = Step(g, f, s) /\ h[s] = Step(h, f, s)
      /\ g = [s \in SUBSET S |-> g[s]] /\ h = [s \in SUBSET S |-> h[s]]
  BY DEF IsSum
<1>2. ASSUME T # {} PROVE FALSE
  <2>0. T \in SUBSET SUBSET S
    OBVIOUS
  <2>1. PICK s \in T : \A y \in T : y \subseteq s => y = s
    <3> HIDE DEF T
    <3> QED BY <1>2, <2>0, MinimalSubset
  <2>2. s # {}
    BY <1>1, <2>1 DEF Step
  <2>3. s \ {Pick(s)} \in SUBSET S /\ s \ {Pick(s)} \subseteq s /\ s \ {Pick(s)} # s
    BY <2>1, <2>2, PickIn
  <2>4. g[s \ {Pick(s)}] = h[s \ {Pick(s)}]
    BY <2>1, <2>3
  <2> QED BY <1>1, <2>1, <2>4 DEF Step
<1> QED BY <1>1, <1>2

\* It has one: the sums of the subsets solve it.
LEMMA SumSolves ==
  ASSUME NEW f, NEW S, IsFiniteSet(S)
  PROVE  IsSum([s \in SUBSET S |-> SumFunctionOnSet(f, s)], f, S)
<1> DEFINE H(U) == [s \in SUBSET U |-> SumFunctionOnSet(f, s)]
           T == {U \in SUBSET S : ~ IsSum(H(U), f, U)}
<1>1. SUFFICES ASSUME T # {} PROVE FALSE
  OBVIOUS
<1>0. T \in SUBSET SUBSET S
  OBVIOUS
<1>2. PICK U \in T : \A V \in T : V \subseteq U => V = U
  <2> HIDE DEF T
  <2> QED BY <1>0, <1>1, MinimalSubset
<1>3. ASSUME NEW s \in SUBSET U, s # U
      PROVE  SumFunctionOnSet(f, s) = Step(H(U), f, s)
  <2>1. IsSum(H(s), f, s)
    BY <1>2, <1>3
  <2>2. SumFunctionOnSet(f, s) = Step(H(s), f, s)
    BY <2>1 DEF IsSum
  <2> QED BY <2>2 DEF Step
<1>4. SumFunctionOnSet(f, U) = Step(H(U), f, U)
  <2> DEFINE G == [s \in SUBSET U |-> IF s = U THEN Step(H(U), f, U) ELSE SumFunctionOnSet(f, s)]
  <2>1. ASSUME NEW s \in SUBSET U PROVE G[s] = Step(G, f, s)
    <3>1. s # {} => s \ {Pick(s)} \in SUBSET U /\ s \ {Pick(s)} # U
      BY PickIn
    <3>2. s # {} => G[s \ {Pick(s)}] = H(U)[s \ {Pick(s)}]
      BY <3>1
    <3>3. Step(G, f, s) = Step(H(U), f, s)
      BY <3>2 DEF Step
    <3> QED BY <1>3, <3>3
  <2>2. IsSum(G, f, U)
    BY <2>1 DEF IsSum
  <2>3. IsSum(CHOOSE g : IsSum(g, f, U), f, U)
    BY <2>2
  <2>4. (CHOOSE g : IsSum(g, f, U)) = G
    <3>1. IsFiniteSet(U)
      BY <1>2, FS_Subset
    <3> QED BY <2>2, <2>3, <3>1, SumUnique
  <2> QED BY <2>4, SumIsChosen
<1>5. IsSum(H(U), f, U)
  BY <1>3, <1>4 DEF IsSum
<1> QED BY <1>2, <1>5

\* The sum of a finite set, from the sum without the element the fold takes.
LEMMA SumStep ==
  ASSUME NEW f, NEW S, IsFiniteSet(S)
  PROVE  /\ SumFunctionOnSet(f, {}) = 0
         /\ S # {} => SumFunctionOnSet(f, S) = f[Pick(S)] + SumFunctionOnSet(f, S \ {Pick(S)})
<1> DEFINE H == [s \in SUBSET S |-> SumFunctionOnSet(f, s)]
<1>1. \A s \in SUBSET S : H[s] = Step(H, f, s)
  <2>1. IsSum(H, f, S)
    BY SumSolves
  <2> HIDE DEF H
  <2> QED BY <2>1 DEF IsSum
<1>2. SumFunctionOnSet(f, {}) = 0
  BY <1>1 DEF Step
<1>3. S # {} => SumFunctionOnSet(f, S) = f[Pick(S)] + SumFunctionOnSet(f, S \ {Pick(S)})
  BY <1>1 DEF Step
<1> QED BY <1>2, <1>3

\* A sum of integers is an integer, a sum of naturals a natural number, and
\* it only depends on the values summed.
LEMMA SumType ==
  ASSUME NEW f, NEW S, IsFiniteSet(S), NEW D \in {Nat, Int}, \A x \in S : f[x] \in D
  PROVE  SumFunctionOnSet(f, S) \in D
<1> DEFINE T == {U \in SUBSET S : SumFunctionOnSet(f, U) \notin D}
<1>1. SUFFICES ASSUME T # {} PROVE FALSE
  OBVIOUS
<1>2. T \in SUBSET SUBSET S
  OBVIOUS
<1>3. PICK U \in T : \A V \in T : V \subseteq U => V = U
  <2> HIDE DEF T
  <2> QED BY <1>1, <1>2, MinimalSubset
<1>4. IsFiniteSet(U)
  BY <1>3, FS_Subset
<1>5. U # {}
  <2>1. 0 \in D
    OBVIOUS
  <2>2. SumFunctionOnSet(f, {}) = 0
    BY <1>4, SumStep
  <2> QED BY <1>3, <2>1, <2>2
<1>6. Pick(U) \in U /\ U \ {Pick(U)} \in SUBSET S /\ U \ {Pick(U)} # U
  BY <1>3, <1>5, PickIn
<1>7. SumFunctionOnSet(f, U \ {Pick(U)}) \in D
  BY <1>3, <1>6
<1>8. f[Pick(U)] \in D
  BY <1>3, <1>6
<1>9. SumFunctionOnSet(f, U) = f[Pick(U)] + SumFunctionOnSet(f, U \ {Pick(U)})
  BY <1>4, <1>5, SumStep
<1> QED BY <1>3, <1>7, <1>8, <1>9

LEMMA SumSame ==
  ASSUME NEW f, NEW g, NEW S, IsFiniteSet(S), \A x \in S : f[x] = g[x]
  PROVE  SumFunctionOnSet(f, S) = SumFunctionOnSet(g, S)
<1> DEFINE T == {U \in SUBSET S : SumFunctionOnSet(f, U) # SumFunctionOnSet(g, U)}
<1>1. SUFFICES ASSUME T # {} PROVE FALSE
  OBVIOUS
<1>2. T \in SUBSET SUBSET S
  OBVIOUS
<1>3. PICK U \in T : \A V \in T : V \subseteq U => V = U
  <2> HIDE DEF T
  <2> QED BY <1>1, <1>2, MinimalSubset
<1>4. IsFiniteSet(U)
  BY <1>3, FS_Subset
<1>5. U # {}
  BY <1>3, <1>4, SumStep
<1>6. Pick(U) \in U /\ U \ {Pick(U)} \in SUBSET S /\ U \ {Pick(U)} # U
  BY <1>3, <1>5, PickIn
<1>7. SumFunctionOnSet(f, U \ {Pick(U)}) = SumFunctionOnSet(g, U \ {Pick(U)})
  BY <1>3, <1>6
<1> QED BY <1>3, <1>4, <1>5, <1>6, <1>7, SumStep

\* Any element can be taken out of a sum: the order of the fold is
\* immaterial.
LEMMA SumTake ==
  ASSUME NEW f, NEW S, IsFiniteSet(S), \A x \in S : f[x] \in Int, NEW e \in S
  PROVE  SumFunctionOnSet(f, S) = f[e] + SumFunctionOnSet(f, S \ {e})
<1> DEFINE Bad(U) == \E x \in U : SumFunctionOnSet(f, U) # f[x] + SumFunctionOnSet(f, U \ {x})
           T == {U \in SUBSET S : Bad(U)}
<1>1. SUFFICES ASSUME T # {} PROVE FALSE
  OBVIOUS
<1>2. T \in SUBSET SUBSET S
  OBVIOUS
<1>3. PICK U \in T : \A V \in T : V \subseteq U => V = U
  <2> HIDE DEF T
  <2> QED BY <1>1, <1>2, MinimalSubset
<1>4. PICK x \in U : SumFunctionOnSet(f, U) # f[x] + SumFunctionOnSet(f, U \ {x})
  BY <1>3
<1>5. IsFiniteSet(U) /\ U \in SUBSET S
  BY <1>3, FS_Subset
<1> DEFINE c == Pick(U)
<1>6. c \in U /\ SumFunctionOnSet(f, U) = f[c] + SumFunctionOnSet(f, U \ {c})
  BY <1>4, <1>5, SumStep, PickIn
<1> HIDE DEF c
<1>7. x # c
  BY <1>4, <1>6
<1>8. SumFunctionOnSet(f, U \ {c}) = f[x] + SumFunctionOnSet(f, (U \ {c}) \ {x})
  <2>1. U \ {c} \in SUBSET S /\ U \ {c} # U /\ U \ {c} \subseteq U
    BY <1>5, <1>6
  <2>2. ~ Bad(U \ {c})
    BY <1>3, <2>1
  <2> QED BY <1>4, <1>7, <2>2
<1>9. SumFunctionOnSet(f, U \ {x}) = f[c] + SumFunctionOnSet(f, (U \ {x}) \ {c})
  <2>1. U \ {x} \in SUBSET S /\ U \ {x} # U /\ U \ {x} \subseteq U
    BY <1>4, <1>5
  <2>2. ~ Bad(U \ {x})
    BY <1>3, <2>1
  <2> QED BY <1>6, <1>7, <2>2
<1>10. (U \ {x}) \ {c} = (U \ {c}) \ {x}
  OBVIOUS
<1>11. SumFunctionOnSet(f, (U \ {c}) \ {x}) \in Int /\ f[x] \in Int /\ f[c] \in Int
  <2>1. IsFiniteSet((U \ {c}) \ {x})
    BY <1>5, FS_Subset
  <2>2. \A y \in (U \ {c}) \ {x} : f[y] \in Int
    BY <1>5
  <2> QED BY <1>4, <1>5, <1>6, <2>1, <2>2, SumType
<1>12. SumFunctionOnSet(f, U) = f[c] + (f[x] + SumFunctionOnSet(f, (U \ {c}) \ {x}))
  BY <1>6, <1>8
<1>13. f[x] + SumFunctionOnSet(f, U \ {x}) = f[x] + (f[c] + SumFunctionOnSet(f, (U \ {c}) \ {x}))
  BY <1>9, <1>10
<1>14. ASSUME NEW a \in Int, NEW b \in Int, NEW d \in Int PROVE a + (b + d) = b + (a + d)
  OBVIOUS
<1> QED BY <1>4, <1>11, <1>12, <1>13, <1>14

-----------------------------------------------------------------------------
\* The size of a tree is a number.
THEOREM SumFunctionType ==
  ASSUME NEW S, IsFiniteSet(S), NEW D \in {Nat, Int}, NEW f \in [S -> D]
  PROVE  SumFunction(f) \in D
BY SumType DEF SumFunction

\* Changing one entry changes the sum by the difference.
THEOREM SumFunctionUpdate ==
  ASSUME NEW S, IsFiniteSet(S), NEW f \in [S -> Int], NEW e \in S, NEW v \in Int
  PROVE  SumFunction([f EXCEPT ![e] = v]) = SumFunction(f) - f[e] + v
<1> DEFINE g == [f EXCEPT ![e] = v]
<1>1. g \in [S -> Int] /\ DOMAIN g = S /\ DOMAIN f = S /\ g[e] = v
      /\ \A x \in S \ {e} : g[x] = f[x]
  OBVIOUS
<1> HIDE DEF g
<1>2. IsFiniteSet(S \ {e})
  BY FS_Subset
<1>3. SumFunctionOnSet(f, S \ {e}) = SumFunctionOnSet(g, S \ {e})
  BY <1>1, <1>2, SumSame
<1>4. SumFunctionOnSet(f, S) = f[e] + SumFunctionOnSet(f, S \ {e})
  BY SumTake
<1>5. SumFunctionOnSet(g, S) = g[e] + SumFunctionOnSet(g, S \ {e})
  BY <1>1, SumTake
<1>6. SumFunctionOnSet(f, S \ {e}) \in Int
  BY <1>2, SumType
<1>7. SumFunction(g) = SumFunction(f) - f[e] + v
  BY <1>1, <1>3, <1>4, <1>5, <1>6 DEF SumFunction
<1> QED BY <1>7 DEF g

\* A sum of bounded entries is bounded.
THEOREM SumFunctionBound ==
  ASSUME NEW S, IsFiniteSet(S), NEW f \in [S -> Nat], NEW b \in Nat, \A x \in S : f[x] <= b
  PROVE  SumFunction(f) <= Cardinality(S) * b
<1> DEFINE T == {U \in SUBSET S : ~ (SumFunctionOnSet(f, U) <= Cardinality(U) * b)}
<1>1. ASSUME T # {} PROVE FALSE
  <2>1. T \in SUBSET SUBSET S
    OBVIOUS
  <2>2. PICK U \in T : \A V \in T : V \subseteq U => V = U
    <3> HIDE DEF T
    <3> QED BY <1>1, <2>1, MinimalSubset
  <2>3. IsFiniteSet(U) /\ U \in SUBSET S
    BY <2>2, FS_Subset
  <2>4. U # {}
    <3>1. SumFunctionOnSet(f, {}) = 0 /\ Cardinality({}) = 0
      BY <2>3, SumStep, FS_EmptySet
    <3>2. 0 <= 0 * b
      OBVIOUS
    <3> QED BY <2>2, <3>1, <3>2
  <2> DEFINE c == Pick(U)
             V == U \ {c}
  <2>5. c \in U /\ V \in SUBSET S /\ V # U /\ V \subseteq U
    BY <2>2, <2>4, PickIn
  <2>6. IsFiniteSet(V) /\ Cardinality(U) = Cardinality(V) + 1 /\ Cardinality(V) \in Nat
    <3>1. IsFiniteSet(V) /\ Cardinality(V) = Cardinality(U) - 1
      BY <2>3, <2>5, FS_RemoveElement
    <3>2. Cardinality(U) \in Nat /\ Cardinality(V) \in Nat
      BY <2>3, <3>1, FS_CardinalityType
    <3> HIDE DEF V
    <3> QED BY <3>1, <3>2
  <2>7. SumFunctionOnSet(f, U) = f[c] + SumFunctionOnSet(f, V)
    BY <2>3, <2>4, SumStep
  <2>8. SumFunctionOnSet(f, V) <= Cardinality(V) * b
    BY <2>2, <2>5
  <2>9. SumFunctionOnSet(f, V) \in Nat /\ f[c] \in Nat /\ f[c] <= b
    BY <2>3, <2>5, <2>6, SumType
  <2> HIDE DEF c, V
  <2>10. ASSUME NEW k \in Nat, NEW m \in Nat, NEW n \in Nat, m <= k * b, n <= b
         PROVE  n + m <= (k + 1) * b
    BY <2>10
  <2>11. SumFunctionOnSet(f, U) <= Cardinality(U) * b
    BY <2>6, <2>7, <2>8, <2>9, <2>10
  <2> QED BY <2>2, <2>11
<1> QED BY <1>1 DEF SumFunction

-----------------------------------------------------------------------------
(* Induction over the natural numbers and over sequences, with sets. *)

\* A non-empty set of natural numbers has a least member.
LEMMA LeastNatural ==
  ASSUME NEW T \in SUBSET Nat, T # {}
  PROVE  \E x \in T : \A y \in T : x <= y
<1>1. \E x \in T : \A y \in T : ~ (<<y, x>> \in OpToRel(<, Nat))
  BY NatLessThanWellFounded, WFMin
<1>2. PICK x \in T : \A y \in T : ~ (<<y, x>> \in OpToRel(<, Nat))
  BY <1>1
<1>3. \A y \in T : y \in Nat /\ x \in Nat /\ ~ (y < x)
  BY <1>2 DEF OpToRel
<1> QED BY <1>3

LEMMA NatInduct ==
  ASSUME NEW S, 0 \in S, \A n \in Nat : n \in S => n + 1 \in S
  PROVE  Nat \subseteq S
<1> DEFINE T == Nat \ S
<1> SUFFICES ASSUME T # {} PROVE FALSE
  OBVIOUS
<1>1. T \in SUBSET Nat
  OBVIOUS
<1>2. PICK m \in T : \A k \in T : m <= k
  <2> HIDE DEF T
  <2> QED BY <1>1, LeastNatural
<1>3. m # 0
  OBVIOUS
<1>4. m - 1 \in Nat /\ m - 1 \notin T /\ (m - 1) + 1 = m
  BY <1>2, <1>3
<1> QED BY <1>4

LEMMA SeqInduct ==
  ASSUME NEW E, NEW P \in SUBSET Seq(E), <<>> \in P,
         \A s \in P : \A e \in E : Append(s, e) \in P
  PROVE  P = Seq(E)
<1> DEFINE S == {n \in Nat : \A s \in Seq(E) : Len(s) = n => s \in P}
<1>1. 0 \in S
  <2>1. \A s \in Seq(E) : Len(s) = 0 => s = <<>>
    BY EmptySeq
  <2> QED BY <2>1
<1>2. ASSUME NEW n \in Nat, n \in S PROVE n + 1 \in S
  <2> SUFFICES ASSUME NEW s \in Seq(E), Len(s) = n + 1 PROVE s \in P
    OBVIOUS
  <2>1. s # <<>>
    BY EmptySeq
  <2>2. PICK t \in Seq(E), e \in E : s = Append(t, e)
    BY <2>1, SequenceEmptyOrAppend
  <2>3. Len(s) = Len(t) + 1 /\ Len(t) \in Nat
    BY <2>2, AppendProperties, LenProperties
  <2>4. Len(t) = n
    BY <2>3
  <2>5. t \in P
    BY <1>2, <2>4
  <2> QED BY <2>2, <2>5
<1>3. Nat \subseteq S
  <2> HIDE DEF S
  <2> QED BY <1>1, <1>2, NatInduct
<1>4. \A s \in Seq(E) : Len(s) \in Nat
  BY LenProperties
<1> QED BY <1>3, <1>4

-----------------------------------------------------------------------------
(* Without *)

\* The recursion behind Without: the value at n from the value before it.
KeptStep(g, s, D, n) ==
  IF n = 0 THEN <<>> ELSE IF s[n] \in D THEN g[n - 1] ELSE Append(g[n - 1], s[n])
IsKept(g, s, D) == g = [n \in 0 .. Len(s) |-> KeptStep(g, s, D, n)]

LEMMA WithoutIsChosen ==
  ASSUME NEW s, NEW D
  PROVE  Without(s, D) = (CHOOSE g : IsKept(g, s, D))[Len(s)]
BY DEF Without, IsKept, KeptStep

LEMMA KeptIs ==
  ASSUME NEW s, NEW D, NEW g, IsKept(g, s, D), NEW n \in 0 .. Len(s)
  PROVE  g[n] = KeptStep(g, s, D, n)
BY DEF IsKept

LEMMA KeptZero ==
  ASSUME NEW E, NEW s \in Seq(E), NEW D, NEW g, IsKept(g, s, D)
  PROVE  g[0] = <<>>
<1>1. 0 \in 0 .. Len(s)
  BY LenProperties
<1>2. g[0] = KeptStep(g, s, D, 0)
  BY <1>1, KeptIs
<1> QED BY <1>2 DEF KeptStep

\* Two solutions agree as long as their sequences do.
LEMMA KeptAgree ==
  ASSUME NEW E, NEW s \in Seq(E), NEW t \in Seq(E), NEW D, NEW g, NEW h,
         IsKept(g, s, D), IsKept(h, t, D), NEW n \in Nat, n <= Len(s), n <= Len(t),
         \A m \in 1 .. n : s[m] = t[m]
  PROVE  g[n] = h[n]
<1> DEFINE S == {m \in Nat : m <= n => g[m] = h[m]}
<1>0. Len(s) \in Nat /\ Len(t) \in Nat
  BY LenProperties
<1>1. 0 \in S
  <2>1. g[0] = <<>> /\ h[0] = <<>>
    BY KeptZero
  <2> QED BY <2>1
<1>2. ASSUME NEW m \in Nat, m \in S PROVE m + 1 \in S
  <2> SUFFICES ASSUME m + 1 <= n PROVE g[m + 1] = h[m + 1]
    OBVIOUS
  <2>1. g[m] = h[m] /\ m + 1 \in 0 .. Len(s) /\ m + 1 \in 0 .. Len(t) /\ s[m + 1] = t[m + 1]
    BY <1>0, <1>2
  <2>2. g[m + 1] = KeptStep(g, s, D, m + 1) /\ h[m + 1] = KeptStep(h, t, D, m + 1)
    BY <2>1, KeptIs
  <2>3. (m + 1) - 1 = m /\ m + 1 # 0
    OBVIOUS
  <2> QED BY <2>1, <2>2, <2>3 DEF KeptStep
<1>3. Nat \subseteq S
  <2> HIDE DEF S
  <2> QED BY <1>1, <1>2, NatInduct
<1> QED BY <1>3

\* There is a solution for every sequence.
LEMMA KeptExists ==
  ASSUME NEW E, NEW s \in Seq(E), NEW D
  PROVE  \E g : IsKept(g, s, D)
<1> DEFINE P == {t \in Seq(E) : \E g : IsKept(g, t, D)}
<1>1. <<>> \in P
  <2> DEFINE g == [n \in 0 .. 0 |-> <<>>]
  <2>1. Len(<<>>) = 0 /\ <<>> \in Seq(E)
    BY EmptySeq
  <2>2. IsKept(g, <<>>, D)
    BY <2>1 DEF IsKept, KeptStep
  <2> QED BY <2>1, <2>2
<1>2. ASSUME NEW t \in P, NEW e \in E PROVE Append(t, e) \in P
  <2>1. PICK h : IsKept(h, t, D)
    OBVIOUS
  <2> DEFINE u == Append(t, e)
             g == [n \in 0 .. Len(t) + 1 |->
                     IF n <= Len(t) THEN h[n]
                     ELSE IF e \in D THEN h[Len(t)] ELSE Append(h[Len(t)], e)]
  <2>2. /\ t \in Seq(E) /\ u \in Seq(E) /\ Len(u) = Len(t) + 1 /\ Len(t) \in Nat
        /\ (\A n \in 1 .. Len(t) : u[n] = t[n]) /\ u[Len(t) + 1] = e
    BY AppendProperties, LenProperties
  <2> HIDE DEF u
  <2>3. ASSUME NEW n \in 0 .. Len(t) + 1 PROVE g[n] = KeptStep(g, u, D, n)
    <3>1. CASE n = 0
      <4>1. h[0] = <<>>
        BY <2>1, <2>2, KeptZero
      <4>2. g[0] = h[0]
        BY <2>2
      <4> QED BY <3>1, <4>1, <4>2 DEF KeptStep
    <3>2. CASE n \in 1 .. Len(t)
      <4>1. g[n] = h[n] /\ g[n - 1] = h[n - 1] /\ u[n] = t[n]
        BY <2>2, <3>2
      <4>2. h[n] = KeptStep(h, t, D, n)
        BY <2>1, <2>2, <3>2, KeptIs
      <4> QED BY <3>2, <4>1, <4>2 DEF KeptStep
    <3>3. CASE n = Len(t) + 1
      <4>1. /\ g[n] = IF e \in D THEN h[Len(t)] ELSE Append(h[Len(t)], e)
            /\ g[n - 1] = h[Len(t)] /\ u[n] = e /\ n # 0
        BY <2>2, <3>3
      <4> QED BY <4>1 DEF KeptStep
    <3> QED BY <2>2, <3>1, <3>2, <3>3
  <2>4. IsKept(g, u, D)
    <3>1. g = [n \in 0 .. Len(t) + 1 |-> g[n]]
      OBVIOUS
    <3> HIDE DEF g
    <3> QED BY <2>2, <2>3, <3>1 DEF IsKept
  <2> QED BY <2>2, <2>4 DEF u
<1>3. P = Seq(E)
  <2> HIDE DEF P
  <2>1. P \in SUBSET Seq(E)
    BY DEF P
  <2> QED BY <1>1, <1>2, <2>1, SeqInduct
<1> QED BY <1>3

LEMMA WithoutIs ==
  ASSUME NEW E, NEW s \in Seq(E), NEW D
  PROVE  \E g : IsKept(g, s, D) /\ Without(s, D) = g[Len(s)]
<1> DEFINE g == CHOOSE g : IsKept(g, s, D)
<1>1. IsKept(g, s, D)
  BY KeptExists
<1> QED BY <1>1, WithoutIsChosen

\* What Without computes, from the end of the sequence on.
LEMMA WithoutEmpty ==
  ASSUME NEW D
  PROVE  Without(<<>>, D) = <<>>
<1> DEFINE E == {}
<1>1. Len(<<>>) = 0 /\ <<>> \in Seq(E)
  BY EmptySeq
<1> HIDE DEF E
<1>2. PICK g : IsKept(g, <<>>, D) /\ Without(<<>>, D) = g[Len(<<>>)]
  BY <1>1, WithoutIs
<1> QED BY <1>1, <1>2, KeptZero

LEMMA WithoutAppend ==
  ASSUME NEW E, NEW s \in Seq(E), NEW e \in E, NEW D
  PROVE  Without(Append(s, e), D) = IF e \in D THEN Without(s, D) ELSE Append(Without(s, D), e)
<1> DEFINE u == Append(s, e)
<1>1. /\ u \in Seq(E) /\ Len(u) = Len(s) + 1 /\ Len(s) \in Nat
      /\ (\A n \in 1 .. Len(s) : u[n] = s[n]) /\ u[Len(s) + 1] = e
  BY AppendProperties, LenProperties
<1> HIDE DEF u
<1>2. PICK g : IsKept(g, s, D) /\ Without(s, D) = g[Len(s)]
  BY WithoutIs
<1>3. PICK h : IsKept(h, u, D) /\ Without(u, D) = h[Len(u)]
  BY <1>1, WithoutIs
<1>4. h[Len(s)] = g[Len(s)]
  <2> DEFINE n == Len(s)
  <2>1. n \in Nat /\ n <= Len(s) /\ n <= Len(u) /\ \A m \in 1 .. n : u[m] = s[m]
    BY <1>1
  <2>2. IsKept(g, s, D) /\ IsKept(h, u, D) /\ u \in Seq(E)
    BY <1>1, <1>2, <1>3
  <2> HIDE DEF n
  <2>3. h[n] = g[n]
    BY <2>1, <2>2, KeptAgree
  <2> QED BY <2>3 DEF n
<1>5. h[Len(u)] = KeptStep(h, u, D, Len(u))
  <2>1. Len(u) \in 0 .. Len(u)
    BY <1>1
  <2> QED BY <1>3, <2>1, KeptIs
<1>6. Len(u) # 0 /\ Len(u) - 1 = Len(s)
  BY <1>1
<1> QED BY <1>1, <1>2, <1>3, <1>4, <1>5, <1>6 DEF KeptStep, u

LEMMA WithoutType ==
  ASSUME NEW E, NEW s \in Seq(E), NEW D
  PROVE  Without(s, D) \in Seq(E \ D)
<1> DEFINE P == {t \in Seq(E) : Without(t, D) \in Seq(E \ D)}
<1>1. <<>> \in P
  BY WithoutEmpty, EmptySeq
<1>2. ASSUME NEW t \in P, NEW e \in E PROVE Append(t, e) \in P
  <2>1. t \in Seq(E) /\ Without(t, D) \in Seq(E \ D) /\ Append(t, e) \in Seq(E)
    BY AppendProperties
  <2>2. Without(Append(t, e), D) = IF e \in D THEN Without(t, D) ELSE Append(Without(t, D), e)
    BY <2>1, WithoutAppend
  <2>3. e \notin D => Append(Without(t, D), e) \in Seq(E \ D)
    BY <2>1, AppendProperties
  <2> QED BY <2>1, <2>2, <2>3
<1>3. P = Seq(E)
  <2> HIDE DEF P
  <2>1. P \in SUBSET Seq(E)
    BY DEF P
  <2> QED BY <1>1, <1>2, <2>1, SeqInduct
<1> QED BY <1>3

LEMMA AppendConcat ==
  ASSUME NEW E, NEW s \in Seq(E), NEW t \in Seq(E), NEW e \in E
  PROVE  s \o Append(t, e) = Append(s \o t, e)
<1>1. <<e>> \in Seq(E) /\ Append(t, e) = t \o <<e>> /\ s \o t \in Seq(E)
  BY AppendIsConcat, ConcatProperties
<1>2. Append(s \o t, e) = (s \o t) \o <<e>>
  BY <1>1, AppendIsConcat
<1> QED BY <1>1, <1>2, ConcatAssociative

\* Without goes through a concatenation.
THEOREM WithoutConcat ==
  ASSUME NEW E, NEW s \in Seq(E), NEW t \in Seq(E), NEW D
  PROVE  Without(s \o t, D) = Without(s, D) \o Without(t, D)
<1> DEFINE P == {u \in Seq(E) : Without(s \o u, D) = Without(s, D) \o Without(u, D)}
           F == E \ D
<1>0. Without(s, D) \in Seq(F)
  BY WithoutType
<1>1. <<>> \in P
  <2>1. s \o <<>> = s /\ <<>> \in Seq(E) /\ Without(s, D) \o <<>> = Without(s, D)
    BY <1>0, ConcatEmptySeq, EmptySeq
  <2> QED BY <2>1, WithoutEmpty
<1>2. ASSUME NEW u \in P, NEW e \in E PROVE Append(u, e) \in P
  <2>1. u \in Seq(E) /\ Append(u, e) \in Seq(E) /\ s \o u \in Seq(E)
    BY AppendProperties, ConcatProperties
  <2>2. s \o Append(u, e) = Append(s \o u, e)
    BY <2>1, AppendConcat
  <2>3. Without(s \o u, D) = Without(s, D) \o Without(u, D)
    OBVIOUS
  <2>4. Without(u, D) \in Seq(F)
    BY <2>1, WithoutType
  <2>5. e \notin D => Without(s, D) \o Append(Without(u, D), e) = Append(Without(s, D) \o Without(u, D), e)
    <3> SUFFICES ASSUME e \in F
                 PROVE  Without(s, D) \o Append(Without(u, D), e) = Append(Without(s, D) \o Without(u, D), e)
      OBVIOUS
    <3> HIDE DEF F
    <3> QED BY <1>0, <2>4, AppendConcat
  <2>6. /\ Without(Append(s \o u, e), D) =
             IF e \in D THEN Without(s \o u, D) ELSE Append(Without(s \o u, D), e)
        /\ Without(Append(u, e), D) = IF e \in D THEN Without(u, D) ELSE Append(Without(u, D), e)
    <3> DEFINE v == s \o u
    <3>1. v \in Seq(E)
      BY <2>1
    <3>2. Without(Append(v, e), D) = IF e \in D THEN Without(v, D) ELSE Append(Without(v, D), e)
      <4> HIDE DEF v
      <4> QED BY <3>1, WithoutAppend
    <3>3. Without(Append(u, e), D) = IF e \in D THEN Without(u, D) ELSE Append(Without(u, D), e)
      BY <2>1, WithoutAppend
    <3> QED BY <3>2, <3>3
  <2>7. Without(s \o Append(u, e), D) = Without(s, D) \o Without(Append(u, e), D)
    <3>1. CASE e \in D
      BY <2>2, <2>3, <2>6, <3>1
    <3>2. CASE e \notin D
      BY <2>2, <2>3, <2>5, <2>6, <3>2
    <3> QED BY <3>1, <3>2
  <2> QED BY <2>1, <2>7
<1>3. P = Seq(E)
  <2> HIDE DEF P
  <2>1. P \in SUBSET Seq(E)
    BY DEF P
  <2> QED BY <1>1, <1>2, <2>1, SeqInduct
<1> QED BY <1>3

\* One element; and sequences that lose nothing, or everything.
LEMMA WithoutOne ==
  ASSUME NEW E, NEW e \in E, NEW D
  PROVE  Without(<<e>>, D) = IF e \in D THEN <<>> ELSE <<e>>
<1>1. <<>> \in Seq(E) /\ <<e>> = Append(<<>>, e)
  BY EmptySeq
<1>2. Without(<<e>>, D) = IF e \in D THEN Without(<<>>, D) ELSE Append(Without(<<>>, D), e)
  <2> DEFINE z == <<>>
  <2>1. z \in Seq(E)
    BY EmptySeq
  <2>2. Without(Append(z, e), D) = IF e \in D THEN Without(z, D) ELSE Append(Without(z, D), e)
    <3> HIDE DEF z
    <3> QED BY <2>1, WithoutAppend
  <2> QED BY <1>1, <2>2
<1> QED BY <1>1, <1>2, WithoutEmpty

LEMMA WithoutNone ==
  ASSUME NEW E, NEW D, E \cap D = {}, NEW s \in Seq(E)
  PROVE  Without(s, D) = s
<1> DEFINE P == {t \in Seq(E) : Without(t, D) = t}
<1>1. <<>> \in P
  BY WithoutEmpty, EmptySeq
<1>2. ASSUME NEW t \in P, NEW e \in E PROVE Append(t, e) \in P
  BY WithoutAppend, AppendProperties
<1>3. P = Seq(E)
  <2> HIDE DEF P
  <2>1. P \in SUBSET Seq(E)
    BY DEF P
  <2> QED BY <1>1, <1>2, <2>1, SeqInduct
<1> QED BY <1>3

LEMMA WithoutAll ==
  ASSUME NEW E, NEW D, E \subseteq D, NEW s \in Seq(E)
  PROVE  Without(s, D) = <<>>
<1> DEFINE P == {t \in Seq(E) : Without(t, D) = <<>>}
<1>1. <<>> \in P
  BY WithoutEmpty, EmptySeq
<1>2. ASSUME NEW t \in P, NEW e \in E PROVE Append(t, e) \in P
  BY WithoutAppend, AppendProperties
<1>3. P = Seq(E)
  <2> HIDE DEF P
  <2>1. P \in SUBSET Seq(E)
    BY DEF P
  <2> QED BY <1>1, <1>2, <2>1, SeqInduct
<1> QED BY <1>3
=============================================================================
