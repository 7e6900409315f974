----------------------------- MODULE SumTheorems ----------------------------
(***************************************************************************)
(* Facts about sums over finite sets, which the models write with the      *)
(* community operator SumFunctionOnSet: what they prove of byte totals     *)
(* rests on them. The operator is a fold; a fold is unfolded here to the   *)
(* table it is computed with, and every lemma is proved by a smallest      *)
(* counterexample. At the end, that a set of numbers has a least one.      *)
(***************************************************************************)
EXTENDS Integers, Functions, FiniteSetTheorems, WellFoundedInduction, TLAPS

\* The element the definition of a fold takes out of a set.
Pick(s) == CHOOSE x \in s : TRUE

\* g is the table of the sums of f over the sets in D.
IsTable(f, g, D) == g = [s \in D |-> IF s = {} THEN 0 ELSE f[Pick(s)] + g[s \ {Pick(s)}]]

\* The table the community operator computes a sum with.
Table(f, S) == CHOOSE g : IsTable(f, g, SUBSET S)

\* The community operator for sums, unfolded to the table it is computed with.
LEMMA SumIsTable == \A f, S : SumFunctionOnSet(f, S) = Table(f, S)[S]
  BY Zenon DEF SumFunctionOnSet, FoldFunctionOnSet, MapThenFoldSet, Table, IsTable, Pick

\* A family of subsets of a finite set has a member that is minimal: how every
\* lemma below is proved, by a smallest counterexample.
LEMMA SmallestOf ==
  ASSUME NEW S, IsFiniteSet(S), NEW B, B \subseteq SUBSET S, B # {}
  PROVE \E T \in B : \A U \in B : U \subseteq T => U = T
<1>1. IsWellFoundedOn(StrictSubsetOrdering(S), SUBSET S)
  BY FS_StrictSubsetOrderingWellFounded, FS_FiniteSubsetsOfFinite
<1>2. PICK T \in B : \A U \in B : ~ (<<U, T>> \in StrictSubsetOrdering(S))
  BY <1>1, WFMin
<1> QED
  BY <1>2 DEF StrictSubsetOrdering

\* The same for a maximal member.
LEMMA LargestOf ==
  ASSUME NEW S, IsFiniteSet(S), NEW B, B \subseteq SUBSET S, B # {}
  PROVE \E T \in B : \A U \in B : T \subseteq U => U = T
<1> DEFINE C == {S \ T : T \in B}
<1>1. C \subseteq SUBSET S /\ C # {}
  <2>1. C \subseteq SUBSET S
    OBVIOUS
  <2>2. PICK T \in B : TRUE
    OBVIOUS
  <2>3. S \ T \in C
    OBVIOUS
  <2> QED BY <2>1, <2>3
<1>2. PICK W \in C : \A V \in C : V \subseteq W => V = W
  <2> HIDE DEF C
  <2> QED BY <1>1, SmallestOf
<1>3. PICK T \in B : W = S \ T
  OBVIOUS
<1>4. ASSUME NEW U \in B, T \subseteq U PROVE U = T
  <2>1. S \ U \in C /\ S \ U \subseteq W
    BY <1>3, <1>4
  <2>2. S \ U = S \ T
    BY <2>1, <1>2, <1>3
  <2>3. U \subseteq S /\ T \subseteq S
    OBVIOUS
  <2> QED BY <2>2, <2>3
<1> QED BY <1>4

\* The recursion that defines a sum has a solution on the subsets of any finite
\* set: otherwise a largest family closed under subsets with a solution could be
\* extended by a minimal set it lacks.
LEMMA TableExists ==
  ASSUME NEW f, NEW S, IsFiniteSet(S)
  PROVE IsTable(f, Table(f, S), SUBSET S)
<1> DEFINE Down(D) == \A s \in D : \A t \in SUBSET s : t \in D
           B == {D \in SUBSET SUBSET S : Down(D) /\ \E g : IsTable(f, g, D)}
<1>1. IsFiniteSet(SUBSET S)
  BY FS_SUBSET
<1>2. {} \in B
  <2>1. IsTable(f, [s \in {} |-> 0], {})
    BY DEF IsTable
  <2> QED BY <2>1
<1>3. PICK D \in B : \A U \in B : D \subseteq U => U = D
  <2>1. B \subseteq SUBSET SUBSET S /\ B # {}
    BY <1>2
  <2> HIDE DEF B
  <2> QED BY <1>1, <2>1, LargestOf
<1>4. PICK g : IsTable(f, g, D)
  OBVIOUS
<1>5. ASSUME D # SUBSET S PROVE FALSE
  <2> DEFINE R == (SUBSET S) \ D
  <2>1. PICK T \in R : \A U \in R : U \subseteq T => U = T
    <3>1. R \subseteq SUBSET S /\ R # {}
      BY <1>5
    <3> HIDE DEF R
    <3> QED BY <3>1, SmallestOf
  <2> DEFINE E == D \cup {T}
             e == IF T = {} THEN 0 ELSE f[Pick(T)] + g[T \ {Pick(T)}]
             h == [s \in E |-> IF s = T THEN e ELSE g[s]]
  <2>2. \A t \in SUBSET T : t = T \/ t \in D
    BY <2>1
  <2>3. E \in SUBSET SUBSET S /\ Down(E)
    BY <2>2
  <2>4. T \notin D
    OBVIOUS
  <2>5. ASSUME NEW s \in E
        PROVE h[s] = IF s = {} THEN 0 ELSE f[Pick(s)] + h[s \ {Pick(s)}]
    <3>1. s # {} => Pick(s) \in s
      BY DEF Pick
    <3>2. s # {} => s \ {Pick(s)} \in D
      <4> SUFFICES ASSUME s # {} PROVE s \ {Pick(s)} \in D
        OBVIOUS
      <4>1. s \ {Pick(s)} \in SUBSET s /\ s \ {Pick(s)} # s
        BY <3>1
      <4>2. CASE s = T
        BY <4>1, <4>2, <2>2
      <4>3. CASE s \in D
        BY <4>1, <4>3
      <4> QED BY <4>2, <4>3
    <3>3. s # {} => h[s \ {Pick(s)}] = g[s \ {Pick(s)}]
      BY <3>2, <2>4
    <3>4. CASE s = T
      BY <3>3, <3>4
    <3>5. CASE s \in D
      <4>1. g[s] = IF s = {} THEN 0 ELSE f[Pick(s)] + g[s \ {Pick(s)}]
        BY <1>4, <3>5 DEF IsTable
      <4>2. h[s] = g[s]
        BY <2>4, <3>5
      <4> HIDE DEF h
      <4> QED BY <4>1, <4>2, <3>3
    <3> QED BY <3>4, <3>5
  <2>6. IsTable(f, h, E)
    <3>1. h = [s \in E |-> h[s]]
      OBVIOUS
    <3> HIDE DEF h, E
    <3> QED BY <2>5, <3>1 DEF IsTable
  <2>7. E \in B
    <3> HIDE DEF h, E
    <3> QED BY <2>3, <2>6
  <2> QED BY <2>7, <1>3, <2>4
<1>6. \E h : IsTable(f, h, SUBSET S)
  BY <1>4, <1>5
<1> QED BY <1>6, Zenon DEF Table

\* On a smaller set, the table of a larger one says the same.
LEMMA TablesAgree ==
  ASSUME NEW f, NEW S, IsFiniteSet(S), NEW T \in SUBSET S
  PROVE  \A s \in SUBSET T : Table(f, S)[s] = Table(f, T)[s]
<1> DEFINE g == Table(f, S)
           h == Table(f, T)
           B == {s \in SUBSET T : g[s] # h[s]}
<1>1. IsFiniteSet(T)
  BY FS_Subset
<1>2. IsTable(f, g, SUBSET S) /\ IsTable(f, h, SUBSET T)
  BY <1>1, TableExists
<1>3. ASSUME B # {} PROVE FALSE
  <2>1. PICK s \in B : \A t \in B : t \subseteq s => t = s
    <3>1. B \subseteq SUBSET T
      OBVIOUS
    <3> HIDE DEF B
    <3> QED BY <3>1, <1>1, <1>3, SmallestOf
  <2>2. /\ g[s] = IF s = {} THEN 0 ELSE f[Pick(s)] + g[s \ {Pick(s)}]
        /\ h[s] = IF s = {} THEN 0 ELSE f[Pick(s)] + h[s \ {Pick(s)}]
    <3>1. s \in SUBSET S /\ s \in SUBSET T
      OBVIOUS
    <3> HIDE DEF g, h, B
    <3> QED BY <3>1, <1>2 DEF IsTable
  <2>3. s # {}
    BY <2>2
  <2>4. Pick(s) \in s
    BY <2>3 DEF Pick
  <2>5. s \ {Pick(s)} \notin B
    BY <2>1, <2>4
  <2> QED BY <2>2, <2>3, <2>5
<1> QED BY <1>3

\* Nothing sums to 0.
LEMMA SumEmpty == \A f : SumFunctionOnSet(f, {}) = 0
<1> SUFFICES ASSUME NEW f PROVE SumFunctionOnSet(f, {}) = 0
  OBVIOUS
<1>1. IsTable(f, Table(f, {}), SUBSET {})
  BY TableExists, FS_EmptySet
<1>2. Table(f, {})[{}] = 0
  BY <1>1 DEF IsTable
<1> QED BY <1>2, SumIsTable

\* The sum takes out one element at a time.
LEMMA SumPick ==
  ASSUME NEW f, NEW S, IsFiniteSet(S), S # {}
  PROVE  Pick(S) \in S /\ SumFunctionOnSet(f, S)
          = f[Pick(S)] + SumFunctionOnSet(f, S \ {Pick(S)})
<1>1. Pick(S) \in S
  BY DEF Pick
<1>2. IsTable(f, Table(f, S), SUBSET S)
  BY TableExists
<1>3. Table(f, S)[S] = f[Pick(S)] + Table(f, S)[S \ {Pick(S)}]
  BY <1>2 DEF IsTable
<1>4. Table(f, S)[S \ {Pick(S)}] = Table(f, S \ {Pick(S)})[S \ {Pick(S)}]
  BY TablesAgree
<1> QED BY <1>1, <1>3, <1>4, SumIsTable

\* Sums of naturals are naturals.
LEMMA SumType ==
  ASSUME NEW f, NEW S, IsFiniteSet(S), \A x \in S : f[x] \in Nat
  PROVE  SumFunctionOnSet(f, S) \in Nat
<1> DEFINE B == {T \in SUBSET S : SumFunctionOnSet(f, T) \notin Nat}
<1>1. ASSUME B # {} PROVE FALSE
  <2>1. PICK T \in B : \A U \in B : U \subseteq T => U = T
    <3>1. B \subseteq SUBSET S
      OBVIOUS
    <3> HIDE DEF B
    <3> QED BY <3>1, <1>1, SmallestOf
  <2>2. T # {}
    BY SumEmpty
  <2>3. IsFiniteSet(T)
    BY FS_Subset
  <2>4. Pick(T) \in T /\ SumFunctionOnSet(f, T)
          = f[Pick(T)] + SumFunctionOnSet(f, T \ {Pick(T)})
    BY <2>2, <2>3, SumPick
  <2>5. SumFunctionOnSet(f, T \ {Pick(T)}) \in Nat
    BY <2>1, <2>4
  <2> QED BY <2>4, <2>5
<1> QED BY <1>1

\* The element taken out may be any: the order of a sum does not matter.
LEMMA SumRemove ==
  ASSUME NEW f, NEW S, IsFiniteSet(S), \A x \in S : f[x] \in Nat
  PROVE  \A x \in S : SumFunctionOnSet(f, S) = f[x] + SumFunctionOnSet(f, S \ {x})
<1> DEFINE B == {T \in SUBSET S : ~ \A x \in T : SumFunctionOnSet(f, T)
                  = f[x] + SumFunctionOnSet(f, T \ {x})}
<1>1. ASSUME B # {} PROVE FALSE
  <2>1. PICK T \in B : \A U \in B : U \subseteq T => U = T
    <3>1. B \subseteq SUBSET S
      OBVIOUS
    <3> HIDE DEF B
    <3> QED BY <3>1, <1>1, SmallestOf
  <2>2. PICK x \in T : SumFunctionOnSet(f, T) # f[x] + SumFunctionOnSet(f, T \ {x})
    OBVIOUS
  <2> DEFINE p == Pick(T)
             W == T \ {p, x}
  <2>3. IsFiniteSet(T) /\ IsFiniteSet(W)
    BY FS_Subset
  <2>4. p \in T /\ SumFunctionOnSet(f, T) = f[p] + SumFunctionOnSet(f, T \ {p})
    BY <2>2, <2>3, SumPick
  <2>5. p # x
    BY <2>2, <2>4
  <2>6. \A y \in T \ {p} : SumFunctionOnSet(f, T \ {p})
          = f[y] + SumFunctionOnSet(f, (T \ {p}) \ {y})
    BY <2>1, <2>4
  <2>7. \A y \in T \ {x} : SumFunctionOnSet(f, T \ {x})
          = f[y] + SumFunctionOnSet(f, (T \ {x}) \ {y})
    BY <2>1, <2>2
  <2>8. (T \ {p}) \ {x} = W /\ (T \ {x}) \ {p} = W
    OBVIOUS
  <2>9. SumFunctionOnSet(f, T \ {p}) = f[x] + SumFunctionOnSet(f, W)
          /\ SumFunctionOnSet(f, T \ {x}) = f[p] + SumFunctionOnSet(f, W)
    BY <2>2, <2>4, <2>5, <2>6, <2>7, <2>8
  <2>10. SumFunctionOnSet(f, W) \in Nat /\ f[p] \in Nat /\ f[x] \in Nat
    BY <2>3, <2>4, <2>2, SumType
  <2> QED BY <2>2, <2>4, <2>9, <2>10
<1> QED BY <1>1

\* A sum depends only on the values that are added.
LEMMA SumAgree ==
  ASSUME NEW f, NEW g, NEW S, IsFiniteSet(S), \A x \in S : f[x] = g[x]
  PROVE  SumFunctionOnSet(f, S) = SumFunctionOnSet(g, S)
<1> DEFINE B == {T \in SUBSET S : SumFunctionOnSet(f, T) # SumFunctionOnSet(g, T)}
<1>1. ASSUME B # {} PROVE FALSE
  <2>1. PICK T \in B : \A U \in B : U \subseteq T => U = T
    <3>1. B \subseteq SUBSET S
      OBVIOUS
    <3> HIDE DEF B
    <3> QED BY <3>1, <1>1, SmallestOf
  <2>2. T # {}
    BY SumEmpty
  <2>3. IsFiniteSet(T)
    BY FS_Subset
  <2>4. /\ Pick(T) \in T /\ SumFunctionOnSet(f, T)
          = f[Pick(T)] + SumFunctionOnSet(f, T \ {Pick(T)})
        /\ SumFunctionOnSet(g, T) = g[Pick(T)] + SumFunctionOnSet(g, T \ {Pick(T)})
    BY <2>2, <2>3, SumPick
  <2>5. SumFunctionOnSet(f, T \ {Pick(T)}) = SumFunctionOnSet(g, T \ {Pick(T)})
    BY <2>1, <2>4
  <2> QED BY <2>4, <2>5
<1> QED BY <1>1

\* A sum splits along a subset.
LEMMA SumUnion ==
  ASSUME NEW f, NEW S, IsFiniteSet(S), \A x \in S : f[x] \in Nat
  PROVE  \A T \in SUBSET S : SumFunctionOnSet(f, S)
          = SumFunctionOnSet(f, T) + SumFunctionOnSet(f, S \ T)
<1> DEFINE B == {T \in SUBSET S : SumFunctionOnSet(f, S)
                  # SumFunctionOnSet(f, T) + SumFunctionOnSet(f, S \ T)}
<1>1. ASSUME B # {} PROVE FALSE
  <2>1. PICK T \in B : \A U \in B : U \subseteq T => U = T
    <3>1. B \subseteq SUBSET S
      OBVIOUS
    <3> HIDE DEF B
    <3> QED BY <3>1, <1>1, SmallestOf
  <2>2. S \ {} = S /\ SumFunctionOnSet(f, S) \in Nat
    BY SumType
  <2>3. T # {}
    BY <2>2, SumEmpty
  <2>4. PICK x \in T : TRUE
    BY <2>3
  <2> DEFINE U == T \ {x}
  <2>5. IsFiniteSet(T) /\ IsFiniteSet(S \ U) /\ IsFiniteSet(U) /\ IsFiniteSet(S \ T)
    BY FS_Subset
  <2>6. SumFunctionOnSet(f, S) = SumFunctionOnSet(f, U) + SumFunctionOnSet(f, S \ U)
    BY <2>1, <2>4
  <2>7. SumFunctionOnSet(f, T) = f[x] + SumFunctionOnSet(f, U)
    BY <2>4, <2>5, SumRemove
  <2>8. (S \ U) \ {x} = S \ T
    BY <2>4
  <2>9. SumFunctionOnSet(f, S \ U) = f[x] + SumFunctionOnSet(f, S \ T)
    BY <2>4, <2>5, <2>8, SumRemove
  <2>10. SumFunctionOnSet(f, U) \in Nat
          /\ SumFunctionOnSet(f, S \ T) \in Nat /\ f[x] \in Nat
    BY <2>4, <2>5, SumType
  <2>11. SumFunctionOnSet(f, S) = SumFunctionOnSet(f, T) + SumFunctionOnSet(f, S \ T)
    BY <2>6, <2>7, <2>9, <2>10
  <2> QED BY <2>11
<1> QED BY <1>1

\* Zeros sum to 0.
LEMMA SumOfZeros ==
  ASSUME NEW f, NEW S, IsFiniteSet(S), \A x \in S : f[x] = 0
  PROVE  SumFunctionOnSet(f, S) = 0
<1> DEFINE B == {T \in SUBSET S : SumFunctionOnSet(f, T) # 0}
<1>1. ASSUME B # {} PROVE FALSE
  <2>1. PICK T \in B : \A U \in B : U \subseteq T => U = T
    <3>1. B \subseteq SUBSET S
      OBVIOUS
    <3> HIDE DEF B
    <3> QED BY <3>1, <1>1, SmallestOf
  <2>2. T # {}
    BY SumEmpty
  <2>3. IsFiniteSet(T)
    BY FS_Subset
  <2>4. Pick(T) \in T
        /\ SumFunctionOnSet(f, T) = f[Pick(T)] + SumFunctionOnSet(f, T \ {Pick(T)})
    BY <2>2, <2>3, SumPick
  <2>5. SumFunctionOnSet(f, T \ {Pick(T)}) = 0
    BY <2>1, <2>4
  <2> QED BY <2>4, <2>5
<1> QED BY <1>1

\* A sum in which one value changes.
LEMMA SumChange ==
  ASSUME NEW f, NEW g, NEW S, IsFiniteSet(S), NEW x \in S,
         \A y \in S : f[y] \in Nat /\ g[y] \in Nat,
         \A y \in S \ {x} : f[y] = g[y]
  PROVE  SumFunctionOnSet(g, S) = SumFunctionOnSet(f, S) - f[x] + g[x]
<1>1. IsFiniteSet(S \ {x})
  BY FS_Subset
<1>2. SumFunctionOnSet(f, S \ {x}) = SumFunctionOnSet(g, S \ {x})
  BY <1>1, SumAgree
<1>3. SumFunctionOnSet(f, S) = f[x] + SumFunctionOnSet(f, S \ {x})
  BY SumRemove
<1>4. SumFunctionOnSet(g, S) = g[x] + SumFunctionOnSet(g, S \ {x})
  BY SumRemove
<1>5. SumFunctionOnSet(f, S \ {x}) \in Nat
  BY <1>1, SumType
<1> QED BY <1>2, <1>3, <1>4, <1>5

\* A sum in which some values are set to 0.
LEMMA SumWithout ==
  ASSUME NEW f, NEW g, NEW S, IsFiniteSet(S), NEW E \in SUBSET S,
         \A y \in S : f[y] \in Nat /\ g[y] = IF y \in E THEN 0 ELSE f[y]
  PROVE  SumFunctionOnSet(g, S) = SumFunctionOnSet(f, S) - SumFunctionOnSet(f, E)
<1>1. IsFiniteSet(E) /\ IsFiniteSet(S \ E)
  BY FS_Subset
<1>2. SumFunctionOnSet(g, E) = 0
  BY <1>1, SumOfZeros
<1>3. SumFunctionOnSet(g, S \ E) = SumFunctionOnSet(f, S \ E)
  BY <1>1, SumAgree
<1>4. SumFunctionOnSet(f, S) = SumFunctionOnSet(f, E) + SumFunctionOnSet(f, S \ E)
  BY SumUnion
<1>5. SumFunctionOnSet(g, S) = SumFunctionOnSet(g, E) + SumFunctionOnSet(g, S \ E)
  <2>1. \A y \in S : g[y] \in Nat
    OBVIOUS
  <2> QED BY <2>1, SumUnion
<1>6. SumFunctionOnSet(f, E) \in Nat /\ SumFunctionOnSet(f, S \ E) \in Nat
  BY <1>1, SumType
<1> QED BY <1>2, <1>3, <1>4, <1>5, <1>6

\* A part sums to no more than the whole.
LEMMA SumOfPart ==
  ASSUME NEW f, NEW S, IsFiniteSet(S), \A x \in S : f[x] \in Nat, NEW T \in SUBSET S
  PROVE  SumFunctionOnSet(f, T) <= SumFunctionOnSet(f, S)
<1>1. IsFiniteSet(T) /\ IsFiniteSet(S \ T)
  BY FS_Subset
<1>2. SumFunctionOnSet(f, S) = SumFunctionOnSet(f, T) + SumFunctionOnSet(f, S \ T)
  BY SumUnion
<1>3. SumFunctionOnSet(f, T) \in Nat /\ SumFunctionOnSet(f, S \ T) \in Nat
  BY <1>1, SumType
<1> QED BY <1>2, <1>3

\* A set of numbers has a least one.
LEMMA LeastNumber ==
    ASSUME NEW T \in SUBSET Nat, T # {}
    PROVE  \E n \in T : \A m \in T : n <= m
<1> DEFINE less == OpToRel(<, Nat)
<1>1. IsWellFoundedOn(less, Nat)
    BY NatLessThanWellFounded
<1>2. \A n, m \in Nat : n < m => <<n, m>> \in less
    BY DEF OpToRel
<1> HIDE DEF less
<1>3. PICK n \in T : \A m \in T : ~(<<m, n>> \in less)
    BY <1>1, WFMin
<1>4. \A m \in T : ~(m < n)
    BY <1>2, <1>3
<1> QED
    BY <1>4
=============================================================================
