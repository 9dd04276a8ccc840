------------------------------ MODULE SumTheorems ------------------------------
(***************************************************************************)
(* What sums over finite sets are known to do: they are naturals, they     *)
(* grow by what is added, and they may be taken in parts and in any order. *)
(***************************************************************************)
EXTENDS Sums, FiniteSetTheorems, TLAPS

LEMMA UnitsMember ==
  ASSUME NEW S, NEW f \in [S -> Nat]
  PROVE  /\ \A x, i : <<x, i>> \in Units(f) <=> x \in S /\ i \in 1..f[x]
         /\ \A u \in Units(f) : u = <<u[1], u[2]>> /\ u[1] \in S /\ u[2] \in 1..f[u[1]]
BY DEF Units

\* A sum over a finite set is a natural.
LEMMA TotalType ==
  ASSUME NEW S, IsFiniteSet(S), NEW f \in [S -> Nat]
  PROVE  IsFiniteSet(Units(f)) /\ Total(f) \in Nat
<1> DEFINE part == [x \in S |-> {x} \X (1..f[x])]
           parts == {{x} \X (1..f[x]) : x \in S}
<1>1. part \in Surjection(S, parts)
  BY DEF Surjection
<1>2. IsFiniteSet(parts)
  BY <1>1, FS_Surjection
<1>3. ASSUME NEW x \in S PROVE IsFiniteSet({x} \X (1..f[x]))
  <2>1. IsFiniteSet({x}) BY FS_Singleton
  <2>2. IsFiniteSet(1..f[x])
    <3>1. 1 \in Int /\ f[x] \in Int OBVIOUS
    <3> QED BY <3>1, FS_Interval
  <2> QED BY <2>1, <2>2, FS_Product
<1>4. IsFiniteSet(Units(f))
  BY <1>2, <1>3, FS_UNION DEF Units
<1> QED BY <1>4, FS_CardinalityType DEF Total

LEMMA TotalEmpty ==
  ASSUME NEW f, DOMAIN f = {}
  PROVE  Total(f) = 0
BY FS_EmptySet DEF Total, Units

LEMMA TotalOne ==
  ASSUME NEW x, NEW f \in [{x} -> Nat]
  PROVE  Total(f) = f[x]
<1> DEFINE n == f[x]
           unit == [i \in 1..n |-> <<x, i>>]
<1>1. n \in Nat /\ IsFiniteSet(1..n) /\ Cardinality(1..n) = n
  BY FS_Interval
<1>2. unit \in Bijection(1..n, Units(f))
  <2>1. unit \in [1..n -> Units(f)]
    BY UnitsMember
  <2>2. \A i, j \in 1..n : unit[i] = unit[j] => i = j
    OBVIOUS
  <2>3. \A u \in Units(f) : \E i \in 1..n : unit[i] = u
    BY UnitsMember
  <2> HIDE DEF unit, n
  <2> QED BY <2>1, <2>2, <2>3 DEF Bijection, Injection, Surjection, IsInjective
<1> HIDE DEF n, unit
<1>3. Total(f) = n
  BY <1>1, <1>2, FS_Bijection DEF ExistsBijection, Total
<1> QED BY <1>3 DEF n

\* A sum may be taken in two parts.
LEMMA TotalUnion ==
  ASSUME NEW S, IsFiniteSet(S), NEW T, IsFiniteSet(T), S \cap T = {},
         NEW f \in [S \cup T -> Nat]
  PROVE  Total(f) = Total([x \in S |-> f[x]]) + Total([x \in T |-> f[x]])
<1> DEFINE g == [x \in S |-> f[x]]
           h == [x \in T |-> f[x]]
<1>1. g \in [S -> Nat] /\ h \in [T -> Nat]
  OBVIOUS
<1>2. Units(f) = Units(g) \cup Units(h)
  BY DEF Units
<1>3. Units(g) \cap Units(h) = {}
  BY <1>1, UnitsMember
<1> HIDE DEF g, h
<1>4. IsFiniteSet(Units(g)) /\ IsFiniteSet(Units(h)) /\ Total(g) \in Nat /\ Total(h) \in Nat
  BY <1>1, TotalType
<1>5. Cardinality(Units(f)) = Cardinality(Units(g)) + Cardinality(Units(h)) - Cardinality({})
  BY <1>2, <1>3, <1>4, FS_Union
<1>6. Total(f) = Total(g) + Total(h)
  BY <1>4, <1>5, FS_EmptySet DEF Total
<1> QED BY <1>6 DEF g, h

\* One more member adds what it is worth,
LEMMA TotalAdd ==
  ASSUME NEW S, IsFiniteSet(S), NEW x, x \notin S, NEW f \in [S \cup {x} -> Nat]
  PROVE  Total(f) = Total([y \in S |-> f[y]]) + f[x]
<1>1. IsFiniteSet({x}) /\ S \cap {x} = {}
  BY FS_Singleton
<1>2. Total(f) = Total([y \in S |-> f[y]]) + Total([y \in {x} |-> f[y]])
  BY <1>1, TotalUnion
<1>3. Total([y \in {x} |-> f[y]]) = f[x]
  <2> DEFINE g == [y \in {x} |-> f[y]]
  <2>1. g \in [{x} -> Nat] /\ g[x] = f[x]
    OBVIOUS
  <2> HIDE DEF g
  <2>2. Total(g) = f[x]
    BY <2>1, TotalOne
  <2> QED BY <2>2 DEF g
<1> QED BY <1>2, <1>3

\* ... and what is taken out is missing.
LEMMA TotalRemove ==
  ASSUME NEW S, IsFiniteSet(S), NEW x \in S, NEW f \in [S -> Nat]
  PROVE  Total([y \in S \ {x} |-> f[y]]) = Total(f) - f[x]
<1> DEFINE R == S \ {x}
           g == [y \in R |-> f[y]]
<1>1. IsFiniteSet(R) /\ x \notin R /\ f \in [R \cup {x} -> Nat]
  <2>1. IsFiniteSet(R)
    BY FS_RemoveElement
  <2>2. R \cup {x} = S
    OBVIOUS
  <2> QED BY <2>1, <2>2
<1>2. g \in [R -> Nat] /\ f[x] \in Nat
  OBVIOUS
<1> HIDE DEF R
<1>3. Total(f) = Total(g) + f[x]
  BY <1>1, TotalAdd
<1> HIDE DEF g
<1>4. Total(g) \in Nat
  BY <1>1, <1>2, TotalType
<1>5. Total(g) = Total(f) - f[x]
  BY <1>2, <1>3, <1>4
<1> QED BY <1>5 DEF g, R

\* A sum does not depend on what its members are called.
LEMMA TotalRenamed ==
  ASSUME NEW S, IsFiniteSet(S), NEW T, NEW f \in [S -> Nat], NEW g \in [T -> Nat],
         NEW name \in Bijection(S, T), \A x \in S : g[name[x]] = f[x]
  PROVE  Total(f) = Total(g)
<1> DEFINE unit == [u \in Units(f) |-> <<name[u[1]], u[2]>>]
<1>0. /\ name \in [S -> T]
      /\ \A x, y \in S : name[x] = name[y] => x = y
      /\ \A z \in T : \E x \in S : name[x] = z
  BY DEF Bijection, Injection, Surjection, IsInjective
<1>1. unit \in [Units(f) -> Units(g)]
  BY <1>0, UnitsMember
<1>2. ASSUME NEW u \in Units(f), NEW v \in Units(f), unit[u] = unit[v]
      PROVE  u = v
  <2>1. u = <<u[1], u[2]>> /\ v = <<v[1], v[2]>> /\ u[1] \in S /\ v[1] \in S
    BY UnitsMember
  <2>2. name[u[1]] = name[v[1]] /\ u[2] = v[2]
    BY <1>2
  <2> QED BY <1>0, <2>1, <2>2
<1>3. ASSUME NEW v \in Units(g) PROVE \E u \in Units(f) : unit[u] = v
  <2>1. v = <<v[1], v[2]>> /\ v[1] \in T /\ v[2] \in 1..g[v[1]]
    BY UnitsMember
  <2>2. PICK x \in S : name[x] = v[1]
    BY <1>0, <2>1
  <2>3. <<x, v[2]>> \in Units(f)
    BY <2>1, <2>2, UnitsMember
  <2> QED BY <2>1, <2>2, <2>3
<1>4. ExistsBijection(Units(f), Units(g))
  <2> HIDE DEF unit
  <2>1. unit \in Bijection(Units(f), Units(g))
    BY <1>1, <1>2, <1>3 DEF Bijection, Injection, Surjection, IsInjective
  <2> QED BY <2>1 DEF ExistsBijection
<1> QED BY <1>4, TotalType, FS_Bijection DEF Total

\* A set has as many members as one unit each makes.
LEMMA TotalOfOnes ==
  ASSUME NEW S, IsFiniteSet(S)
  PROVE  Total([x \in S |-> 1]) = Cardinality(S)
<1> DEFINE f == [x \in S |-> 1]
           unit == [x \in S |-> <<x, 1>>]
<1>1. /\ \A x \in S : <<x, 1>> \in Units(f)
      /\ \A u \in Units(f) : \E x \in S : u = <<x, 1>>
  BY DEF Units
<1>2. unit \in Bijection(S, Units(f))
  <2>1. unit \in [S -> Units(f)]
    BY <1>1
  <2>2. \A x, y \in S : unit[x] = unit[y] => x = y
    OBVIOUS
  <2>3. \A u \in Units(f) : \E x \in S : unit[x] = u
    BY <1>1
  <2> HIDE DEF unit, f
  <2> QED BY <2>1, <2>2, <2>3 DEF Bijection, Injection, Surjection, IsInjective
<1> QED BY <1>2, FS_Bijection DEF ExistsBijection, Total

\* A sum may be taken in any number of parts: each member counts where its key says.
LEMMA TotalOfParts ==
  ASSUME NEW S, IsFiniteSet(S), NEW K, IsFiniteSet(K), NEW f \in [S -> Nat],
         NEW key \in [S -> K]
  PROVE  Total([k \in K |-> Total([x \in {y \in S : key[y] = k} |-> f[x]])]) = Total(f)
<1> DEFINE Under(L) == {x \in S : key[x] \in L}
           Of(L) == Total([x \in Under(L) |-> f[x]])
           Part(k) == Total([x \in {y \in S : key[y] = k} |-> f[x]])
           ByPart(L) == Total([k \in L |-> Part(k)])
           Wrong == {L \in FiniteSubsetsOf(K) : ByPart(L) # Of(L)}
<1>1. ASSUME NEW L PROVE IsFiniteSet(Under(L)) /\ Of(L) \in Nat
  <2>1. IsFiniteSet(Under(L))
    BY FS_Subset
  <2>2. [x \in Under(L) |-> f[x]] \in [Under(L) -> Nat]
    OBVIOUS
  <2> HIDE DEF Under
  <2> QED BY <2>1, <2>2, TotalType
<1>2. ASSUME NEW k PROVE Part(k) \in Nat
  <2> DEFINE Q == {y \in S : key[y] = k}
  <2>1. IsFiniteSet(Q)
    BY FS_Subset
  <2>2. [x \in Q |-> f[x]] \in [Q -> Nat]
    OBVIOUS
  <2> HIDE DEF Q
  <2>3. Total([x \in Q |-> f[x]]) \in Nat
    BY <2>1, <2>2, TotalType
  <2> QED BY <2>3 DEF Q
<1>3. ByPart({}) = Of({})
  <2>1. Under({}) = {}
    OBVIOUS
  <2> QED BY <2>1, TotalEmpty
<1>4. ASSUME NEW L \in FiniteSubsetsOf(K), NEW k \in L, ByPart(L \ {k}) = Of(L \ {k})
      PROVE  ByPart(L) = Of(L)
  <2> DEFINE M == L \ {k}
             Q == {y \in S : key[y] = k}
             whole == [x \in Under(M) \cup Q |-> f[x]]
             byKey == [j \in M \cup {k} |-> Part(j)]
  <2>1. IsFiniteSet(L) /\ M \cup {k} = L /\ k \notin M /\ IsFiniteSet(M)
    BY FS_RemoveElement DEF FiniteSubsetsOf
  <2>2. Under(M) \cup Q = Under(L) /\ Under(M) \cap Q = {} /\ IsFiniteSet(Q)
    BY FS_Subset
  <2>3. whole \in [Under(M) \cup Q -> Nat]
    BY DEF Under
  <2>4. Total(whole) = Total([x \in Under(M) |-> f[x]]) + Total([x \in Q |-> f[x]])
    <3> DEFINE U == Under(M)
    <3> HIDE DEF Under, Q
    <3>1. /\ [x \in U |-> whole[x]] = [x \in U |-> f[x]]
          /\ [x \in Q |-> whole[x]] = [x \in Q |-> f[x]]
      OBVIOUS
    <3>2. IsFiniteSet(U) /\ U \cap Q = {} /\ whole \in [U \cup Q -> Nat]
      BY <1>1, <2>2, <2>3
    <3> HIDE DEF whole, U
    <3>3. Total(whole) = Total([x \in U |-> whole[x]]) + Total([x \in Q |-> whole[x]])
      BY <2>2, <3>2, TotalUnion
    <3> QED BY <3>1, <3>3 DEF U
  <2>5. Of(L) = Of(M) + Part(k)
    BY <2>2, <2>4
  <2>6. byKey \in [M \cup {k} -> Nat] /\ byKey[k] = Part(k)
        /\ [j \in M |-> byKey[j]] = [j \in M |-> Part(j)]
    <3> HIDE DEF Part
    <3> QED BY <1>2
  <2>7. Total(byKey) = Total([j \in M |-> byKey[j]]) + byKey[k]
    <3> HIDE DEF byKey, M
    <3> QED BY <2>1, <2>6, TotalAdd
  <2>8. Total(byKey) = ByPart(L)
    BY <2>1
  <2> HIDE DEF M, Q, Part, whole, byKey, Under
  <2>9. ByPart(L) = ByPart(M) + Part(k)
    BY <2>6, <2>7, <2>8
  <2> HIDE DEF ByPart, Of
  <2> QED BY <1>4, <2>5, <2>9 DEF M
<1>5. Wrong = {}
  <2> SUFFICES ASSUME Wrong # {} PROVE FALSE
    OBVIOUS
  <2> HIDE DEF ByPart, Of
  <2>1. PICK L \in Wrong : \A M \in Wrong : <<M, L>> \notin StrictSubsetOrdering(K)
    BY FS_StrictSubsetOrderingWellFounded, WFMin
  <2>2. PICK k : k \in L
    BY <1>3
  <2>3. L \ {k} \in FiniteSubsetsOf(K)
    BY FS_RemoveElement DEF FiniteSubsetsOf
  <2>4. <<L \ {k}, L>> \in StrictSubsetOrdering(K)
    BY <2>2 DEF StrictSubsetOrdering, FiniteSubsetsOf
  <2>5. ByPart(L \ {k}) = Of(L \ {k})
    BY <2>1, <2>3, <2>4
  <2> QED BY <1>4, <2>2, <2>5
<1>6. ByPart(K) = Of(K)
  <2> HIDE DEF ByPart, Of
  <2> QED BY <1>5 DEF FiniteSubsetsOf
<1>7. Under(K) = S /\ [x \in S |-> f[x]] = f
  OBVIOUS
<1> QED BY <1>6, <1>7
===============================================================================
