----------------------------- MODULE Sums_proofs -----------------------------
(***************************************************************************)
(* The lemmas about numbers that the proofs of several components share:   *)
(* the least and the greatest element of a set, and sums.                  *)
(***************************************************************************)
EXTENDS Integers, Functions, FiniteSetsExt, FiniteSetTheorems, WellFoundedInduction, TLAPS

LEMMA LeastOf ==
  ASSUME NEW S \in SUBSET Nat, S # {}
  PROVE  \E x \in S : \A y \in S : x <= y
<1>1. \E x \in S : \A y \in S : ~(<<y, x>> \in OpToRel(<, Nat))
  <2> DEFINE R == OpToRel(<, Nat)
  <2>1. IsWellFoundedOn(R, Nat)
    BY NatLessThanWellFounded, Zenon
  <2> HIDE DEF R
  <2>2. \E x \in S : \A y \in S : ~(<<y, x>> \in R)
    BY <2>1, WFMin, Zenon
  <2> QED BY <2>2, Zenon DEF R
<1>2. ASSUME NEW x \in S, NEW y \in S, ~(<<y, x>> \in OpToRel(<, Nat))
      PROVE  x <= y
  BY <1>2 DEF OpToRel
<1> QED BY <1>1, <1>2, Zenon

LEMMA GreatestOf ==
  ASSUME NEW n \in Nat, NEW S \in SUBSET (1..n), S # {}
  PROVE  \E x \in S : \A y \in S : x >= y
<1> DEFINE T == {n - y : y \in S}
<1>1. T \in SUBSET Nat /\ T # {}
  <2>1. \A y \in S : y \in Nat /\ n - y \in Nat
    OBVIOUS
  <2> QED BY <2>1
<1>2. PICK t \in T : \A u \in T : t <= u
  BY <1>1, LeastOf, Zenon
<1>3. PICK x \in S : t = n - x
  OBVIOUS
<1>4. \A y \in S : n - x <= n - y
  BY <1>2, <1>3
<1> QED BY <1>4

LEMMA MaxMinIn ==
  ASSUME NEW n \in Nat, NEW S \in SUBSET (1..n), S # {}
  PROVE  /\ Max(S) \in S /\ \A y \in S : y <= Max(S)
         /\ Min(S) \in S /\ \A y \in S : Min(S) <= y
<1>1. S \in SUBSET Nat
  OBVIOUS
<1>2. \E x \in S : \A y \in S : x >= y
  BY GreatestOf, Zenon
<1>3. \E x \in S : \A y \in S : x <= y
  BY <1>1, LeastOf, Zenon
<1>4. Max(S) \in S /\ \A y \in S : Max(S) >= y
  BY <1>2, Zenon DEF Max
<1>5. Min(S) \in S /\ \A y \in S : Min(S) <= y
  BY <1>3, Zenon DEF Min
<1> QED BY <1>4, <1>5

(***************************************************************************)
(* The sum of what a function gives a finite set.  The library takes the   *)
(* elements out in the order CHOOSE gives; the lemmas free the sum of that *)
(* order.  Each is proved on a smallest counterexample.                    *)
(***************************************************************************)
TotalOf(t, S) == SumFunctionOnSet(t, S)

Pick(s) == CHOOSE x \in s : TRUE

(* f gives every subset of S its sum. *)
Sums(f, t, S) ==
  \A s \in SUBSET S :
    f[s] = IF s = {} THEN 0 ELSE t[Pick(s)] + f[s \ {Pick(s)}]

(* The function the library chooses: it is defined on the subsets of S.   *)
IsSums(f, t, S) ==
  f = [s \in SUBSET S |-> IF s = {} THEN 0 ELSE t[Pick(s)] + f[s \ {Pick(s)}]]

LEMMA Smaller ==
  ASSUME NEW S, IsFiniteSet(S), NEW s \in SUBSET S
  PROVE  /\ IsFiniteSet(s) /\ Cardinality(s) \in Nat
         /\ Cardinality(s) = 0 <=> s = {}
         /\ \A x \in s : /\ s \ {x} \in SUBSET S
                         /\ Cardinality(s \ {x}) = Cardinality(s) - 1
         /\ s # {} => Pick(s) \in s
<1>1. IsFiniteSet(s)
  BY FS_Subset
<1>2. Cardinality(s) \in Nat
  BY <1>1, FS_CardinalityType
<1>3. Cardinality(s) = 0 <=> s = {}
  BY <1>1, FS_EmptySet
<1>4. \A x \in s : Cardinality(s \ {x}) = Cardinality(s) - 1
  BY <1>1, FS_RemoveElement
<1>5. s # {} => Pick(s) \in s
  BY Zenon DEF Pick
<1> QED
  BY <1>1, <1>2, <1>3, <1>4, <1>5

LEMMA SumsExist ==
  ASSUME NEW t, NEW S, IsFiniteSet(S)
  PROVE  \E f : IsSums(f, t, S)
<1> DEFINE Upto(n) == {s \in SUBSET S : Cardinality(s) <= n}
           Part(g, n) == \A s \in Upto(n) :
             g[s] = IF s = {} THEN 0 ELSE t[Pick(s)] + g[s \ {Pick(s)}]
           Bad == {n \in Nat : ~\E g : Part(g, n)}
<1>1. Bad = {}
  <2> SUFFICES ASSUME Bad # {} PROVE FALSE
    OBVIOUS
  <2>1. PICK n \in Bad : \A m \in Bad : n <= m
    <3>1. Bad \in SUBSET Nat
      OBVIOUS
    <3> HIDE DEF Bad
    <3> QED BY <3>1, LeastOf
  <2>2. n \in Nat /\ ~\E g : Part(g, n)
    OBVIOUS
  <2>3. CASE n = 0
    <3> DEFINE g == [s \in SUBSET S |-> 0]
    <3>1. ASSUME NEW s \in Upto(n)
          PROVE  s = {} /\ g[s] = 0
      BY <2>3, Smaller
    <3>2. Part(g, n)
      BY <3>1
    <3> QED BY <2>2, <3>2
  <2>4. CASE n # 0
    <3>0. n - 1 \in Nat /\ ~(n <= n - 1)
      BY <2>2, <2>4
    <3>1. n - 1 \notin Bad
      <4> HIDE DEF Bad
      <4> QED BY <2>1, <3>0
    <3>2. PICK g : Part(g, n - 1)
      BY <3>0, <3>1
    <3> DEFINE h == [s \in SUBSET S |->
                 IF Cardinality(s) <= n - 1 THEN g[s]
                 ELSE t[Pick(s)] + g[s \ {Pick(s)}]]
    <3>3. ASSUME NEW s \in Upto(n)
          PROVE  h[s] = IF s = {} THEN 0 ELSE t[Pick(s)] + h[s \ {Pick(s)}]
      <4>1. /\ Cardinality(s) \in Nat
            /\ Cardinality(s) = 0 <=> s = {}
            /\ s # {} => /\ s \ {Pick(s)} \in SUBSET S
                         /\ Cardinality(s \ {Pick(s)}) = Cardinality(s) - 1
        BY Smaller
      <4>0. Cardinality(s) <= n /\ n \in Nat
        BY <2>2
      <4>2. s # {} => h[s \ {Pick(s)}] = g[s \ {Pick(s)}]
        <5> SUFFICES ASSUME s # {} PROVE h[s \ {Pick(s)}] = g[s \ {Pick(s)}]
          OBVIOUS
        <5>1. PICK r \in SUBSET S : r = s \ {Pick(s)} /\ Cardinality(r) = Cardinality(s) - 1
          BY <4>1
        <5>2. Cardinality(r) <= n - 1
          BY <4>0, <4>1, <5>1
        <5>3. h[r] = g[r]
          BY <5>2
        <5> QED BY <5>1, <5>3, Zenon
      <4>3. CASE Cardinality(s) <= n - 1
        <5>1. s \in Upto(n - 1)
          BY <4>3
        <5>2. h[s] = g[s]
          BY <4>3
        <5>3. g[s] = IF s = {} THEN 0 ELSE t[Pick(s)] + g[s \ {Pick(s)}]
          BY <3>2, <5>1
        <5> HIDE DEF h
        <5> QED BY <5>2, <5>3, <4>2
      <4>4. CASE ~(Cardinality(s) <= n - 1)
        <5>1. s # {}
          BY <4>0, <4>1, <4>4, <3>0
        <5>2. h[s] = t[Pick(s)] + g[s \ {Pick(s)}]
          BY <4>4
        <5> HIDE DEF h
        <5> QED BY <5>1, <5>2, <4>2
      <4> QED BY <4>3, <4>4
    <3>4. Part(h, n)
      BY <3>3
    <3> QED BY <2>2, <3>4
  <2> QED BY <2>3, <2>4
<1>2. Cardinality(S) \in Nat
  BY Smaller
<1>3. PICK g : Part(g, Cardinality(S))
  BY <1>1, <1>2
<1>4. ASSUME NEW s \in SUBSET S
      PROVE  g[s] = IF s = {} THEN 0 ELSE t[Pick(s)] + g[s \ {Pick(s)}]
  <2>1. Cardinality(s) <= Cardinality(S)
    BY FS_Subset
  <2> QED BY <1>3, <2>1
<1> HIDE DEF Part
<1> DEFINE f == [s \in SUBSET S |-> g[s]]
<1>5. ASSUME NEW s \in SUBSET S
      PROVE  f[s] = IF s = {} THEN 0 ELSE t[Pick(s)] + f[s \ {Pick(s)}]
  <2>1. s \ {Pick(s)} \in SUBSET S
    OBVIOUS
  <2> QED BY <1>4, <2>1
<1>6. f = [s \in SUBSET S |-> f[s]]
  OBVIOUS
<1> HIDE DEF f
<1>7. f = [s \in SUBSET S |->
             IF s = {} THEN 0 ELSE t[Pick(s)] + f[s \ {Pick(s)}]]
  BY <1>5, <1>6
<1> QED BY <1>7 DEF IsSums

LEMMA TotalIsSum ==
  ASSUME NEW t, NEW S, IsFiniteSet(S)
  PROVE  \E f : Sums(f, t, S) /\ TotalOf(t, S) = f[S]
<1> DEFINE g == CHOOSE f : IsSums(f, t, S)
<1>1. TotalOf(t, S) = g[S]
  BY DEF TotalOf, SumFunctionOnSet, FoldFunctionOnSet, MapThenFoldSet, Pick, IsSums
<1>2. \E f : IsSums(f, t, S)
  BY SumsExist
<1>3. IsSums(g, t, S)
  BY <1>2, Zenon
<1> HIDE DEF g
<1>4. Sums(g, t, S)
  BY <1>3 DEF Sums, IsSums
<1> QED BY <1>1, <1>4

(* The sum of a set is any of its elements and the sum of the others.      *)
LEMMA AnyFirst ==
  ASSUME NEW t, NEW S, IsFiniteSet(S), NEW f, Sums(f, t, S),
         \A x \in S : t[x] \in Int
  PROVE  \A s \in SUBSET S : /\ f[s] \in Int
                             /\ \A x \in s : f[s] = t[x] + f[s \ {x}]
<1> DEFINE Good(s) == /\ f[s] \in Int
                      /\ \A x \in s : f[s] = t[x] + f[s \ {x}]
           Bad == {n \in Nat : \E s \in SUBSET S : Cardinality(s) = n /\ ~Good(s)}
<1>1. Bad = {}
  <2> SUFFICES ASSUME Bad # {} PROVE FALSE
    OBVIOUS
  <2>1. PICK n \in Bad : \A m \in Bad : n <= m
    <3>1. Bad \in SUBSET Nat
      OBVIOUS
    <3> HIDE DEF Bad
    <3> QED BY <3>1, LeastOf
  <2>2. PICK s \in SUBSET S : Cardinality(s) = n /\ ~Good(s)
    OBVIOUS
  <2>3. \A r \in SUBSET S : Cardinality(r) = n - 1 => Good(r)
    <3> SUFFICES ASSUME NEW r \in SUBSET S, Cardinality(r) = n - 1, ~Good(r) PROVE FALSE
      OBVIOUS
    <3>1. Cardinality(r) \in Nat
      BY Smaller
    <3>2. n - 1 \in Bad
      BY <3>1
    <3>3. n \in Nat
      OBVIOUS
    <3> QED BY <2>1, <3>2, <3>3
  <2>4. s # {}
    <3>1. s = {} => f[s] = 0
      BY DEF Sums
    <3> QED BY <2>2, <3>1
  <2> DEFINE p == Pick(s)
  <2>5. p \in s /\ f[s] = t[p] + f[s \ {p}]
    BY <2>4, Smaller, SMTT(30) DEF Sums
  <2>6. t[p] \in Int
    BY <2>5
  <2> HIDE DEF p
  <2>7. \A x \in s : s \ {x} \in SUBSET S /\ Good(s \ {x})
    <3> SUFFICES ASSUME NEW x \in s PROVE s \ {x} \in SUBSET S /\ Good(s \ {x})
      OBVIOUS
    <3>1. s \ {x} \in SUBSET S /\ Cardinality(s \ {x}) = n - 1
      BY <2>2, Smaller
    <3> HIDE DEF Good
    <3> QED BY <2>3, <3>1
  <2> HIDE DEF Bad
  <2>8. f[s] \in Int
    <3>1. f[s \ {p}] \in Int
      BY <2>5, <2>7
    <3> QED BY <2>5, <2>6, <3>1
  <2>9. ASSUME NEW x \in s, x # p
        PROVE  f[s] = t[x] + f[s \ {x}]
    <3>1. f[s \ {p}] = t[x] + f[(s \ {p}) \ {x}]
      BY <2>5, <2>7, <2>9
    <3>2. f[s \ {x}] = t[p] + f[(s \ {x}) \ {p}]
      BY <2>5, <2>7, <2>9
    <3>3. (s \ {p}) \ {x} = (s \ {x}) \ {p}
      OBVIOUS
    <3>4. t[x] \in Int
      OBVIOUS
    <3>5. f[(s \ {p}) \ {x}] \in Int
      <4>1. Cardinality(s \ {p}) = n - 1 /\ s \ {p} \in SUBSET S
        BY <2>2, <2>5, Smaller
      <4>2. f[s \ {p}] \in Int
        BY <2>5, <2>7
      <4>3. Cardinality((s \ {p}) \ {x}) = (n - 1) - 1 /\ (s \ {p}) \ {x} \in SUBSET S
        BY <4>1, <2>9, Smaller
      <4>4. (s \ {p}) \ {x} \in SUBSET S /\ Cardinality((s \ {p}) \ {x}) \in Nat
        BY <4>3, Smaller
      <4>5. Cardinality((s \ {p}) \ {x}) \notin Bad
        BY <2>1, <4>3, <4>4, <2>2 DEF Bad
      <4>6. Good((s \ {p}) \ {x})
        BY <4>4, <4>5 DEF Bad
      <4> QED BY <4>6
    <3>6. PICK a, b, y, z, e : /\ a = t[x] /\ b = t[p]
                               /\ y = f[s \ {p}] /\ z = f[s \ {x}] /\ e = f[(s \ {p}) \ {x}]
      OBVIOUS
    <3>7. y = a + e
      BY <3>1, <3>6, Zenon
    <3>8. z = b + e
      BY <3>2, <3>3, <3>6, Zenon
    <3>9. f[s] = b + y
      BY <2>5, <3>6, Zenon
    <3>10. a \in Int /\ b \in Int /\ e \in Int
      BY <2>6, <3>4, <3>5, <3>6, Zenon
    <3>11. b + (a + e) = a + (b + e)
      BY <3>10
    <3>12. f[s] = a + z
      BY <3>7, <3>8, <3>9, <3>11, Zenon
    <3> QED BY <3>6, <3>12, Zenon
  <2>10. Good(s)
    BY <2>5, <2>8, <2>9
  <2> QED BY <2>2, <2>10
<1> SUFFICES ASSUME NEW s \in SUBSET S PROVE Good(s)
  OBVIOUS
<1>2. Cardinality(s) \in Nat
  BY Smaller
<1> QED BY <1>1, <1>2

(* Two sums of a set agree when its elements count the same.               *)
LEMMA SumsAgree ==
  ASSUME NEW t, NEW u, NEW S, NEW T, NEW R, IsFiniteSet(R), R \subseteq S, R \subseteq T,
         NEW f, NEW g, Sums(f, t, S), Sums(g, u, T),
         \A x \in R : t[x] = u[x]
  PROVE  f[R] = g[R]
<1> DEFINE Bad == {n \in Nat : \E s \in SUBSET R : Cardinality(s) = n /\ f[s] # g[s]}
<1>1. Bad = {}
  <2> SUFFICES ASSUME Bad # {} PROVE FALSE
    OBVIOUS
  <2>1. PICK n \in Bad : \A m \in Bad : n <= m
    <3>1. Bad \in SUBSET Nat
      OBVIOUS
    <3> HIDE DEF Bad
    <3> QED BY <3>1, LeastOf
  <2>2. PICK s \in SUBSET R : Cardinality(s) = n /\ f[s] # g[s]
    OBVIOUS
  <2>3. s \in SUBSET S /\ s \in SUBSET T
    OBVIOUS
  <2>4. s # {}
    <3>1. s = {} => f[s] = 0 /\ g[s] = 0
      BY <2>3 DEF Sums
    <3> QED BY <2>2, <3>1
  <2> DEFINE p == Pick(s)
             r == s \ {p}
  <2>5. p \in s /\ f[s] = t[p] + f[r] /\ g[s] = u[p] + g[r]
    BY <2>3, <2>4, Smaller DEF Sums
  <2> HIDE DEF p
  <2>6. r \in SUBSET R /\ Cardinality(r) = n - 1 /\ Cardinality(r) \in Nat
    BY <2>2, <2>5, Smaller
  <2>7. n - 1 \notin Bad
    BY <2>1, <2>6
  <2>8. f[r] = g[r]
    BY <2>6, <2>7
  <2>9. t[p] = u[p]
    BY <2>5
  <2> QED BY <2>2, <2>5, <2>8, <2>9
<1>2. Cardinality(R) \in Nat
  BY Smaller
<1> QED BY <1>1, <1>2

LEMMA TotalNone ==
  ASSUME NEW t
  PROVE  TotalOf(t, {}) = 0
<1>1. PICK f : Sums(f, t, {}) /\ TotalOf(t, {}) = f[{}]
  BY TotalIsSum, FS_EmptySet
<1> QED BY <1>1 DEF Sums

LEMMA TotalSame ==
  ASSUME NEW t, NEW u, NEW S, IsFiniteSet(S), \A x \in S : t[x] = u[x]
  PROVE  TotalOf(t, S) = TotalOf(u, S)
<1>1. PICK f : Sums(f, t, S) /\ TotalOf(t, S) = f[S]
  BY TotalIsSum
<1>2. PICK g : Sums(g, u, S) /\ TotalOf(u, S) = g[S]
  BY TotalIsSum
<1>3. S \subseteq S /\ Sums(f, t, S) /\ Sums(g, u, S)
  BY <1>1, <1>2
<1>4. f[S] = g[S]
  <2>1. ASSUME NEW R, IsFiniteSet(R), R = S PROVE f[R] = g[R]
    BY <1>1, <1>2, <2>1, SumsAgree
  <2> QED BY <2>1
<1> QED BY <1>1, <1>2, <1>4

LEMMA TotalMore ==
  ASSUME NEW t, NEW S, IsFiniteSet(S), NEW x, x \notin S,
         \A y \in S \cup {x} : t[y] \in Int
  PROVE  /\ TotalOf(t, S) \in Int
         /\ TotalOf(t, S \cup {x}) = t[x] + TotalOf(t, S)
<1> DEFINE T == S \cup {x}
<1>0. IsFiniteSet(T)
  BY FS_AddElement
<1>1. PICK f : Sums(f, t, T) /\ TotalOf(t, T) = f[T]
  BY <1>0, TotalIsSum
<1>2. PICK g : Sums(g, t, S) /\ TotalOf(t, S) = g[S]
  BY TotalIsSum
<1>3. f[S] = g[S]
  <2>1. S \subseteq T
    OBVIOUS
  <2> HIDE DEF T
  <2> QED BY <1>1, <1>2, <2>1, SumsAgree
<1>4. \A s \in SUBSET T : /\ f[s] \in Int
                          /\ \A y \in s : f[s] = t[y] + f[s \ {y}]
  <2>1. \A y \in T : t[y] \in Int
    OBVIOUS
  <2> HIDE DEF T
  <2>2. Sums(f, t, T)
    BY <1>1
  <2> QED BY <1>0, <2>1, <2>2, AnyFirst
<1>5. f[T] = t[x] + f[T \ {x}] /\ f[S] \in Int
  BY <1>4
<1>6. T \ {x} = S
  OBVIOUS
<1> HIDE DEF T
<1> QED BY <1>1, <1>2, <1>3, <1>5, <1>6 DEF T

LEMMA TotalTyped ==
  ASSUME NEW t, NEW S, IsFiniteSet(S), \A x \in S : t[x] \in Int
  PROVE  TotalOf(t, S) \in Int
<1>1. PICK f : Sums(f, t, S) /\ TotalOf(t, S) = f[S]
  BY TotalIsSum
<1>2. f[S] \in Int
  BY <1>1, AnyFirst
<1> QED BY <1>1, <1>2

(* Every element counted a times as much.                                  *)
LEMMA TotalTimes ==
  ASSUME NEW t, NEW u, NEW a \in Int, NEW S, IsFiniteSet(S),
         \A x \in S : t[x] \in Int /\ u[x] = t[x] * a
  PROVE  TotalOf(u, S) = TotalOf(t, S) * a
<1>1. PICK f : Sums(f, t, S) /\ TotalOf(t, S) = f[S]
  BY TotalIsSum
<1>2. PICK g : Sums(g, u, S) /\ TotalOf(u, S) = g[S]
  BY TotalIsSum
<1>3. \A s \in SUBSET S : f[s] \in Int
  BY <1>1, AnyFirst
<1> DEFINE Bad == {n \in Nat : \E s \in SUBSET S : Cardinality(s) = n /\ g[s] # f[s] * a}
<1>4. Bad = {}
  <2> SUFFICES ASSUME Bad # {} PROVE FALSE
    OBVIOUS
  <2>1. PICK n \in Bad : \A m \in Bad : n <= m
    <3>1. Bad \in SUBSET Nat
      OBVIOUS
    <3> HIDE DEF Bad
    <3> QED BY <3>1, LeastOf
  <2>2. PICK s \in SUBSET S : Cardinality(s) = n /\ g[s] # f[s] * a
    OBVIOUS
  <2>4. s # {}
    <3>1. s = {} => f[s] = 0 /\ g[s] = 0
      BY <1>1, <1>2 DEF Sums
    <3> QED BY <2>2, <3>1
  <2> DEFINE p == Pick(s)
             r == s \ {p}
  <2>5. p \in s /\ f[s] = t[p] + f[r] /\ g[s] = u[p] + g[r]
    BY <1>1, <1>2, <2>4, Smaller DEF Sums
  <2> HIDE DEF p
  <2>6. r \in SUBSET S /\ Cardinality(r) = n - 1 /\ Cardinality(r) \in Nat
    BY <2>2, <2>5, Smaller
  <2>7. n - 1 \notin Bad
    BY <2>1, <2>6
  <2>8. g[r] = f[r] * a
    BY <2>6, <2>7
  <2>9. PICK x \in Int, y \in Int : x = t[p] /\ y = f[r]
    BY <1>3, <2>5, <2>6
  <2>10. u[p] = x * a
    BY <2>5, <2>9
  <2>11. (x + y) * a = x * a + y * a
    OBVIOUS
  <2> QED BY <2>2, <2>5, <2>8, <2>9, <2>10, <2>11
<1>5. Cardinality(S) \in Nat
  BY Smaller
<1> QED BY <1>1, <1>2, <1>4, <1>5

(* Two sums over the same set.                                             *)
LEMMA TotalPlus ==
  ASSUME NEW t, NEW u, NEW w, NEW S, IsFiniteSet(S),
         \A x \in S : t[x] \in Int /\ u[x] \in Int /\ w[x] = t[x] + u[x]
  PROVE  TotalOf(w, S) = TotalOf(t, S) + TotalOf(u, S)
<1>1. PICK f : Sums(f, t, S) /\ TotalOf(t, S) = f[S]
  BY TotalIsSum
<1>2. PICK g : Sums(g, u, S) /\ TotalOf(u, S) = g[S]
  BY TotalIsSum
<1>3. PICK h : Sums(h, w, S) /\ TotalOf(w, S) = h[S]
  BY TotalIsSum
<1>4. \A s \in SUBSET S : f[s] \in Int /\ g[s] \in Int
  BY <1>1, <1>2, AnyFirst
<1> DEFINE Bad == {n \in Nat : \E s \in SUBSET S : Cardinality(s) = n /\ h[s] # f[s] + g[s]}
<1>5. Bad = {}
  <2> SUFFICES ASSUME Bad # {} PROVE FALSE
    OBVIOUS
  <2>1. PICK n \in Bad : \A m \in Bad : n <= m
    <3>1. Bad \in SUBSET Nat
      OBVIOUS
    <3> HIDE DEF Bad
    <3> QED BY <3>1, LeastOf
  <2>2. PICK s \in SUBSET S : Cardinality(s) = n /\ h[s] # f[s] + g[s]
    OBVIOUS
  <2>3. s # {}
    <3>1. s = {} => f[s] = 0 /\ g[s] = 0 /\ h[s] = 0
      BY <1>1, <1>2, <1>3 DEF Sums
    <3> QED BY <2>2, <3>1
  <2> DEFINE p == Pick(s)
             r == s \ {p}
  <2>4. p \in s /\ f[s] = t[p] + f[r] /\ g[s] = u[p] + g[r] /\ h[s] = w[p] + h[r]
    BY <1>1, <1>2, <1>3, <2>3, Smaller DEF Sums
  <2> HIDE DEF p
  <2>5. r \in SUBSET S /\ Cardinality(r) = n - 1 /\ Cardinality(r) \in Nat
    BY <2>2, <2>4, Smaller
  <2>6. n - 1 \notin Bad
    BY <2>1, <2>5
  <2>7. h[r] = f[r] + g[r]
    BY <2>5, <2>6
  <2>8. t[p] \in Int /\ u[p] \in Int /\ w[p] = t[p] + u[p] /\ f[r] \in Int /\ g[r] \in Int
    BY <1>4, <2>4, <2>5
  <2> QED BY <2>2, <2>4, <2>7, <2>8
<1>6. Cardinality(S) \in Nat
  BY Smaller
<1> QED BY <1>1, <1>2, <1>3, <1>5, <1>6

LEMMA TotalNat ==
  ASSUME NEW t, NEW S, IsFiniteSet(S), \A x \in S : t[x] \in Nat
  PROVE  TotalOf(t, S) \in Nat
<1>1. PICK f : Sums(f, t, S) /\ TotalOf(t, S) = f[S]
  BY TotalIsSum
<1> DEFINE Bad == {n \in Nat : \E s \in SUBSET S : Cardinality(s) = n /\ f[s] \notin Nat}
<1>2. Bad = {}
  <2> SUFFICES ASSUME Bad # {} PROVE FALSE
    OBVIOUS
  <2>1. PICK n \in Bad : \A m \in Bad : n <= m
    <3>1. Bad \in SUBSET Nat
      OBVIOUS
    <3> HIDE DEF Bad
    <3> QED BY <3>1, LeastOf
  <2>2. PICK s \in SUBSET S : Cardinality(s) = n /\ f[s] \notin Nat
    OBVIOUS
  <2>3. s # {}
    <3>1. s = {} => f[s] = 0
      BY <1>1 DEF Sums
    <3> QED BY <2>2, <3>1
  <2> DEFINE p == Pick(s)
             r == s \ {p}
  <2>4. p \in s /\ f[s] = t[p] + f[r] /\ t[p] \in Nat
    BY <1>1, <2>3, Smaller DEF Sums
  <2> HIDE DEF p
  <2>5. r \in SUBSET S /\ Cardinality(r) = n - 1 /\ Cardinality(r) \in Nat
    BY <2>2, <2>4, Smaller
  <2>6. n - 1 \notin Bad
    BY <2>1, <2>5
  <2>7. f[r] \in Nat
    BY <2>5, <2>6
  <2> QED BY <2>2, <2>4, <2>7
<1>3. Cardinality(S) \in Nat
  BY Smaller
<1> QED BY <1>1, <1>2, <1>3

(* What is mapped one to one into a set sums up to no more than the set.   *)
LEMMA TotalInjection ==
  ASSUME NEW t, NEW u, NEW S, NEW M, NEW f, IsFiniteSet(S), IsFiniteSet(M),
         \A x \in S : f[x] \in M /\ t[x] = u[f[x]],
         \A x, y \in S : f[x] = f[y] => x = y,
         \A m \in M : u[m] \in Nat
  PROVE  TotalOf(t, S) <= TotalOf(u, M)
<1> DEFINE Into(s, r) == \A x \in s : f[x] \in r
           Exceeds(s, r) == Into(s, r) /\ ~(TotalOf(t, s) <= TotalOf(u, r))
           Bad == {n \in Nat : \E s \in SUBSET S, r \in SUBSET M : Cardinality(s) = n /\ Exceeds(s, r)}
<1>1. \A r \in SUBSET M : IsFiniteSet(r) /\ TotalOf(u, r) \in Nat
  BY Smaller, TotalNat
<1>2. \A s \in SUBSET S : IsFiniteSet(s) /\ TotalOf(t, s) \in Nat
  BY Smaller, TotalNat
<1>3. Bad = {}
  <2> SUFFICES ASSUME Bad # {} PROVE FALSE
    OBVIOUS
  <2>1. PICK n \in Bad : \A m \in Bad : n <= m
    <3>1. Bad \in SUBSET Nat
      OBVIOUS
    <3> HIDE DEF Bad
    <3> QED BY <3>1, LeastOf
  <2>2. PICK s \in SUBSET S, r \in SUBSET M : Cardinality(s) = n /\ Exceeds(s, r)
    OBVIOUS
  <2>3. s # {}
    <3>1. s = {} => TotalOf(t, s) = 0
      BY TotalNone
    <3> QED BY <1>1, <2>2, <3>1
  <2> DEFINE p == Pick(s)
             s1 == s \ {p}
             r1 == r \ {f[p]}
  <2>4. p \in s /\ p \in S /\ f[p] \in r
    BY <2>2, <2>3, Smaller
  <2> HIDE DEF p
  <2>5. s1 \in SUBSET S /\ Cardinality(s1) = n - 1 /\ Cardinality(s1) \in Nat
    BY <2>2, <2>4, Smaller
  <2>6. n - 1 \notin Bad
    BY <2>1, <2>5
  <2>7. r1 \in SUBSET M /\ Into(s1, r1)
    BY <2>2, <2>4
  <2>8. TotalOf(t, s1) <= TotalOf(u, r1)
    <3> HIDE DEF s1, r1, Into
    <3> QED BY <2>5, <2>6, <2>7
  <2>9. TotalOf(t, s) = t[p] + TotalOf(t, s1)
    <3>1. s = s1 \cup {p} /\ p \notin s1 /\ IsFiniteSet(s1) /\ \A y \in s1 \cup {p} : t[y] \in Int
      BY <1>2, <2>4, <2>5
    <3> HIDE DEF s1
    <3> QED BY <3>1, TotalMore
  <2>10. TotalOf(u, r) = u[f[p]] + TotalOf(u, r1)
    <3>0. PICK q : q = f[p]
      OBVIOUS
    <3>1. r = r1 \cup {q} /\ q \notin r1 /\ IsFiniteSet(r1) /\ \A y \in r1 \cup {q} : u[y] \in Int
      BY <1>1, <2>4, <2>7, <3>0
    <3> HIDE DEF r1
    <3> QED BY <3>0, <3>1, TotalMore
  <2>11. t[p] = u[f[p]] /\ t[p] \in Nat
    BY <2>4
  <2>12. PICK a \in Nat, x \in Nat, y \in Nat : a = t[p] /\ x = TotalOf(t, s1) /\ y = TotalOf(u, r1)
    BY <1>1, <1>2, <2>5, <2>7, <2>11
  <2> HIDE DEF s1, r1, Into
  <2>13. TotalOf(t, s) = a + x /\ TotalOf(u, r) = a + y /\ x <= y
    BY <2>8, <2>9, <2>10, <2>11, <2>12, Zenon
  <2> QED BY <2>2, <2>13
<1>4. Cardinality(S) \in Nat
  BY Smaller
<1> QED BY <1>3, <1>4

(* What is mapped one to one onto a set sums up to the sum of the set.     *)
LEMMA TotalBijection ==
  ASSUME NEW t, NEW u, NEW S, NEW M, NEW f, IsFiniteSet(S), IsFiniteSet(M),
         \A x \in S : f[x] \in M /\ t[x] = u[f[x]],
         \A x, y \in S : f[x] = f[y] => x = y,
         \A m \in M : u[m] \in Nat /\ \E x \in S : f[x] = m
  PROVE  TotalOf(t, S) = TotalOf(u, M)
<1> DEFINE g == [m \in M |-> CHOOSE x \in S : f[x] = m]
<1>1. TotalOf(t, S) <= TotalOf(u, M)
  <2>1. \A m \in M : u[m] \in Nat
    OBVIOUS
  <2> QED BY <2>1, TotalInjection
<1>2. \A m \in M : g[m] \in S /\ f[g[m]] = m
  <2>1. \A m \in M : \E x \in S : f[x] = m
    OBVIOUS
  <2> QED BY <2>1, Zenon
<1> HIDE DEF g
<1>3. \A m \in M : g[m] \in S /\ u[m] = t[g[m]]
  BY <1>2
<1>4. \A m, n \in M : g[m] = g[n] => m = n
  BY <1>2
<1>5. \A x \in S : t[x] \in Nat
  OBVIOUS
<1>6. TotalOf(u, M) <= TotalOf(t, S)
  BY <1>3, <1>4, <1>5, TotalInjection
<1>7. TotalOf(t, S) \in Nat
  BY <1>5, TotalNat
<1>8. TotalOf(u, M) \in Nat
  <2>1. \A m \in M : u[m] \in Nat
    OBVIOUS
  <2> QED BY <2>1, TotalNat
<1> QED BY <1>1, <1>6, <1>7, <1>8

(* What is worth nothing may be left out of a sum.                         *)
LEMMA TotalZeros ==
  ASSUME NEW t, NEW S, NEW R \in SUBSET S, IsFiniteSet(S),
         \A x \in S : t[x] \in Int,
         \A x \in S \ R : t[x] = 0
  PROVE  TotalOf(t, S) = TotalOf(t, R)
<1> DEFINE Bad == {n \in Nat : \E s \in SUBSET (S \ R) :
                     Cardinality(s) = n /\ TotalOf(t, R \cup s) # TotalOf(t, R)}
<1>0. IsFiniteSet(R) /\ IsFiniteSet(S \ R)
  BY FS_Subset
<1>1. Bad = {}
  <2> SUFFICES ASSUME Bad # {} PROVE FALSE
    OBVIOUS
  <2>1. PICK n \in Bad : \A m \in Bad : n <= m
    <3>1. Bad \in SUBSET Nat
      OBVIOUS
    <3> HIDE DEF Bad
    <3> QED BY <3>1, LeastOf
  <2>2. PICK s \in SUBSET (S \ R) : Cardinality(s) = n /\ TotalOf(t, R \cup s) # TotalOf(t, R)
    OBVIOUS
  <2>3. IsFiniteSet(s) /\ n \in Nat
    BY <1>0, <2>2, FS_Subset
  <2>4. s # {}
    <3>1. s = {} => R \cup s = R
      OBVIOUS
    <3> QED BY <2>2, <3>1
  <2>5. PICK x \in s : TRUE
    BY <2>4
  <2> DEFINE r == s \ {x}
             T == R \cup r
  <2>6. r \in SUBSET (S \ R) /\ Cardinality(r) = n - 1 /\ Cardinality(r) \in Nat
    <3>1. r \in SUBSET (S \ R) /\ IsFiniteSet(r) /\ Cardinality(r) = Cardinality(s) - 1
      BY <2>3, <2>5, FS_RemoveElement
    <3>2. Cardinality(r) \in Nat
      BY <3>1, FS_CardinalityType
    <3> QED BY <2>2, <3>1, <3>2
  <2>7. n - 1 \notin Bad
    <3> HIDE DEF Bad
    <3> QED BY <2>1, <2>3, <2>6
  <2>8. TotalOf(t, T) = TotalOf(t, R)
    BY <2>6, <2>7
  <2>9. /\ R \cup s = T \cup {x} /\ x \notin T /\ T \in SUBSET S /\ x \in S /\ t[x] = 0
    BY <2>2, <2>5
  <2>10. IsFiniteSet(T) /\ \A y \in T \cup {x} : t[y] \in Int
    <3> HIDE DEF T
    <3> QED BY <2>9, FS_Subset
  <2> HIDE DEF T, r, Bad
  <2>11. TotalOf(t, T) \in Int /\ TotalOf(t, T \cup {x}) = t[x] + TotalOf(t, T)
    BY <2>9, <2>10, TotalMore
  <2>12. TotalOf(t, T \cup {x}) = TotalOf(t, T)
    BY <2>9, <2>11
  <2> QED BY <2>2, <2>8, <2>9, <2>12
<1>2. Cardinality(S \ R) \in Nat
  BY <1>0, FS_CardinalityType
<1>3. TotalOf(t, R \cup (S \ R)) = TotalOf(t, R)
  BY <1>1, <1>2
<1>4. R \cup (S \ R) = S
  OBVIOUS
<1> QED BY <1>3, <1>4

(* Two sets without a common element.                                      *)
LEMMA TotalUnion ==
  ASSUME NEW t, NEW A, NEW B, IsFiniteSet(A), IsFiniteSet(B), A \cap B = {},
         \A x \in A \cup B : t[x] \in Int
  PROVE  TotalOf(t, A \cup B) = TotalOf(t, A) + TotalOf(t, B)
<1> DEFINE S == A \cup B
           u == [x \in S |-> IF x \in A THEN t[x] ELSE 0]
           v == [x \in S |-> IF x \in B THEN t[x] ELSE 0]
<1>1. IsFiniteSet(S) /\ A \in SUBSET S /\ B \in SUBSET S
  BY FS_Union
<1>2. \A x \in S : u[x] \in Int /\ v[x] \in Int /\ t[x] = u[x] + v[x]
  OBVIOUS
<1>3. /\ \A x \in S \ A : u[x] = 0
      /\ \A x \in S \ B : v[x] = 0
      /\ \A x \in A : u[x] = t[x]
      /\ \A x \in B : v[x] = t[x]
  OBVIOUS
<1> HIDE DEF S, u, v
<1>4. TotalOf(t, S) = TotalOf(u, S) + TotalOf(v, S)
  BY <1>1, <1>2, TotalPlus
<1>5. TotalOf(u, S) = TotalOf(u, A) /\ TotalOf(v, S) = TotalOf(v, B)
  <2>1. (\A x \in S : u[x] \in Int) /\ \A x \in S : v[x] \in Int
    BY <1>2
  <2>2. TotalOf(u, S) = TotalOf(u, A)
    BY <1>1, <1>3, <2>1, TotalZeros
  <2>3. TotalOf(v, S) = TotalOf(v, B)
    BY <1>1, <1>3, <2>1, TotalZeros
  <2> QED BY <2>2, <2>3
<1>6. TotalOf(u, A) = TotalOf(t, A) /\ TotalOf(v, B) = TotalOf(t, B)
  BY <1>3, TotalSame
<1> QED BY <1>4, <1>5, <1>6 DEF S

(* u has the sums of t over the groups into which f divides S.             *)
Grouped(t, u, f, S, M) ==
  /\ IsFiniteSet(S) /\ IsFiniteSet(M)
  /\ \A x \in S : t[x] \in Int /\ f[x] \in M
  /\ \A m \in M : u[m] = TotalOf(t, {x \in S : f[x] = m})

(* A sum taken group by group.                                             *)
LEMMA TotalGroups ==
  ASSUME NEW t, NEW u, NEW f, NEW S, NEW M, Grouped(t, u, f, S, M)
  PROVE  TotalOf(u, M) = TotalOf(t, S)
<1>0. /\ IsFiniteSet(S) /\ IsFiniteSet(M)
      /\ \A x \in S : t[x] \in Int /\ f[x] \in M
      /\ \A m \in M : u[m] = TotalOf(t, {x \in S : f[x] = m})
  BY Zenon DEF Grouped
<1> USE <1>0
<1> DEFINE In(n) == {x \in S : f[x] \in n}
           Bad == {k \in Nat : \E n \in SUBSET M : Cardinality(n) = k /\ TotalOf(u, n) # TotalOf(t, In(n))}
<1>1. ASSUME NEW n \in SUBSET S PROVE IsFiniteSet(n) /\ TotalOf(t, n) \in Int
  <2>1. IsFiniteSet(n) /\ \A x \in n : t[x] \in Int
    BY FS_Subset
  <2> QED BY <2>1, TotalTyped
<1>2. \A m \in M : u[m] \in Int
  <2> SUFFICES ASSUME NEW m \in M PROVE u[m] \in Int
    OBVIOUS
  <2>1. {x \in S : f[x] = m} \in SUBSET S
    OBVIOUS
  <2> QED BY <1>1, <2>1
<1>3. Bad = {}
  <2> SUFFICES ASSUME Bad # {} PROVE FALSE
    OBVIOUS
  <2>1. PICK k \in Bad : \A j \in Bad : k <= j
    <3>1. Bad \in SUBSET Nat
      OBVIOUS
    <3> HIDE DEF Bad
    <3> QED BY <3>1, LeastOf
  <2>2. PICK n \in SUBSET M : Cardinality(n) = k /\ TotalOf(u, n) # TotalOf(t, In(n))
    OBVIOUS
  <2>3. n # {}
    <3>1. n = {} => In(n) = {}
      OBVIOUS
    <3> HIDE DEF In
    <3> QED BY <2>2, <3>1, TotalNone
  <2>4. PICK m \in n : TRUE
    BY <2>3
  <2> DEFINE r == n \ {m}
             A == {x \in S : f[x] = m}
  <2>5. r \in SUBSET M /\ IsFiniteSet(r) /\ Cardinality(r) = k - 1 /\ Cardinality(r) \in Nat /\ k \in Nat
    <3>1. IsFiniteSet(n) /\ k \in Nat
      BY FS_Subset
    <3>2. IsFiniteSet(r) /\ Cardinality(r) = Cardinality(n) - 1
      BY <2>4, <3>1, FS_RemoveElement
    <3>3. Cardinality(r) \in Nat
      BY <3>2, FS_CardinalityType
    <3> QED BY <2>2, <3>1, <3>2, <3>3
  <2>6. k - 1 \notin Bad
    <3> HIDE DEF Bad
    <3> QED BY <2>1, <2>5
  <2>7. TotalOf(u, r) = TotalOf(t, In(r))
    BY <2>5, <2>6
  <2>8. In(n) = In(r) \cup A /\ In(r) \cap A = {} /\ In(r) \in SUBSET S /\ A \in SUBSET S
    BY <2>4
  <2>9. u[m] = TotalOf(t, A) /\ u[m] \in Int
    BY <1>2, <2>4
  <2>10. n = r \cup {m} /\ m \notin r /\ \A y \in r \cup {m} : u[y] \in Int
    BY <1>2, <2>4
  <2> HIDE DEF Bad, In, r, A
  <2>11. TotalOf(u, n) = u[m] + TotalOf(u, r) /\ TotalOf(u, r) \in Int
    BY <2>5, <2>10, TotalMore
  <2>12. TotalOf(t, In(n)) = TotalOf(t, In(r)) + TotalOf(t, A)
    <3>1. IsFiniteSet(In(r)) /\ IsFiniteSet(A) /\ \A x \in In(r) \cup A : t[x] \in Int
      BY <1>1, <2>8
    <3> QED BY <2>8, <3>1, TotalUnion
  <2>13. TotalOf(t, A) \in Int /\ TotalOf(t, In(r)) \in Int
    BY <1>1, <2>8
  <2> QED BY <2>2, <2>7, <2>9, <2>11, <2>12, <2>13
<1>4. In(M) = S /\ M \in SUBSET M
  OBVIOUS
<1>5. Cardinality(M) \in Nat
  BY FS_CardinalityType
<1> HIDE DEF In
<1> QED BY <1>3, <1>4, <1>5
===============================================================================
