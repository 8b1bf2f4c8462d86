----------------------------- MODULE DataLemmas -----------------------------
(***************************************************************************)
(* Induction without operators as parameters: over the numbers for which a *)
(* claim holds, as a set.  It rests on the library's theorem that a well-  *)
(* founded relation has minimal elements.  What the recursive definitions  *)
(* of the community modules compute follows from it.                       *)
(***************************************************************************)
EXTENDS Integers, Sequences, FiniteSets, Functions, FiniteSetTheorems, WellFoundedInduction, TLAPS

(* Every set of numbers that is not empty has a least one. *)
LEMMA LeastNumber ==
    ASSUME NEW T \in SUBSET Nat, T # {}
    PROVE  \E x \in T : \A y \in T : x <= y
PROOF
<1> DEFINE R == {x \in Nat \X Nat : x[1] < x[2]}
<1>1. IsWellFoundedOn(R, Nat)
  BY NatLessThanWellFounded DEF OpToRel
<1>2. \A x, y \in T : y < x => <<y, x>> \in R
  OBVIOUS
<1> HIDE DEF R
<1>3. \E x \in T : \A y \in T : <<y, x>> \notin R
  BY <1>1, WFMin
<1>4. \A x, y \in T : y < x \/ x <= y
  OBVIOUS
<1> QED BY <1>2, <1>3, <1>4

(* A set that holds 0, and with a number the next one, holds every number. *)
LEMMA Induction ==
    ASSUME NEW T, 0 \in T, \A n \in Nat : n \in T => n + 1 \in T
    PROVE  \A n \in Nat : n \in T
PROOF
<1> SUFFICES ASSUME Nat \ T # {} PROVE FALSE
  OBVIOUS
<1>1. PICK x \in Nat \ T : \A y \in Nat \ T : x <= y
  BY LeastNumber
<1>2. x # 0 /\ x - 1 \in Nat /\ ~(x <= x - 1)
  OBVIOUS
<1>3. x - 1 \in T
  BY <1>1, <1>2
<1>4. (x - 1) + 1 \in T
  BY <1>2, <1>3
<1> QED BY <1>1, <1>4

(* The same for a stretch of numbers. *)
LEMMA StretchInduction ==
    ASSUME NEW n \in Nat, NEW T, 0 \in T, \A k \in 1..n : k - 1 \in T => k \in T
    PROVE  \A k \in 0..n : k \in T
PROOF
<1> DEFINE R == {k \in Nat : k <= n => k \in T}
<1>1. 0 \in R
  OBVIOUS
<1>2. ASSUME NEW k \in Nat, k \in R PROVE k + 1 \in R
  <2> SUFFICES ASSUME k + 1 <= n PROVE k + 1 \in T
    OBVIOUS
  <2>1. k \in T /\ k + 1 \in 1..n /\ (k + 1) - 1 = k
    BY <1>2
  <2> QED BY <2>1
<1>3. \A k \in Nat : k \in R
  <2> HIDE DEF R
  <2> QED BY <1>1, <1>2, Induction
<1> QED BY <1>3

(* For finite sequences: the empty one, and with a sequence every longer one. *)
LEMMA SequenceInduction ==
    ASSUME NEW S, NEW T, <<>> \in T,
           \A s \in Seq(S) : \A v \in S : s \in T => Append(s, v) \in T
    PROVE  \A s \in Seq(S) : s \in T
PROOF
<1> DEFINE R == {n \in Nat : \A s \in Seq(S) : Len(s) = n => s \in T}
<1>1. 0 \in R
  <2>1. \A s \in Seq(S) : Len(s) = 0 => s = <<>>
    OBVIOUS
  <2> QED BY <2>1
<1>2. ASSUME NEW n \in Nat, n \in R PROVE n + 1 \in R
  <2> SUFFICES ASSUME NEW s \in Seq(S), Len(s) = n + 1 PROVE s \in T
    OBVIOUS
  <2> DEFINE r == [k \in 1..n |-> s[k]]
  <2>1. r \in Seq(S) /\ Len(r) = n /\ s[n + 1] \in S
    OBVIOUS
  <2>2. s = Append(r, s[n + 1])
    OBVIOUS
  <2> HIDE DEF r
  <2> QED BY <1>2, <2>1, <2>2
<1>3. \A n \in Nat : n \in R
  <2> HIDE DEF R
  <2> QED BY <1>1, <1>2, Induction
<1> QED BY <1>3

(* A value of A is carried through n steps, and f holds its values. *)
Steps(n, A, base, step) ==
    n \in Nat /\ base \in A /\ \A k \in 1..n : \A a \in A : step[k][a] \in A

Carries(f, n, A, base, step) ==
    /\ f \in [0..n -> A] /\ f[0] = base
    /\ \A k \in 1..n : f[k] = step[k][f[k - 1]]

LEMMA RecursionExists ==
    ASSUME NEW n, NEW A, NEW base, NEW step, Steps(n, A, base, step)
    PROVE  \E f : Carries(f, n, A, base, step)
PROOF
<1> DEFINE Upto(f, m) == f[0] = base /\ \A k \in 1..m : f[k] = step[k][f[k - 1]]
           T == {m \in 0..n : \E f \in [0..n -> A] : Upto(f, m)}
<1>1. n \in Nat /\ base \in A /\ \A k \in 1..n : \A a \in A : step[k][a] \in A
  BY DEF Steps
<1>2. 0 \in T
  <2> DEFINE g == [k \in 0..n |-> base]
  <2>1. g \in [0..n -> A] /\ Upto(g, 0) /\ 0 \in 0..n
    BY <1>1
  <2> HIDE DEF g, Upto
  <2> QED BY <2>1
<1>3. ASSUME NEW m \in 1..n, m - 1 \in T PROVE m \in T
  <2>1. PICK f \in [0..n -> A] : Upto(f, m - 1)
    BY <1>3
  <2> DEFINE g == [f EXCEPT ![m] = step[m][f[m - 1]]]
  <2>2. g \in [0..n -> A] /\ g[m] = step[m][f[m - 1]] /\ g[m - 1] = f[m - 1]
    BY <1>1
  <2>3. \A k \in 1..m : k = m \/ (k \in 1..m - 1 /\ g[k] = f[k] /\ g[k - 1] = f[k - 1])
    BY <1>1
  <2>4. g[0] = f[0]
    BY <1>1
  <2> HIDE DEF g
  <2>5. Upto(g, m)
    BY <2>1, <2>2, <2>3, <2>4
  <2> QED BY <1>1, <2>2, <2>5
<1>4. n \in T
  <2> HIDE DEF T
  <2>1. \A k \in 0..n : k \in T
    BY <1>1, <1>2, <1>3, StretchInduction
  <2> QED BY <1>1, <2>1
<1>5. PICK f \in [0..n -> A] : Upto(f, n)
  BY <1>4
<1>6. Carries(f, n, A, base, step)
  BY <1>5 DEF Carries
<1> QED BY <1>6

(* Two functions that start alike and step alike are alike. *)
LEMMA SameSteps ==
    ASSUME NEW n \in Nat, NEW f, NEW g, f[0] = g[0],
           \A k \in 1..n : f[k - 1] = g[k - 1] => f[k] = g[k]
    PROVE  \A k \in 0..n : f[k] = g[k]
PROOF
<1> DEFINE T == {k \in 0..n : f[k] = g[k]}
<1>1. 0 \in T /\ \A k \in 1..n : k - 1 \in T => k \in T
  OBVIOUS
<1>2. \A k \in 0..n : k \in T
  <2> HIDE DEF T
  <2> QED BY <1>1, StretchInduction
<1> QED BY <1>2

-----------------------------------------------------------------------------
(* The recursive function behind the sum of f over a set and its subsets. *)
Sums(f, S, g) ==
    g = [s \in SUBSET S |-> IF s = {} THEN 0
                            ELSE LET x == CHOOSE x \in s : TRUE IN f[x] + g[s \ {x}]]

LEMMA SumIs ==
    ASSUME NEW f, NEW S
    PROVE  SumFunctionOnSet(f, S) = (CHOOSE g : Sums(f, S, g))[S]
BY DEF SumFunctionOnSet, FoldFunctionOnSet, MapThenFoldSet, Sums

LEMMA SumsExist ==
    ASSUME NEW f, NEW S, IsFiniteSet(S)
    PROVE  \E g : Sums(f, S, g)
PROOF
<1> DEFINE Value(g, s) == IF s = {} THEN 0
                          ELSE LET x == CHOOSE x \in s : TRUE IN f[x] + g[s \ {x}]
           Upto(g, n) == \A s \in SUBSET S : Cardinality(s) <= n => g[s] = Value(g, s)
           T == {n \in Nat : \E g : Upto(g, n)}
<1>1. \A s \in SUBSET S : IsFiniteSet(s) /\ Cardinality(s) \in Nat /\ Cardinality(s) <= Cardinality(S)
  BY FS_Subset, FS_CardinalityType
<1>2. \A s \in SUBSET S : s # {} =>
        /\ (CHOOSE x \in s : TRUE) \in s
        /\ \A x \in s : s \ {x} \in SUBSET S /\ Cardinality(s \ {x}) = Cardinality(s) - 1
  BY <1>1, FS_RemoveElement
<1>3. 0 \in T
  <2>1. Upto([s \in SUBSET S |-> 0], 0)
    <3> SUFFICES ASSUME NEW s \in SUBSET S, Cardinality(s) <= 0
                 PROVE  [t \in SUBSET S |-> 0][s] = Value([t \in SUBSET S |-> 0], s)
      OBVIOUS
    <3>1. s = {}
      BY <1>1, FS_EmptySet
    <3> QED BY <3>1
  <2> QED BY <2>1
<1>4. ASSUME NEW n \in Nat, n \in T
      PROVE  n + 1 \in T
  <2>1. PICK g : Upto(g, n)
    BY <1>4
  <2> DEFINE h == [s \in SUBSET S |-> Value(g, s)]
  <2>2. Upto(h, n + 1)
    <3> SUFFICES ASSUME NEW s \in SUBSET S, Cardinality(s) <= n + 1
                 PROVE  h[s] = Value(h, s)
      OBVIOUS
    <3>1. CASE s = {}
      BY <3>1
    <3>2. CASE s # {}
      <4> DEFINE x == CHOOSE x \in s : TRUE
      <4>1. x \in s /\ s \ {x} \in SUBSET S
        BY <1>2, <3>2
      <4>2. Cardinality(s \ {x}) <= n
        <5>1. Cardinality(s \ {x}) = Cardinality(s) - 1
          BY <1>2, <3>2, <4>1
        <5> HIDE DEF x
        <5> QED BY <1>1, <5>1
      <4>3. g[s \ {x}] = Value(g, s \ {x})
        BY <2>1, <4>1, <4>2
      <4>4. h[s \ {x}] = Value(g, s \ {x}) /\ h[s] = Value(g, s)
        BY <4>1
      <4> QED BY <3>2, <4>3, <4>4
    <3> QED BY <3>1, <3>2
  <2> HIDE DEF Upto, h
  <2>3. \E k : Upto(k, n + 1)
    BY <2>2
  <2> QED BY <2>3
<1>5. \A n \in Nat : n \in T
  <2> HIDE DEF T
  <2> QED BY <1>3, <1>4, Induction
<1>6. PICK g : Upto(g, Cardinality(S))
  <2>1. Cardinality(S) \in T
    BY <1>1, <1>5
  <2> QED BY <2>1
<1> DEFINE h == [s \in SUBSET S |-> g[s]]
<1>7. ASSUME NEW s \in SUBSET S
      PROVE  h[s] = Value(h, s)
  <2>1. h[s] = Value(g, s)
    BY <1>1, <1>6
  <2>2. s # {} => h[s \ {CHOOSE x \in s : TRUE}] = g[s \ {CHOOSE x \in s : TRUE}]
    OBVIOUS
  <2> QED BY <2>1, <2>2
<1>8. h = [s \in SUBSET S |-> Value(h, s)]
  BY <1>7
<1> QED BY <1>8 DEF Sums

(* A set with n + 1 elements has one to take away, and n are left. *)
LEMMA TakeOne ==
    ASSUME NEW S, IsFiniteSet(S), NEW x \in S
    PROVE  /\ IsFiniteSet(S \ {x}) /\ Cardinality(S) \in Nat /\ Cardinality(S \ {x}) \in Nat
           /\ Cardinality(S \ {x}) = Cardinality(S) - 1
BY FS_RemoveElement, FS_CardinalityType

(* The empty set sums to 0, any other to the chosen element and the rest. *)
LEMMA SumStep ==
    ASSUME NEW f, NEW S, IsFiniteSet(S)
    PROVE  /\ SumFunctionOnSet(f, {}) = 0
           /\ S # {} => LET x == CHOOSE x \in S : TRUE
                        IN  SumFunctionOnSet(f, S) = f[x] + SumFunctionOnSet(f, S \ {x})
PROOF
<1> DEFINE G(s) == CHOOSE g : Sums(f, s, g)
<1>1. \A s \in SUBSET S : IsFiniteSet(s)
  BY FS_Subset
<1>2. \A s \in SUBSET S : Sums(f, s, G(s))
  BY <1>1, SumsExist
<1>3. \A s \in SUBSET S : SumFunctionOnSet(f, s) = G(s)[s]
  BY SumIs
<1>4. \A s \in SUBSET S : G(s)[{}] = 0 /\ \A t \in SUBSET s : t # {} =>
        LET x == CHOOSE x \in t : TRUE IN G(s)[t] = f[x] + G(s)[t \ {x}]
  <2> TAKE s \in SUBSET S
  <2> DEFINE g == G(s)
  <2>1. Sums(f, s, g)
    BY <1>2
  <2> HIDE DEF g
  <2>2. g[{}] = 0 /\ \A t \in SUBSET s : t # {} =>
          LET x == CHOOSE x \in t : TRUE IN g[t] = f[x] + g[t \ {x}]
    BY <2>1 DEF Sums
  <2> QED BY <2>2 DEF g
<1> HIDE DEF G
<1> DEFINE T == {n \in Nat : \A s, r \in SUBSET S : \A t \in SUBSET s :
                   t \in SUBSET r /\ Cardinality(t) = n => G(s)[t] = G(r)[t]}
<1>5. 0 \in T
  <2> SUFFICES ASSUME NEW s \in SUBSET S, NEW r \in SUBSET S, NEW t \in SUBSET s,
                      t \in SUBSET r, Cardinality(t) = 0
               PROVE  G(s)[t] = G(r)[t]
    OBVIOUS
  <2>1. t = {}
    BY <1>1, FS_EmptySet
  <2> QED BY <1>4, <2>1
<1>6. ASSUME NEW n \in Nat, n \in T PROVE n + 1 \in T
  <2> SUFFICES ASSUME NEW s \in SUBSET S, NEW r \in SUBSET S, NEW t \in SUBSET s,
                      t \in SUBSET r, Cardinality(t) = n + 1
               PROVE  G(s)[t] = G(r)[t]
    OBVIOUS
  <2> DEFINE x == CHOOSE x \in t : TRUE
  <2>1. IsFiniteSet(t) /\ t # {}
    BY <1>1, FS_EmptySet
  <2>2. x \in t
    BY <2>1
  <2>3. Cardinality(t \ {x}) = n
    <3> HIDE DEF x
    <3> QED BY <2>1, <2>2, TakeOne
  <2>4. G(s)[t \ {x}] = G(r)[t \ {x}]
    BY <1>6, <2>3
  <2> QED BY <1>4, <2>1, <2>4
<1>7. \A n \in Nat : n \in T
  <2> HIDE DEF T
  <2> QED BY <1>5, <1>6, Induction
<1>8. \A s, r \in SUBSET S : \A t \in SUBSET s : t \in SUBSET r => G(s)[t] = G(r)[t]
  <2> SUFFICES ASSUME NEW s \in SUBSET S, NEW r \in SUBSET S, NEW t \in SUBSET s, t \in SUBSET r
               PROVE  G(s)[t] = G(r)[t]
    OBVIOUS
  <2>1. Cardinality(t) \in T
    BY <1>1, <1>7, FS_CardinalityType
  <2> QED BY <2>1
<1>9. SumFunctionOnSet(f, {}) = 0
  BY <1>3, <1>4
<1>10. ASSUME S # {}
       PROVE  LET x == CHOOSE x \in S : TRUE
              IN  SumFunctionOnSet(f, S) = f[x] + SumFunctionOnSet(f, S \ {x})
  <2> DEFINE x == CHOOSE x \in S : TRUE
  <2>1. G(S)[S] = f[x] + G(S)[S \ {x}]
    BY <1>4, <1>10
  <2>2. G(S)[S \ {x}] = G(S \ {x})[S \ {x}]
    BY <1>8
  <2>3. SumFunctionOnSet(f, S) = G(S)[S] /\ SumFunctionOnSet(f, S \ {x}) = G(S \ {x})[S \ {x}]
    <3> HIDE DEF x
    <3> QED BY <1>3
  <2> QED BY <2>1, <2>2, <2>3
<1> QED BY <1>9, <1>10

(* A sum of numbers is a number. *)
LEMMA SumType ==
    ASSUME NEW f, NEW S, IsFiniteSet(S), \A x \in S : f[x] \in Nat
    PROVE  SumFunctionOnSet(f, S) \in Nat
PROOF
<1> DEFINE T == {n \in Nat : \A s \in SUBSET S :
                   Cardinality(s) = n => SumFunctionOnSet(f, s) \in Nat}
<1>1. \A s \in SUBSET S : IsFiniteSet(s) /\ Cardinality(s) \in Nat
  BY FS_Subset, FS_CardinalityType
<1>2. 0 \in T
  <2>1. \A s \in SUBSET S : Cardinality(s) = 0 => s = {}
    BY <1>1, FS_EmptySet
  <2>2. SumFunctionOnSet(f, {}) = 0
    BY SumStep
  <2> QED BY <2>1, <2>2
<1>3. ASSUME NEW n \in Nat, n \in T PROVE n + 1 \in T
  <2> SUFFICES ASSUME NEW s \in SUBSET S, Cardinality(s) = n + 1
               PROVE  SumFunctionOnSet(f, s) \in Nat
    OBVIOUS
  <2> DEFINE x == CHOOSE x \in s : TRUE
  <2>1. s # {}
    BY FS_EmptySet
  <2>2. x \in s
    BY <2>1
  <2>3. SumFunctionOnSet(f, s) = f[x] + SumFunctionOnSet(f, s \ {x})
    BY <1>1, <2>1, SumStep
  <2> HIDE DEF x
  <2>4. Cardinality(s \ {x}) = n /\ s \ {x} \in SUBSET S /\ f[x] \in Nat
    BY <1>1, <2>2, TakeOne
  <2>5. SumFunctionOnSet(f, s \ {x}) \in Nat
    BY <1>3, <2>4
  <2> QED BY <2>3, <2>4, <2>5
<1>4. \A n \in Nat : n \in T
  <2> HIDE DEF T
  <2> QED BY <1>2, <1>3, Induction
<1>5. Cardinality(S) \in T
  BY <1>1, <1>4
<1> QED BY <1>5

(* Any element of a set may be summed first. *)
LEMMA SumRemove ==
    ASSUME NEW f, NEW S, IsFiniteSet(S), \A x \in S : f[x] \in Nat, NEW e \in S
    PROVE  SumFunctionOnSet(f, S) = f[e] + SumFunctionOnSet(f, S \ {e})
PROOF
<1> DEFINE T == {n \in Nat : \A s \in SUBSET S : \A d \in s : Cardinality(s) = n =>
                   SumFunctionOnSet(f, s) = f[d] + SumFunctionOnSet(f, s \ {d})}
<1>1. \A s \in SUBSET S : IsFiniteSet(s) /\ Cardinality(s) \in Nat /\ SumFunctionOnSet(f, s) \in Nat
  BY FS_Subset, FS_CardinalityType, SumType
<1>2. 0 \in T
  <2>1. \A s \in SUBSET S : Cardinality(s) = 0 => s = {}
    BY <1>1, FS_EmptySet
  <2> QED BY <2>1
<1>3. ASSUME NEW n \in Nat, n \in T PROVE n + 1 \in T
  <2> SUFFICES ASSUME NEW s \in SUBSET S, NEW d \in s, Cardinality(s) = n + 1
               PROVE  SumFunctionOnSet(f, s) = f[d] + SumFunctionOnSet(f, s \ {d})
    OBVIOUS
  <2> DEFINE x == CHOOSE x \in s : TRUE
  <2>1. x \in s
    OBVIOUS
  <2>2. SumFunctionOnSet(f, s) = f[x] + SumFunctionOnSet(f, s \ {x})
    BY <1>1, SumStep
  <2> HIDE DEF x
  <2>3. Cardinality(s \ {x}) = n /\ Cardinality(s \ {d}) = n
    <3>1. \A y \in s : Cardinality(s \ {y}) = n
      BY <1>1, TakeOne
    <3> QED BY <2>1, <3>1
  <2>4. CASE d = x
    BY <2>2, <2>4
  <2>5. CASE d # x
    <3>1. SumFunctionOnSet(f, s \ {x}) = f[d] + SumFunctionOnSet(f, (s \ {x}) \ {d})
      BY <1>3, <2>3, <2>5
    <3>2. SumFunctionOnSet(f, s \ {d}) = f[x] + SumFunctionOnSet(f, (s \ {d}) \ {x})
      BY <1>3, <2>1, <2>3, <2>5
    <3>3. (s \ {x}) \ {d} = (s \ {d}) \ {x}
      OBVIOUS
    <3>4. SumFunctionOnSet(f, (s \ {x}) \ {d}) \in Nat /\ f[d] \in Nat /\ f[x] \in Nat
      BY <1>1, <2>1
    <3> QED BY <2>2, <3>1, <3>2, <3>3, <3>4
  <2> QED BY <2>4, <2>5
<1>4. \A n \in Nat : n \in T
  <2> HIDE DEF T
  <2> QED BY <1>2, <1>3, Induction
<1>5. Cardinality(S) \in T
  BY <1>1, <1>4
<1> QED BY <1>5

(* A sum depends on the values that are summed, and on nothing else. *)
LEMMA SumSame ==
    ASSUME NEW f, NEW g, NEW S, IsFiniteSet(S), \A x \in S : f[x] \in Nat /\ g[x] = f[x]
    PROVE  SumFunctionOnSet(f, S) = SumFunctionOnSet(g, S)
PROOF
<1> DEFINE T == {n \in Nat : \A s \in SUBSET S :
                   Cardinality(s) = n => SumFunctionOnSet(f, s) = SumFunctionOnSet(g, s)}
<1>1. \A s \in SUBSET S : IsFiniteSet(s) /\ Cardinality(s) \in Nat
  BY FS_Subset, FS_CardinalityType
<1>2. 0 \in T
  <2>1. \A s \in SUBSET S : Cardinality(s) = 0 => s = {}
    BY <1>1, FS_EmptySet
  <2>2. SumFunctionOnSet(f, {}) = 0 /\ SumFunctionOnSet(g, {}) = 0
    BY SumStep
  <2> QED BY <2>1, <2>2
<1>3. ASSUME NEW n \in Nat, n \in T PROVE n + 1 \in T
  <2> SUFFICES ASSUME NEW s \in SUBSET S, Cardinality(s) = n + 1
               PROVE  SumFunctionOnSet(f, s) = SumFunctionOnSet(g, s)
    OBVIOUS
  <2> DEFINE x == CHOOSE x \in s : TRUE
  <2>1. s # {}
    BY FS_EmptySet
  <2>2. x \in s
    BY <2>1
  <2>3. /\ SumFunctionOnSet(f, s) = f[x] + SumFunctionOnSet(f, s \ {x})
        /\ SumFunctionOnSet(g, s) = g[x] + SumFunctionOnSet(g, s \ {x})
    BY <1>1, <2>1, SumStep
  <2> HIDE DEF x
  <2>4. Cardinality(s \ {x}) = n /\ s \ {x} \in SUBSET S /\ f[x] = g[x]
    BY <1>1, <2>2, TakeOne
  <2> QED BY <1>3, <2>3, <2>4
<1>4. \A n \in Nat : n \in T
  <2> HIDE DEF T
  <2> QED BY <1>2, <1>3, Induction
<1>5. Cardinality(S) \in T
  BY <1>1, <1>4
<1> QED BY <1>5

(* A set weighs no more than one that contains it. *)
LEMMA SumGrows ==
    ASSUME NEW f, NEW S, IsFiniteSet(S), \A x \in S : f[x] \in Nat, NEW s \in SUBSET S
    PROVE  SumFunctionOnSet(f, s) <= SumFunctionOnSet(f, S)
PROOF
<1> DEFINE T == {n \in Nat : \A r \in SUBSET S :
                   s \subseteq r /\ Cardinality(r) = n =>
                     SumFunctionOnSet(f, s) <= SumFunctionOnSet(f, r)}
<1>1. \A r \in SUBSET S : IsFiniteSet(r) /\ Cardinality(r) \in Nat /\ SumFunctionOnSet(f, r) \in Nat
  BY FS_Subset, FS_CardinalityType, SumType
<1>2. 0 \in T
  <2>1. \A r \in SUBSET S : Cardinality(r) = 0 => r = {}
    BY <1>1, FS_EmptySet
  <2>2. \A r \in SUBSET S : s \subseteq r /\ Cardinality(r) = 0 => s = r
    BY <2>1
  <2> QED BY <1>1, <2>2
<1>3. ASSUME NEW n \in Nat, n \in T PROVE n + 1 \in T
  <2> SUFFICES ASSUME NEW r \in SUBSET S, s \subseteq r, Cardinality(r) = n + 1
               PROVE  SumFunctionOnSet(f, s) <= SumFunctionOnSet(f, r)
    OBVIOUS
  <2>1. CASE s = r
    BY <1>1, <2>1
  <2>2. CASE s # r
    <3>1. PICK x \in r : x \notin s
      BY <2>2
    <3>2. SumFunctionOnSet(f, r) = f[x] + SumFunctionOnSet(f, r \ {x})
      BY <1>1, SumRemove
    <3>3. Cardinality(r \ {x}) = n /\ s \subseteq r \ {x}
      BY <1>1, <3>1, TakeOne
    <3>4. SumFunctionOnSet(f, s) <= SumFunctionOnSet(f, r \ {x})
      BY <1>3, <3>3
    <3> QED BY <1>1, <3>2, <3>4
  <2> QED BY <2>1, <2>2
<1>4. \A n \in Nat : n \in T
  <2> HIDE DEF T
  <2> QED BY <1>2, <1>3, Induction
<1>5. Cardinality(S) \in T
  BY <1>1, <1>4
<1> QED BY <1>5

(* The number of values times the largest of them bounds their sum. *)
LEMMA SumBound ==
    ASSUME NEW f, NEW S, IsFiniteSet(S), NEW m \in Nat, \A x \in S : f[x] \in Nat /\ f[x] <= m
    PROVE  SumFunctionOnSet(f, S) <= m * Cardinality(S)
PROOF
<1> DEFINE T == {n \in Nat : \A s \in SUBSET S :
                   Cardinality(s) = n => SumFunctionOnSet(f, s) <= m * n}
<1>1. \A s \in SUBSET S : IsFiniteSet(s) /\ Cardinality(s) \in Nat /\ SumFunctionOnSet(f, s) \in Nat
  BY FS_Subset, FS_CardinalityType, SumType
<1>2. 0 \in T
  <2>1. \A s \in SUBSET S : Cardinality(s) = 0 => s = {}
    BY <1>1, FS_EmptySet
  <2>2. SumFunctionOnSet(f, {}) = 0
    BY SumStep
  <2>3. m * 0 = 0
    OBVIOUS
  <2>4. \A s \in SUBSET S : Cardinality(s) = 0 => SumFunctionOnSet(f, s) <= m * 0
    <3> SUFFICES ASSUME NEW s \in SUBSET S, Cardinality(s) = 0
                 PROVE  SumFunctionOnSet(f, s) <= m * 0
      OBVIOUS
    <3>1. SumFunctionOnSet(f, s) = 0
      BY <2>1, <2>2
    <3> QED BY <2>3, <3>1
  <2> QED BY <2>4
<1>3. ASSUME NEW n \in Nat, n \in T PROVE n + 1 \in T
  <2> SUFFICES ASSUME NEW s \in SUBSET S, Cardinality(s) = n + 1
               PROVE  SumFunctionOnSet(f, s) <= m * (n + 1)
    OBVIOUS
  <2>1. PICK x \in s : TRUE
    BY FS_EmptySet
  <2>2. SumFunctionOnSet(f, s) = f[x] + SumFunctionOnSet(f, s \ {x})
    BY <1>1, SumRemove
  <2>3. Cardinality(s \ {x}) = n /\ s \ {x} \in SUBSET S
    BY <1>1, TakeOne
  <2>4. SumFunctionOnSet(f, s \ {x}) <= m * n
    BY <1>3, <2>3
  <2>5. m * (n + 1) = m * n + m /\ m * n \in Nat
    OBVIOUS
  <2> QED BY <1>1, <2>2, <2>3, <2>4, <2>5
<1>4. \A n \in Nat : n \in T
  <2> HIDE DEF T
  <2> QED BY <1>2, <1>3, Induction
<1>5. Cardinality(S) \in T
  BY <1>1, <1>4
<1> QED BY <1>5
=============================================================================
