-------------------------- MODULE BotAllocationProofs --------------------------
(***************************************************************************)
(* Machine-checked proofs about BotAllocation, and the facts about sums    *)
(* that they and the proofs about the scenarios rest on.                   *)
(***************************************************************************)
EXTENDS BotAllocation, FiniteSetTheorems, TLAPS

(* Induction, stated with sets: a predicate is given by the set of those   *)
(* for which it holds.                                                     *)

LEMMA LeastNumber ==
  ASSUME NEW T \in SUBSET Nat, T # {}
  PROVE  \E m \in T : \A n \in T : m <= n
<1>1. PICK m \in T : \A n \in T : ~ (<<n, m>> \in OpToRel(<, Nat))
  BY NatLessThanWellFounded, WFMin
<1>2. \A n \in T : ~ (n < m)
  BY <1>1 DEF OpToRel
<1> QED
  BY <1>2

\* A set is good if it is when all are good that have one element less: then
\* all subsets of a finite set are.
LEMMA SubsetInduction ==
  ASSUME NEW S, IsFiniteSet(S), NEW Good,
         \A T \in SUBSET S : (\A x \in T : T \ {x} \in Good) => T \in Good
  PROVE  \A T \in SUBSET S : T \in Good
<1> SUFFICES ASSUME NEW B \in SUBSET S, B \notin Good PROVE FALSE
  OBVIOUS
<1> DEFINE Sizes == {n \in Nat : \E T \in SUBSET S : T \notin Good /\ n = Cardinality(T)}
<1>1. \A T \in SUBSET S : IsFiniteSet(T) /\ Cardinality(T) \in Nat
  BY FS_Subset, FS_CardinalityType
<1>2. Cardinality(B) \in Sizes
  BY <1>1
<1>3. PICK m \in Sizes : \A n \in Sizes : m <= n
  <2> HIDE DEF Sizes
  <2>1. Sizes \in SUBSET Nat
    BY DEF Sizes
  <2> QED
    BY <1>2, <2>1, LeastNumber
<1>4. PICK T \in SUBSET S : T \notin Good /\ m = Cardinality(T)
  OBVIOUS
<1>5. PICK x \in T : T \ {x} \notin Good
  BY <1>4
<1>6. T \ {x} \in SUBSET S /\ Cardinality(T \ {x}) = m - 1
  BY <1>1, <1>4, FS_RemoveElement
<1>7. m - 1 \in Sizes
  BY <1>1, <1>5, <1>6
<1> QED
  BY <1>3, <1>7

(* Sums. *)

\* What the library's fold does at the subsets of S, as an equation. It takes
\* the elements in the order in which CHOOSE gives them.
First(s) == CHOOSE x \in s : TRUE
Unfolds(h, f, S) ==
    h = [s \in SUBSET S |-> IF s = {} THEN 0 ELSE f[First(s)] + h[s \ {First(s)}]]

LEMMA FirstOf == \A s : s # {} => First(s) \in s
  BY DEF First

\* There is such a function, by induction on the size of the subsets.
LEMMA SumExists ==
  ASSUME NEW f, NEW S, IsFiniteSet(S)
  PROVE  \E h : Unfolds(h, f, S)
<1> DEFINE Upto(n) == {s \in SUBSET S : Cardinality(s) <= n}
           Holds(h, n) == \A s \in Upto(n) :
                             h[s] = IF s = {} THEN 0 ELSE f[First(s)] + h[s \ {First(s)}]
           Next(h) == [s \in SUBSET S |-> IF s = {} THEN 0 ELSE f[First(s)] + h[s \ {First(s)}]]
           Bad == {n \in Nat : ~ \E h : Holds(h, n)}
<1>1. \A s \in SUBSET S : IsFiniteSet(s) /\ Cardinality(s) \in Nat
  BY FS_Subset, FS_CardinalityType
<1>2. ASSUME NEW n \in Nat, n = 0 \/ n - 1 \notin Bad PROVE n \notin Bad
  <2>1. PICK h : n = 0 \/ Holds(h, n - 1)
    <3>1. CASE n = 0
      BY <3>1
    <3>2. CASE n # 0
      <4>1. n - 1 \in Nat
        BY <3>2
      <4> QED
        BY <1>2, <3>2, <4>1
    <3> QED
      BY <3>1, <3>2
  <2>2. ASSUME NEW s \in Upto(n), s # {}
        PROVE  Next(h)[s \ {First(s)}] = h[s \ {First(s)}]
    <3> DEFINE r == s \ {First(s)}
    <3>1. First(s) \in s
      BY <2>2, FirstOf
    <3>2. r \in SUBSET S /\ Cardinality(r) = Cardinality(s) - 1 /\ Cardinality(s) <= n
      BY <1>1, <3>1, FS_RemoveElement
    <3>3. n # 0
      BY <1>1, <3>2
    <3>4. r \in Upto(n - 1)
      BY <1>1, <3>2
    <3> QED
      BY <2>1, <3>3, <3>4
  <2>3. Holds(Next(h), n)
    BY <2>2
  <2> QED
    BY <2>3
<1>3. Bad = {}
  <2> SUFFICES ASSUME Bad # {} PROVE FALSE
    OBVIOUS
  <2> HIDE DEF Bad, Holds
  <2>1. Bad \in SUBSET Nat
    BY DEF Bad
  <2>2. PICK m \in Bad : \A n \in Bad : m <= n
    BY <2>1, LeastNumber
  <2>3. m = 0 \/ m - 1 \notin Bad
    BY <2>1, <2>2
  <2> QED
    BY <1>2, <2>1, <2>3
<1>4. Cardinality(S) \in Nat /\ \A s \in SUBSET S : Cardinality(s) <= Cardinality(S)
  BY FS_Subset, FS_CardinalityType
<1>5. PICK h : Holds(h, Cardinality(S))
  BY <1>3, <1>4
<1>6. \A s \in SUBSET S : s # {} => s \ {First(s)} \in SUBSET S
  OBVIOUS
<1>7. Unfolds(Next(h), f, S)
  <2>1. \A s \in SUBSET S : Next(h)[s] = h[s]
    BY <1>4, <1>5
  <2>2. \A s \in SUBSET S : s # {} => Next(h)[s \ {First(s)}] = h[s \ {First(s)}]
    BY <1>6, <2>1
  <2> QED
    BY <2>2 DEF Unfolds
<1> QED
  BY <1>7

\* What it does to a subset does not depend on the set it was defined for.
LEMMA SumUnique ==
  ASSUME NEW f, NEW S, IsFiniteSet(S), NEW T \in SUBSET S, NEW g, NEW h,
         Unfolds(g, f, S), Unfolds(h, f, T)
  PROVE  g[T] = h[T]
<1> DEFINE Good == {s \in SUBSET T : g[s] = h[s]}
<1>1. IsFiniteSet(T)
  BY FS_Subset
<1>2. ASSUME NEW s \in SUBSET T, \A x \in s : s \ {x} \in Good PROVE s \in Good
  <2>1. CASE s = {}
    BY <2>1 DEF Unfolds
  <2>2. CASE s # {}
    <3>1. g[s \ {First(s)}] = h[s \ {First(s)}]
      BY <1>2, <2>2, FirstOf
    <3>2. g[s] = f[First(s)] + g[s \ {First(s)}] /\ h[s] = f[First(s)] + h[s \ {First(s)}]
      BY <2>2 DEF Unfolds
    <3> QED
      BY <3>1, <3>2
  <2> QED
    BY <2>1, <2>2
<1> HIDE DEF Good
<1>3. T \in Good
  BY <1>1, <1>2, SubsetInduction
<1> QED
  BY <1>3 DEF Good

LEMMA SumIsFold ==
  ASSUME NEW f, NEW S
  PROVE  SumFunctionOnSet(f, S) = (CHOOSE h : Unfolds(h, f, S))[S]
BY DEF SumFunctionOnSet, FoldFunctionOnSet, MapThenFoldSet, Unfolds, First

LEMMA SumOf ==
  ASSUME NEW f, NEW S, IsFiniteSet(S), NEW T \in SUBSET S, NEW g, Unfolds(g, f, S)
  PROVE  SumFunctionOnSet(f, T) = g[T]
<1> DEFINE h == CHOOSE h : Unfolds(h, f, T)
<1>1. IsFiniteSet(T)
  BY FS_Subset
<1>2. Unfolds(h, f, T)
  BY <1>1, SumExists
<1>3. SumFunctionOnSet(f, T) = h[T]
  BY SumIsFold
<1> HIDE DEF h
<1> QED
  BY <1>2, <1>3, SumUnique

LEMMA SumFirst ==
  ASSUME NEW f, NEW S, IsFiniteSet(S)
  PROVE  SumFunctionOnSet(f, S) =
            IF S = {} THEN 0 ELSE f[First(S)] + SumFunctionOnSet(f, S \ {First(S)})
<1>1. PICK g : Unfolds(g, f, S)
  BY SumExists
<1>2. SumFunctionOnSet(f, S) = g[S]
      /\ SumFunctionOnSet(f, S \ {First(S)}) = g[S \ {First(S)}]
  BY <1>1, SumOf
<1> QED
  BY <1>1, <1>2 DEF Unfolds

LEMMA SumEmpty == ASSUME NEW f PROVE SumFunctionOnSet(f, {}) = 0
BY SumFirst, FS_EmptySet

\* A sum of integers is one, and a sum of naturals.
LEMMA SumType ==
  ASSUME NEW f, NEW S, IsFiniteSet(S), NEW N \in {Int, Nat}, \A x \in S : f[x] \in N
  PROVE  SumFunctionOnSet(f, S) \in N
<1> DEFINE Good == {s \in SUBSET S : SumFunctionOnSet(f, s) \in N}
<1>1. ASSUME NEW s \in SUBSET S, \A x \in s : s \ {x} \in Good PROVE s \in Good
  <2>1. IsFiniteSet(s)
    BY FS_Subset
  <2>2. CASE s = {}
    BY <2>2, SumEmpty
  <2>3. CASE s # {}
    <3>1. First(s) \in s
      BY <2>3, FirstOf
    <3>2. SumFunctionOnSet(f, s) = f[First(s)] + SumFunctionOnSet(f, s \ {First(s)})
      BY <2>1, <2>3, SumFirst
    <3>3. f[First(s)] \in N /\ SumFunctionOnSet(f, s \ {First(s)}) \in N
      BY <1>1, <3>1
    <3> QED
      BY <3>2, <3>3
  <2> QED
    BY <2>2, <2>3
<1> HIDE DEF Good
<1>2. \A s \in SUBSET S : s \in Good
  BY <1>1, SubsetInduction
<1> QED
  BY <1>2 DEF Good

\* Any element may be taken out, not only the first.
LEMMA SumRemove ==
  ASSUME NEW f, NEW S, IsFiniteSet(S), \A x \in S : f[x] \in Int
  PROVE  \A x \in S : SumFunctionOnSet(f, S) = f[x] + SumFunctionOnSet(f, S \ {x})
<1> DEFINE Sum(s) == SumFunctionOnSet(f, s)
           Good == {s \in SUBSET S : \A x \in s : Sum(s) = f[x] + Sum(s \ {x})}
<1>1. \A s \in SUBSET S : IsFiniteSet(s)
  BY FS_Subset
<1>2. \A s \in SUBSET S : Sum(s) \in Int
  BY <1>1, SumType
<1>3. \A s \in SUBSET S : s # {} => First(s) \in s /\ Sum(s) = f[First(s)] + Sum(s \ {First(s)})
  BY <1>1, SumFirst, FirstOf
<1> HIDE DEF Sum
<1>4. ASSUME NEW s \in SUBSET S, \A x \in s : s \ {x} \in Good PROVE s \in Good
  <2> SUFFICES ASSUME NEW x \in s PROVE Sum(s) = f[x] + Sum(s \ {x})
    OBVIOUS
  <2> DEFINE p == First(s)
             r == (s \ {p}) \ {x}
  <2>1. p \in s /\ Sum(s) = f[p] + Sum(s \ {p})
    BY <1>3
  <2> HIDE DEF p
  <2>2. CASE x = p
    BY <2>1, <2>2
  <2>3. CASE x # p
    <3>1. Sum(s \ {p}) = f[x] + Sum(r)
      BY <1>4, <2>1, <2>3
    <3>2. Sum(s \ {x}) = f[p] + Sum((s \ {x}) \ {p})
      BY <1>4, <2>1, <2>3
    <3>3. (s \ {x}) \ {p} = r
      OBVIOUS
    <3>4. f[x] \in Int /\ f[p] \in Int /\ Sum(r) \in Int
      BY <1>2, <2>1
    <3> HIDE DEF r, Good
    <3>5. Sum(s \ {x}) = f[p] + Sum(r)
      BY <3>2, <3>3
    <3>6. Sum(s) = f[p] + (f[x] + Sum(r))
      BY <2>1, <3>1
    <3>7. \A a, b, c \in Int : a + (b + c) = b + (a + c)
      OBVIOUS
    <3> QED
      BY <3>4, <3>5, <3>6, <3>7
  <2> QED
    BY <2>2, <2>3
<1> HIDE DEF Good
<1>5. \A s \in SUBSET S : s \in Good
  BY <1>4, SubsetInduction
<1> QED
  BY <1>5 DEF Good, Sum

\* Sums add up, and so do multiples.
LEMMA SumAdd ==
  ASSUME NEW f, NEW g, NEW h, NEW S, IsFiniteSet(S),
         \A x \in S : f[x] \in Int /\ g[x] \in Int /\ h[x] = f[x] + g[x]
  PROVE  SumFunctionOnSet(h, S) = SumFunctionOnSet(f, S) + SumFunctionOnSet(g, S)
<1> DEFINE F(s) == SumFunctionOnSet(f, s)
           G(s) == SumFunctionOnSet(g, s)
           H(s) == SumFunctionOnSet(h, s)
           Good == {s \in SUBSET S : H(s) = F(s) + G(s)}
<1>1. \A s \in SUBSET S : IsFiniteSet(s)
  BY FS_Subset
<1>2. \A s \in SUBSET S : \A x \in s : f[x] \in Int /\ g[x] \in Int /\ h[x] \in Int
  OBVIOUS
<1>3. \A s \in SUBSET S : F(s) \in Int /\ G(s) \in Int
  BY <1>1, <1>2, SumType
<1>4. \A s \in SUBSET S : \A x \in s :
         F(s) = f[x] + F(s \ {x}) /\ G(s) = g[x] + G(s \ {x}) /\ H(s) = h[x] + H(s \ {x})
  <2> SUFFICES ASSUME NEW s \in SUBSET S
               PROVE  \A x \in s : /\ F(s) = f[x] + F(s \ {x})
                                   /\ G(s) = g[x] + G(s \ {x})
                                   /\ H(s) = h[x] + H(s \ {x})
    OBVIOUS
  <2>1. IsFiniteSet(s) /\ \A x \in s : f[x] \in Int /\ g[x] \in Int /\ h[x] \in Int
    BY <1>1, <1>2
  <2>2. \A x \in s : F(s) = f[x] + F(s \ {x})
    BY <2>1, SumRemove
  <2>3. \A x \in s : G(s) = g[x] + G(s \ {x})
    BY <2>1, SumRemove
  <2>4. \A x \in s : H(s) = h[x] + H(s \ {x})
    BY <2>1, SumRemove
  <2> QED
    BY <2>2, <2>3, <2>4
<1>5. F({}) = 0 /\ G({}) = 0 /\ H({}) = 0
  BY SumEmpty
<1> HIDE DEF F, G, H
<1>6. ASSUME NEW s \in SUBSET S, \A x \in s : s \ {x} \in Good PROVE s \in Good
  <2>1. CASE s = {}
    BY <1>5, <2>1
  <2>2. CASE s # {}
    <3>1. PICK x \in s : TRUE
      BY <2>2
    <3>2. H(s \ {x}) = F(s \ {x}) + G(s \ {x})
      BY <1>6
    <3>3. f[x] \in Int /\ g[x] \in Int /\ F(s \ {x}) \in Int /\ G(s \ {x}) \in Int
      BY <1>3
    <3> QED
      BY <1>4, <3>2, <3>3
  <2> QED
    BY <2>1, <2>2
<1> HIDE DEF Good
<1>7. \A s \in SUBSET S : s \in Good
  BY <1>6, SubsetInduction
<1> QED
  BY <1>7 DEF Good, F, G, H

LEMMA SumMultiple ==
  ASSUME NEW f, NEW h, NEW S, IsFiniteSet(S), NEW a \in Int,
         \A x \in S : f[x] \in Int /\ h[x] = a * f[x]
  PROVE  SumFunctionOnSet(h, S) = a * SumFunctionOnSet(f, S)
<1> DEFINE F(s) == SumFunctionOnSet(f, s)
           H(s) == SumFunctionOnSet(h, s)
           Good == {s \in SUBSET S : H(s) = a * F(s)}
<1>1. \A s \in SUBSET S : IsFiniteSet(s)
  BY FS_Subset
<1>2. \A s \in SUBSET S : \A x \in s : f[x] \in Int /\ h[x] \in Int
  OBVIOUS
<1>3. \A s \in SUBSET S : F(s) \in Int
  BY <1>1, <1>2, SumType
<1>4. \A s \in SUBSET S : \A x \in s : F(s) = f[x] + F(s \ {x}) /\ H(s) = h[x] + H(s \ {x})
  <2> SUFFICES ASSUME NEW s \in SUBSET S
               PROVE  \A x \in s : F(s) = f[x] + F(s \ {x}) /\ H(s) = h[x] + H(s \ {x})
    OBVIOUS
  <2>1. IsFiniteSet(s) /\ \A x \in s : f[x] \in Int /\ h[x] \in Int
    BY <1>1, <1>2
  <2>2. \A x \in s : F(s) = f[x] + F(s \ {x})
    BY <2>1, SumRemove
  <2>3. \A x \in s : H(s) = h[x] + H(s \ {x})
    BY <2>1, SumRemove
  <2> QED
    BY <2>2, <2>3
<1>5. F({}) = 0 /\ H({}) = 0
  BY SumEmpty
<1> HIDE DEF F, H
<1>6. \A u, v \in Int : a * (u + v) = a * u + a * v
  OBVIOUS
<1>7. ASSUME NEW s \in SUBSET S, \A x \in s : s \ {x} \in Good PROVE s \in Good
  <2>1. CASE s = {}
    BY <1>5, <2>1
  <2>2. CASE s # {}
    <3>1. PICK x \in s : TRUE
      BY <2>2
    <3>2. H(s) = a * f[x] + a * F(s \ {x})
      BY <1>4, <1>7
    <3>3. f[x] \in Int /\ F(s \ {x}) \in Int
      BY <1>3
    <3>4. H(s) = a * (f[x] + F(s \ {x}))
      BY <1>6, <3>2, <3>3
    <3> QED
      BY <1>4, <3>4
  <2> QED
    BY <2>1, <2>2
<1> HIDE DEF Good
<1>8. \A s \in SUBSET S : s \in Good
  BY <1>7, SubsetInduction
<1> QED
  BY <1>8 DEF Good, F, H

\* A sum of smaller terms is smaller, and strictly so if one of them is.
LEMMA SumMonotone ==
  ASSUME NEW f, NEW g, NEW S, IsFiniteSet(S),
         \A x \in S : f[x] \in Int /\ g[x] \in Int /\ f[x] <= g[x]
  PROVE  /\ SumFunctionOnSet(f, S) <= SumFunctionOnSet(g, S)
         /\ (\E x \in S : f[x] < g[x]) => SumFunctionOnSet(f, S) < SumFunctionOnSet(g, S)
<1> DEFINE d == [x \in S |-> g[x] - f[x]]
<1>1. \A x \in S : d[x] \in Nat /\ f[x] \in Int /\ g[x] = f[x] + d[x]
  OBVIOUS
<1>2. \A x \in S : f[x] < g[x] => d[x] > 0
  OBVIOUS
<1> HIDE DEF d
<1>3. SumFunctionOnSet(g, S) = SumFunctionOnSet(f, S) + SumFunctionOnSet(d, S)
  <2>1. \A x \in S : f[x] \in Int /\ d[x] \in Int /\ g[x] = f[x] + d[x]
    BY <1>1
  <2> QED
    BY <2>1, SumAdd
<1>4. SumFunctionOnSet(f, S) \in Int
  BY SumType
<1>5. SumFunctionOnSet(d, S) \in Nat
  BY <1>1, SumType
<1>6. ASSUME NEW x \in S, f[x] < g[x] PROVE SumFunctionOnSet(d, S) > 0
  <2>1. SumFunctionOnSet(d, S) = d[x] + SumFunctionOnSet(d, S \ {x})
    BY <1>1, SumRemove
  <2>2. SumFunctionOnSet(d, S \ {x}) \in Nat
    <3>1. IsFiniteSet(S \ {x}) /\ \A y \in S \ {x} : d[y] \in Nat
      BY <1>1, FS_RemoveElement
    <3> QED
      BY <3>1, SumType
  <2>3. d[x] \in Nat /\ d[x] > 0
    BY <1>1, <1>2, <1>6
  <2> QED
    BY <2>1, <2>2, <2>3
<1> QED
  BY <1>3, <1>4, <1>5, <1>6

LEMMA SumSame ==
  ASSUME NEW f, NEW g, NEW S, IsFiniteSet(S), \A x \in S : f[x] \in Int /\ g[x] = f[x]
  PROVE  SumFunctionOnSet(g, S) = SumFunctionOnSet(f, S)
<1>1. /\ \A x \in S : f[x] \in Int /\ g[x] \in Int /\ f[x] <= g[x]
      /\ \A x \in S : g[x] \in Int /\ f[x] \in Int /\ g[x] <= f[x]
  OBVIOUS
<1>2. SumFunctionOnSet(f, S) <= SumFunctionOnSet(g, S)
  BY <1>1, SumMonotone
<1>3. SumFunctionOnSet(g, S) <= SumFunctionOnSet(f, S)
  BY <1>1, SumMonotone
<1>4. SumFunctionOnSet(f, S) \in Int /\ SumFunctionOnSet(g, S) \in Int
  BY <1>1, SumType
<1> QED
  BY <1>2, <1>3, <1>4

\* A sum of ones counts.
LEMMA SumCounts ==
  ASSUME NEW A, NEW S, IsFiniteSet(S), NEW f,
         \A x \in S : f[x] = IF x \in A THEN 1 ELSE 0
  PROVE  SumFunctionOnSet(f, S) = Cardinality({x \in S : x \in A})
<1> DEFINE F(s) == SumFunctionOnSet(f, s)
           C(s) == {x \in s : x \in A}
           Good == {s \in SUBSET S : F(s) = Cardinality(C(s))}
<1>1. \A s \in SUBSET S : IsFiniteSet(s) /\ IsFiniteSet(C(s)) /\ Cardinality(C(s)) \in Nat
  <2>1. \A s \in SUBSET S : C(s) \in SUBSET S
    OBVIOUS
  <2> HIDE DEF C
  <2> QED
    BY <2>1, FS_Subset, FS_CardinalityType
<1>2. \A s \in SUBSET S : \A x \in s : F(s) = f[x] + F(s \ {x})
  <2>1. \A x \in S : f[x] \in Int
    OBVIOUS
  <2> QED
    BY <1>1, <2>1, SumRemove
<1>3. F({}) = 0
  BY SumEmpty
<1> HIDE DEF F
<1>4. ASSUME NEW s \in SUBSET S, \A x \in s : s \ {x} \in Good PROVE s \in Good
  <2>1. CASE s = {}
    BY <1>3, <2>1, FS_EmptySet
  <2>2. CASE s # {}
    <3>1. PICK x \in s : TRUE
      BY <2>2
    <3>2. F(s \ {x}) = Cardinality(C(s \ {x}))
      BY <1>4
    <3>3. C(s \ {x}) = C(s) \ {x}
      OBVIOUS
    <3>4. Cardinality(C(s) \ {x}) = IF x \in C(s) THEN Cardinality(C(s)) - 1 ELSE Cardinality(C(s))
      BY <1>1, FS_RemoveElement
    <3>5. F(s) = f[x] + F(s \ {x})
      BY <1>2
    <3>6. Cardinality(C(s)) \in Nat
      BY <1>1
    <3>7. CASE x \in A
      <4>1. f[x] = 1 /\ x \in C(s)
        BY <3>7
      <4> HIDE DEF C, Good
      <4>2. F(s) = 1 + (Cardinality(C(s)) - 1)
        BY <3>2, <3>3, <3>4, <3>5, <4>1
      <4> QED
        BY <3>6, <4>2 DEF Good
    <3>8. CASE x \notin A
      <4>1. f[x] = 0 /\ x \notin C(s)
        BY <3>8
      <4> HIDE DEF C, Good
      <4>2. F(s) = 0 + Cardinality(C(s))
        BY <3>2, <3>3, <3>4, <3>5, <4>1
      <4> QED
        BY <3>6, <4>2 DEF Good
    <3> QED
      BY <3>7, <3>8
  <2> QED
    BY <2>1, <2>2
<1> HIDE DEF Good
<1>5. \A s \in SUBSET S : s \in Good
  BY <1>4, SubsetInduction
<1> QED
  BY <1>5 DEF Good, F

LEMMA SumConstant ==
  ASSUME NEW S, IsFiniteSet(S), NEW c \in Int, NEW f, \A x \in S : f[x] = c
  PROVE  SumFunctionOnSet(f, S) = c * Cardinality(S)
<1> DEFINE one == [x \in S |-> 1]
<1>1. SumFunctionOnSet(one, S) = Cardinality(S)
  <2>1. \A x \in S : one[x] = IF x \in S THEN 1 ELSE 0
    OBVIOUS
  <2> HIDE DEF one
  <2>2. {x \in S : x \in S} = S
    OBVIOUS
  <2> QED
    BY <2>1, <2>2, SumCounts
<1>2. \A x \in S : one[x] \in Int /\ f[x] = c * one[x]
  OBVIOUS
<1> HIDE DEF one
<1>3. SumFunctionOnSet(f, S) = c * SumFunctionOnSet(one, S)
  BY <1>2, SumMultiple
<1> QED
  BY <1>1, <1>3

(* The allocation. *)

LEMMA Division ==
  ASSUME NEW a \in Nat, NEW b \in Nat \ {0}
  PROVE  a \div b \in Nat /\ b * (a \div b) <= a /\ a < b * (a \div b) + b
OBVIOUS

\* A ratio text that parses is a non-empty sequence of positive ratios.
LEMMA ParsedText ==
  ASSUME NEW spec \in SpecText, Parses(spec)
  PROVE  /\ DOMAIN spec = 1 .. Len(spec) /\ Len(spec) \in Nat \ {0}
         /\ IsFiniteSet(DOMAIN spec) /\ Cardinality(DOMAIN spec) = Len(spec)
         /\ \A i \in DOMAIN spec : spec[i].type \in BotType /\ spec[i].ratio \in Nat \ {0}
<1>1. DOMAIN spec = 1 .. Len(spec) /\ Len(spec) \in Nat \ {0}
  BY DEF SpecText, Parses
<1>2. \A i \in DOMAIN spec : spec[i].type \in BotType /\ spec[i].ratio \in Nat \ {0}
  BY RatioLimitAssumption DEF Parses
<1>3. IsFiniteSet(1 .. Len(spec)) /\ Cardinality(1 .. Len(spec)) = Len(spec)
  BY <1>1, FS_Interval
<1> QED
  BY <1>1, <1>2, <1>3

LEMMA RatioSumType ==
  ASSUME NEW spec \in SpecText, Parses(spec)
  PROVE  /\ ExactRatioSum(spec) \in Nat \ {0}
         /\ RatioSum(spec) \in Nat
         /\ ~Overflows(spec) => RatioSum(spec) = ExactRatioSum(spec)
<1> DEFINE r == [i \in DOMAIN spec |-> spec[i].ratio]
<1>1. DOMAIN r = DOMAIN spec /\ \A i \in DOMAIN spec : r[i] \in Nat /\ r[i] > 0
  BY ParsedText
<1>2. IsFiniteSet(DOMAIN spec) /\ 1 \in DOMAIN spec
  BY ParsedText
<1>3. ExactRatioSum(spec) = SumFunctionOnSet(r, DOMAIN spec)
  BY DEF ExactRatioSum, SumFunction
<1> HIDE DEF r
<1>4. SumFunctionOnSet(r, DOMAIN spec) = r[1] + SumFunctionOnSet(r, DOMAIN spec \ {1})
  BY <1>1, <1>2, SumRemove
<1>5. SumFunctionOnSet(r, DOMAIN spec \ {1}) \in Nat
  <2>1. IsFiniteSet(DOMAIN spec \ {1})
    BY <1>2, FS_RemoveElement
  <2> QED
    BY <1>1, <2>1, SumType
<1>6. ExactRatioSum(spec) \in Nat \ {0}
  BY <1>1, <1>2, <1>3, <1>4, <1>5
<1> QED
  BY <1>6, RatioLimitAssumption DEF RatioSum, Overflows

\* Whatever the sum has become, the floors are natural numbers.
LEMMA FloorType ==
  ASSUME NEW spec \in SpecText, Parses(spec), NEW total \in Nat, RatioSum(spec) # 0
  PROVE  /\ DOMAIN Floor(total, spec) = DOMAIN spec
         /\ \A i \in DOMAIN spec :
               LET floor == Floor(total, spec)[i]
               IN  /\ floor \in Nat
                   /\ RatioSum(spec) * floor <= total * spec[i].ratio
                   /\ total * spec[i].ratio < RatioSum(spec) * floor + RatioSum(spec)
         /\ SumFunction(Floor(total, spec)) \in Nat
<1> DEFINE F == Floor(total, spec)
           S == RatioSum(spec)
<1>1. DOMAIN F = DOMAIN spec /\ \A i \in DOMAIN spec : F[i] = (total * spec[i].ratio) \div S
  BY DEF Floor
<1>2. S \in Nat \ {0}
  BY RatioSumType
<1> HIDE DEF F, S
<1>3. \A i \in DOMAIN spec : /\ F[i] \in Nat
                             /\ S * F[i] <= total * spec[i].ratio
                             /\ total * spec[i].ratio < S * F[i] + S
  <2> SUFFICES ASSUME NEW i \in DOMAIN spec
               PROVE  /\ F[i] \in Nat
                      /\ S * F[i] <= total * spec[i].ratio
                      /\ total * spec[i].ratio < S * F[i] + S
    OBVIOUS
  <2>1. spec[i].ratio \in Nat
    BY ParsedText
  <2>2. total * spec[i].ratio \in Nat
    BY <2>1
  <2> QED
    BY <1>1, <1>2, <2>2, Division
<1>4. SumFunction(F) \in Nat
  BY <1>1, <1>3, ParsedText, SumType DEF SumFunction
<1> QED
  BY <1>1, <1>3, <1>4 DEF F, S

LEMMA RemainderType ==
  ASSUME NEW spec \in SpecText, Parses(spec), NEW total \in Nat, RatioSum(spec) # 0
  PROVE  Remainder(total, spec) \in Nat
BY FloorType DEF Remainder

\* Who comes before whom when the remainder is handed out.
Precedes(spec, j, i) ==
    \/ spec[j].ratio > spec[i].ratio
    \/ spec[j].ratio = spec[i].ratio /\ j < i

\* Ranks are the places from 0 on, each taken once.
LEMMA RankIsPlace ==
  ASSUME NEW spec \in SpecText, Parses(spec)
  PROVE  /\ \A i \in DOMAIN spec : Rank(spec, i) \in 0 .. Len(spec) - 1
         /\ \A i, j \in DOMAIN spec : Precedes(spec, j, i) <=> Rank(spec, j) < Rank(spec, i)
         /\ \A k \in 0 .. Len(spec) - 1 : \E i \in DOMAIN spec : Rank(spec, i) = k
<1> DEFINE D == DOMAIN spec
           Ahead(i) == {j \in D : Precedes(spec, j, i)}
<1>1. /\ D = 1 .. Len(spec) /\ Len(spec) \in Nat \ {0}
      /\ IsFiniteSet(D) /\ Cardinality(D) = Len(spec)
      /\ \A i \in D : spec[i].ratio \in Nat
  BY ParsedText
<1>2. \A i : Rank(spec, i) = Cardinality(Ahead(i))
  BY DEF Rank, Precedes
<1>3. /\ \A i \in D : ~Precedes(spec, i, i)
      /\ \A i, j \in D : i # j => (Precedes(spec, j, i) <=> ~Precedes(spec, i, j))
      /\ \A i, j, k \in D : Precedes(spec, k, j) /\ Precedes(spec, j, i) => Precedes(spec, k, i)
  BY <1>1 DEF Precedes
<1> HIDE DEF D
<1>4. \A i \in D : IsFiniteSet(Ahead(i)) /\ Cardinality(Ahead(i)) \in Nat
  <2>1. \A i \in D : Ahead(i) \in SUBSET D
    OBVIOUS
  <2> HIDE DEF Ahead
  <2> QED
    BY <1>1, <2>1, FS_Subset, FS_CardinalityType
<1>5. ASSUME NEW i \in D PROVE Cardinality(Ahead(i)) \in 0 .. Len(spec) - 1
  <2>1. Ahead(i) \in SUBSET (D \ {i})
    BY <1>3
  <2>2. IsFiniteSet(D \ {i}) /\ Cardinality(D \ {i}) = Len(spec) - 1
    BY <1>1, FS_RemoveElement
  <2> HIDE DEF Ahead
  <2>3. Cardinality(Ahead(i)) <= Len(spec) - 1
    BY <2>1, <2>2, FS_Subset
  <2> QED
    BY <1>1, <1>4, <2>3
<1>6. ASSUME NEW i \in D, NEW j \in D, Precedes(spec, j, i)
      PROVE  Cardinality(Ahead(j)) < Cardinality(Ahead(i))
  <2>1. Ahead(j) \cup {j} \in SUBSET Ahead(i) /\ j \notin Ahead(j)
    BY <1>3, <1>6
  <2> HIDE DEF Ahead
  <2>2. Cardinality(Ahead(j) \cup {j}) = Cardinality(Ahead(j)) + 1
    BY <1>4, <2>1, FS_AddElement
  <2>3. Cardinality(Ahead(j) \cup {j}) <= Cardinality(Ahead(i))
    BY <1>4, <2>1, FS_Subset
  <2> QED
    BY <1>4, <2>2, <2>3
<1> HIDE DEF Ahead
<1>7. \A i, j \in D : Precedes(spec, j, i) <=> Cardinality(Ahead(j)) < Cardinality(Ahead(i))
  <2> SUFFICES ASSUME NEW i \in D, NEW j \in D,
                      Cardinality(Ahead(j)) < Cardinality(Ahead(i)), ~Precedes(spec, j, i)
               PROVE  FALSE
    BY <1>6
  <2>1. CASE i = j
    BY <1>4, <2>1
  <2>2. CASE i # j
    <3>1. Precedes(spec, i, j)
      BY <1>3, <2>2
    <3>2. Cardinality(Ahead(i)) < Cardinality(Ahead(j))
      BY <1>6, <3>1
    <3> QED
      BY <1>4, <3>2
  <2> QED
    BY <2>1, <2>2
<1>8. ASSUME NEW k \in 0 .. Len(spec) - 1 PROVE \E i \in D : Cardinality(Ahead(i)) = k
  <2> DEFINE f == [i \in D |-> Cardinality(Ahead(i))]
             T == 0 .. Len(spec) - 1
  <2>1. IsFiniteSet(T) /\ Cardinality(T) = Len(spec)
    <3>1. PICK m \in Nat : m = Len(spec) - 1
      BY <1>1
    <3>2. IsFiniteSet(0 .. m) /\ Cardinality(0 .. m) = m + 1
      BY FS_Interval
    <3> QED
      BY <1>1, <3>1, <3>2
  <2>2. f \in Injection(D, T)
    <3>1. \A i, j \in D : i # j => Cardinality(Ahead(i)) # Cardinality(Ahead(j))
      BY <1>3, <1>4, <1>7
    <3>2. f \in [D -> T] /\ \A i, j \in D : f[i] = f[j] => i = j
      BY <1>5, <3>1
    <3> HIDE DEF f, T
    <3> QED
      BY <3>2 DEF Injection, IsInjective
  <2> HIDE DEF f, T
  <2>3. f \in Surjection(D, T)
    BY <1>1, <2>1, <2>2, FS_Injection
  <2> QED
    BY <2>3 DEF Surjection, f, T
<1> QED
  BY <1>2, <1>5, <1>7, <1>8 DEF D

\* allocate (mod.rs:284-324) gives natural numbers, even when the u32 sum of
\* the ratios has wrapped.
LEMMA AllocateType ==
  ASSUME NEW spec \in SpecText, Parses(spec), NEW total \in Nat, RatioSum(spec) # 0
  PROVE  Allocate(total, spec) \in [DOMAIN spec -> Nat]
<1> DEFINE Turns(i) == {k \in 0 .. Remainder(total, spec) - 1 : k % Len(spec) = Rank(spec, i)}
<1>1. PICK R \in Nat : R = Remainder(total, spec)
  BY RemainderType
<1>2. IsFiniteSet(0 .. R - 1)
  <2>1. PICK m \in Int : m = R - 1
    OBVIOUS
  <2> QED
    BY <2>1, FS_Interval
<1>3. ASSUME NEW i PROVE Cardinality(Turns(i)) \in Nat
  <2>1. Turns(i) \in SUBSET (0 .. R - 1)
    BY <1>1
  <2> HIDE DEF Turns
  <2> QED
    BY <1>2, <2>1, FS_Subset, FS_CardinalityType
<1>4. Allocate(total, spec)
         = [i \in DOMAIN spec |-> Floor(total, spec)[i] + Cardinality(Turns(i))]
  BY DEF Allocate
<1> HIDE DEF Turns
<1>5. \A i \in DOMAIN spec : Floor(total, spec)[i] + Cardinality(Turns(i)) \in Nat
  BY <1>3, FloorType
<1> QED
  BY <1>4, <1>5

\* Without overflow the floors add up to the total or to less than the number
\* of entries below it, so that the loop goes round at most once.
LEMMA RemainderBound ==
  ASSUME NEW spec \in SpecText, Parses(spec), NEW total \in Nat, ~Overflows(spec)
  PROVE  /\ Remainder(total, spec) \in 0 .. Len(spec) - 1
         /\ SumFunction(Floor(total, spec)) + Remainder(total, spec) = total
<1> DEFINE D == DOMAIN spec
           S == RatioSum(spec)
           F == Floor(total, spec)
           r == [i \in D |-> spec[i].ratio]
           n == Len(spec)
           low == [i \in D |-> S * F[i]]
           mid == [i \in D |-> total * r[i]]
           gap == [i \in D |-> S - 1]
           up == [i \in D |-> low[i] + gap[i]]
           Sum(f) == SumFunctionOnSet(f, D)
<1>1. S \in Nat \ {0} /\ S = ExactRatioSum(spec)
  BY RatioSumType
<1>2. S = Sum(r)
  BY <1>1 DEF ExactRatioSum, SumFunction
<1>3. /\ IsFiniteSet(D) /\ Cardinality(D) = n /\ n \in Nat \ {0}
      /\ \A i \in D : spec[i].ratio \in Nat
  BY ParsedText
<1>4. /\ DOMAIN F = D
      /\ \A i \in D : /\ F[i] \in Nat
                      /\ S * F[i] <= total * spec[i].ratio
                      /\ total * spec[i].ratio < S * F[i] + S
  BY <1>1, FloorType
<1>5. SumFunction(F) = Sum(F)
  BY <1>4 DEF SumFunction
<1> HIDE DEF S, F, D, n
<1>6. /\ \A i \in D : r[i] \in Int /\ mid[i] = total * r[i]
      /\ \A i \in D : F[i] \in Int /\ low[i] = S * F[i]
      /\ \A i \in D : gap[i] = S - 1
      /\ \A i \in D : low[i] \in Int /\ mid[i] \in Int /\ low[i] <= mid[i]
      /\ \A i \in D : low[i] \in Int /\ gap[i] \in Int /\ up[i] = low[i] + gap[i]
      /\ \A i \in D : mid[i] \in Int /\ up[i] \in Int /\ mid[i] <= up[i]
  <2> SUFFICES ASSUME NEW i \in D
               PROVE  /\ r[i] \in Int /\ mid[i] = total * r[i]
                      /\ F[i] \in Int /\ low[i] = S * F[i]
                      /\ gap[i] = S - 1
                      /\ low[i] \in Int /\ mid[i] \in Int /\ low[i] <= mid[i]
                      /\ low[i] \in Int /\ gap[i] \in Int /\ up[i] = low[i] + gap[i]
                      /\ mid[i] \in Int /\ up[i] \in Int /\ mid[i] <= up[i]
    OBVIOUS
  <2>1. S * F[i] \in Int /\ total * spec[i].ratio \in Int
    BY <1>1, <1>3, <1>4
  <2> QED
    BY <1>1, <1>3, <1>4, <2>1
<1> HIDE DEF r, low, mid, gap, up
<1>7. Sum(mid) = total * S
  BY <1>2, <1>3, <1>6, SumMultiple
<1>8. Sum(low) = S * Sum(F)
  <2>1. S \in Int
    BY <1>1
  <2> QED
    BY <1>3, <1>6, <2>1, SumMultiple
<1>9. Sum(gap) = (S - 1) * n
  <2>1. PICK c \in Int : c = S - 1
    BY <1>1
  <2>2. Sum(gap) = c * n
    BY <1>3, <1>6, <2>1, SumConstant
  <2> QED
    BY <2>1, <2>2
<1>10. Sum(low) <= Sum(mid)
  BY <1>3, <1>6, SumMonotone
<1>11. Sum(mid) <= Sum(up)
  BY <1>3, <1>6, SumMonotone
<1>12. Sum(up) = Sum(low) + Sum(gap)
  BY <1>3, <1>6, SumAdd
<1>13. Sum(F) \in Nat
  BY <1>3, <1>4, SumType
<1> HIDE DEF Sum
<1>14. Sum(F) <= total
  <2>1. S * Sum(F) <= total * S
    BY <1>7, <1>8, <1>10
  <2> QED
    BY <1>1, <1>13, <2>1
<1>15. total < Sum(F) + n
  <2>1. total * S <= S * Sum(F) + (S - 1) * n
    BY <1>7, <1>8, <1>9, <1>11, <1>12
  <2>2. S * total < S * (Sum(F) + n)
    BY <1>1, <1>3, <1>13, <2>1
  <2> QED
    BY <1>1, <1>3, <1>13, <2>2
<1>16. Remainder(total, spec) = total - Sum(F)
  BY <1>5, <1>13, <1>14 DEF Remainder, F
<1> QED
  BY <1>3, <1>5, <1>13, <1>14, <1>15, <1>16 DEF F, n

\* An entry gets one bot more if its rank is below the remainder.
LEMMA ExtraOfRank ==
  ASSUME NEW spec \in SpecText, Parses(spec), NEW total \in Nat, ~Overflows(spec),
         NEW i \in DOMAIN spec
  PROVE  Allocate(total, spec)[i] =
            Floor(total, spec)[i]
            + (IF Rank(spec, i) < Remainder(total, spec) THEN 1 ELSE 0)
<1> DEFINE R == Remainder(total, spec)
           n == Len(spec)
           rank == Rank(spec, i)
           Turns == {k \in 0 .. R - 1 : k % n = rank}
<1>1. R \in 0 .. n - 1 /\ n \in Nat \ {0} /\ rank \in 0 .. n - 1
  BY ParsedText, RemainderBound, RankIsPlace
<1>2. Allocate(total, spec)[i] = Floor(total, spec)[i] + Cardinality(Turns)
  BY DEF Allocate
<1> HIDE DEF R, n, rank
<1>3. \A k \in 0 .. R - 1 : k % n = k
  BY <1>1
<1>4. CASE rank < R
  <2>1. Turns = {rank}
    BY <1>1, <1>3, <1>4
  <2>2. Cardinality(Turns) = 1
    BY <2>1, FS_Singleton
  <2> QED
    BY <1>2, <1>4, <2>2 DEF R, rank
<1>5. CASE ~(rank < R)
  <2>1. Turns = {}
    BY <1>1, <1>3, <1>5
  <2>2. Cardinality(Turns) = 0
    BY <2>1, FS_EmptySet
  <2> QED
    BY <1>2, <1>5, <2>2 DEF R, rank
<1> QED
  BY <1>4, <1>5

\* As many entries are ranked below the remainder as it says.
LEMMA ExtraCount ==
  ASSUME NEW spec \in SpecText, Parses(spec), NEW R \in 0 .. Len(spec) - 1
  PROVE  Cardinality({i \in DOMAIN spec : Rank(spec, i) < R}) = R
<1> DEFINE A == {i \in DOMAIN spec : Rank(spec, i) < R}
           f == [i \in A |-> Rank(spec, i)]
           T == 0 .. R - 1
<1>1. /\ \A i \in DOMAIN spec : Rank(spec, i) \in 0 .. Len(spec) - 1 /\ i \in Nat
      /\ \A k \in 0 .. Len(spec) - 1 : \E i \in DOMAIN spec : Rank(spec, i) = k
      /\ Len(spec) \in Nat \ {0}
  BY RankIsPlace, ParsedText
<1>2. \A i, j \in DOMAIN spec : Rank(spec, i) = Rank(spec, j) => i = j
  <2> SUFFICES ASSUME NEW i \in DOMAIN spec, NEW j \in DOMAIN spec,
                      Rank(spec, i) = Rank(spec, j), i # j
               PROVE  FALSE
    OBVIOUS
  <2>1. Precedes(spec, i, j) \/ Precedes(spec, j, i)
    BY ParsedText DEF Precedes
  <2>2. Rank(spec, i) < Rank(spec, j) \/ Rank(spec, j) < Rank(spec, i)
    BY <2>1, RankIsPlace
  <2> QED
    BY <1>1, <2>2
<1>3. f \in [A -> T] /\ (\A i, j \in A : f[i] = f[j] => i = j) /\ \A k \in T : \E i \in A : f[i] = k
  <2>1. \A i \in A : Rank(spec, i) \in T
    BY <1>1
  <2>2. \A k \in T : \E i \in A : Rank(spec, i) = k
    BY <1>1
  <2> QED
    BY <1>2, <2>1, <2>2
<1>4. IsFiniteSet(T) /\ Cardinality(T) = R
  <2>1. PICK m \in Int : m = R - 1 /\ m >= -1
    BY <1>1
  <2>2. IsFiniteSet(0 .. m) /\ Cardinality(0 .. m) = IF 0 > m THEN 0 ELSE m - 0 + 1
    BY FS_Interval
  <2> QED
    BY <2>1, <2>2
<1>5. IsFiniteSet(A)
  <2>1. A \in SUBSET DOMAIN spec
    OBVIOUS
  <2> HIDE DEF A
  <2> QED
    BY <2>1, ParsedText, FS_Subset
<1> HIDE DEF A, f, T
<1>6. f \in Injection(A, T) /\ f \in Surjection(A, T)
  BY <1>3 DEF Injection, Surjection, IsInjective
<1>7. Cardinality(A) = Cardinality(T)
  BY <1>4, <1>6, FS_Injection
<1> QED
  BY <1>4, <1>7 DEF A

(* allocate (mod.rs:284-324) for any total and any ratios whose sum does not
   overflow: the bots add up to the total, every entry gets its share rounded
   down or one bot more, and the larger ratios come first. *)
THEOREM AllocateSound ==
  ASSUME NEW spec \in SpecText, Parses(spec), NEW total \in Nat, ~Overflows(spec)
  PROVE  SoundAllocation(total, spec, Allocate(total, spec))
<1> DEFINE D == DOMAIN spec
           S == RatioSum(spec)
           R == Remainder(total, spec)
           F == Floor(total, spec)
           a == Allocate(total, spec)
           rank == [i \in D |-> Rank(spec, i)]
           extra == [i \in D |-> IF rank[i] < R THEN 1 ELSE 0]
           Sum(f) == SumFunctionOnSet(f, D)
<1>1. S \in Nat \ {0} /\ S = ExactRatioSum(spec)
  BY RatioSumType
<1>2. IsFiniteSet(D) /\ D = 1 .. Len(spec)
  BY ParsedText
<1>3. R \in 0 .. Len(spec) - 1 /\ Sum(F) + R = total
  <2>1. DOMAIN F = D
    BY DEF Floor
  <2> HIDE DEF F
  <2> QED
    BY <2>1, RemainderBound DEF SumFunction, F
<1>4. \A i \in D : F[i] \in Int /\ extra[i] \in Int /\ a[i] = F[i] + extra[i]
  <2>1. \A i \in D : F[i] \in Nat
    BY <1>1, FloorType
  <2>2. \A i \in D : a[i] = F[i] + (IF rank[i] < R THEN 1 ELSE 0)
    BY ExtraOfRank
  <2> HIDE DEF F, a, rank, R
  <2> QED
    BY <2>1, <2>2
<1>5. DOMAIN a = D /\ \A i \in D : F[i] = (total * spec[i].ratio) \div ExactRatioSum(spec)
  BY <1>1 DEF Allocate, Floor
<1>6. \A i, j \in D : rank[i] < R /\ ~(rank[j] < R) => Precedes(spec, i, j)
  <2>1. \A i, j \in D : Rank(spec, i) < Rank(spec, j) => Precedes(spec, i, j)
    BY RankIsPlace
  <2>2. \A i \in D : Rank(spec, i) \in Nat
    BY <1>2, RankIsPlace
  <2> QED
    BY <1>3, <2>1, <2>2
<1>7. Sum(extra) = R
  <2> DEFINE A == {i \in D : rank[i] < R}
  <2>1. Cardinality({i \in D : Rank(spec, i) < R}) = R
    BY <1>3, ExtraCount
  <2>2. {i \in D : Rank(spec, i) < R} = {i \in D : i \in A}
    OBVIOUS
  <2>3. \A i \in D : extra[i] = IF i \in A THEN 1 ELSE 0
    OBVIOUS
  <2> HIDE DEF A, extra, rank, R, D
  <2>4. Sum(extra) = Cardinality({i \in D : i \in A})
    BY <1>2, <2>3, SumCounts
  <2> QED
    BY <2>1, <2>2, <2>4
<1>8. Sum(a) = total
  <2> HIDE DEF D, F, extra, a
  <2>1. Sum(a) = Sum(F) + Sum(extra)
    BY <1>2, <1>4, SumAdd
  <2> QED
    BY <1>3, <1>7, <2>1
<1>9. SumFunction(a) = total
  BY <1>5, <1>8 DEF SumFunction
<1>10. \A i \in D : a[i] = F[i] + (IF rank[i] < R THEN 1 ELSE 0)
  <2> HIDE DEF a, F, rank, R
  <2> QED
    BY <1>4
<1>11. \A i \in D : F[i] \in Int
  BY <1>4
<1> HIDE DEF a, F, rank, R, extra
<1> QED
  BY <1>5, <1>6, <1>9, <1>10, <1>11 DEF SoundAllocation, Precedes, a
==============================================================================
