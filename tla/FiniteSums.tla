----------------------------- MODULE FiniteSums -----------------------------
(***************************************************************************)
(* Lemmas about SumFunctionOnSet, for the sums in VenueEntry and in         *)
(* DebtLiquidation.  The library defines it by a recursive function over    *)
(* the subsets of the set, which takes an element at a time, whichever      *)
(* CHOOSE yields.  That this function exists, and that the order does not   *)
(* matter, is shown by taking a smallest counterexample.                    *)
(***************************************************************************)
EXTENDS Integers, FiniteSets, Functions, FiniteSetTheorems, WellFoundedInduction, TLAPS

\* The element the recursion takes first, and what it computes from a function g.
First(s) == CHOOSE x \in s : TRUE
Unfold(g, f, s) == IF s = {} THEN 0 ELSE f[First(s)] + g[s \ {First(s)}]
Iter(f, S) == CHOOSE g : g = [s \in SUBSET S |-> Unfold(g, f, s)]

LEMMA SumIsIter ==
  ASSUME NEW f, NEW S
  PROVE  SumFunctionOnSet(f, S) = Iter(f, S)[S]
BY DEF SumFunctionOnSet, FoldFunctionOnSet, MapThenFoldSet, Iter, Unfold, First

LEMMA FirstIn == ASSUME NEW s, s # {} PROVE First(s) \in s
BY DEF First

\* A set of numbers has a smallest one.
LEMMA Smallest ==
  ASSUME NEW T, T \subseteq Nat, T # {}
  PROVE  \E i \in T : \A j \in T : i <= j
<1>1. \E i \in T : \A j \in T : ~(<<j, i>> \in OpToRel(<, Nat))
  BY NatLessThanWellFounded, WFMin
<1>2. PICK i \in T : \A j \in T : ~(<<j, i>> \in OpToRel(<, Nat))
  BY <1>1
<1>3. \A j \in T : ~(j < i)
  BY <1>2 DEF OpToRel
<1> QED
  BY <1>3

\* Induction over the subsets of a finite set, for a property given as the set P of
\* the subsets that have it.
LEMMA StrongInduction ==
  ASSUME NEW S, IsFiniteSet(S), NEW P,
         \A T \in SUBSET S : (\A U \in SUBSET T : U # T => U \in P) => T \in P
  PROVE  \A T \in SUBSET S : T \in P
<1> DEFINE R == StrictSubsetOrdering(S)
           F == FiniteSubsetsOf(S)
           B == F \ P
<1>1. F = SUBSET S
  BY FS_FiniteSubsetsOfFinite
<1> SUFFICES ASSUME B # {}
             PROVE  FALSE
  BY <1>1
<1>2. IsWellFoundedOn(R, F)
  BY FS_StrictSubsetOrderingWellFounded
<1>3. B \subseteq F
  OBVIOUS
<1>4. PICK T \in B : \A U \in B : ~(<<U, T>> \in R)
  <2> HIDE DEF R, F, B
  <2> QED
    BY <1>2, <1>3, WFMin
<1>5. T \in SUBSET S /\ T \notin P
  BY <1>1
<1>6. ASSUME NEW U \in SUBSET T, U # T
      PROVE  U \in P
  <2>1. U \in SUBSET S
    BY <1>5
  <2>2. <<U, T>> \in R
    BY <1>5, <1>6, <2>1 DEF StrictSubsetOrdering
  <2> QED
    BY <1>1, <1>4, <2>1, <2>2
<1> QED
  BY <1>5, <1>6

LEMMA SubsetInduction ==
  ASSUME NEW S, IsFiniteSet(S), NEW P, {} \in P,
         \A T \in SUBSET S : T # {} /\ T \ {First(T)} \in P => T \in P
  PROVE  \A T \in SUBSET S : T \in P
<1>1. ASSUME NEW T \in SUBSET S, \A U \in SUBSET T : U # T => U \in P
      PROVE  T \in P
  <2>1. CASE T # {}
    <3>1. First(T) \in T
      BY <2>1, FirstIn
    <3>2. T \ {First(T)} \in SUBSET T /\ T \ {First(T)} # T
      BY <3>1
    <3> QED
      BY <1>1, <2>1, <3>2
  <2> QED
    BY <2>1
<1> QED
  BY <1>1, StrongInduction

\* The recursive function exists.
LEMMA IterExists ==
  ASSUME NEW f, NEW S, IsFiniteSet(S)
  PROVE  \E g : g = [s \in SUBSET S |-> Unfold(g, f, s)]
<1> DEFINE Sub(n) == {s \in SUBSET S : Cardinality(s) <= n}
           Q(n) == \E g : g = [s \in Sub(n) |-> Unfold(g, f, s)]
           B == {n \in Nat : ~Q(n)}
<1>1. \A s \in SUBSET S : IsFiniteSet(s) /\ Cardinality(s) \in Nat
                          /\ Cardinality(s) <= Cardinality(S)
  BY FS_Subset, FS_CardinalityType
<1>2. Cardinality(S) \in Nat /\ SUBSET S = Sub(Cardinality(S))
  BY <1>1, FS_CardinalityType
<1>3. ASSUME NEW s \in SUBSET S, s # {}
      PROVE  /\ s \ {First(s)} \in SUBSET S
             /\ Cardinality(s \ {First(s)}) = Cardinality(s) - 1
  BY <1>1, <1>3, FirstIn, FS_RemoveElement
<1>4. Q(0)
  <2> DEFINE g == [s \in Sub(0) |-> 0]
  <2>1. \A s \in Sub(0) : s = {}
    BY <1>1, FS_EmptySet
  <2>2. \A s \in Sub(0) : Unfold(g, f, s) = 0
    BY <2>1 DEF Unfold
  <2>3. g = [s \in Sub(0) |-> Unfold(g, f, s)]
    BY <2>2
  <2> QED
    BY <2>3
<1>5. ASSUME NEW n \in Nat, Q(n)
      PROVE  Q(n + 1)
  <2>1. PICK g : g = [s \in Sub(n) |-> Unfold(g, f, s)]
    BY <1>5
  <2> DEFINE k == [s \in Sub(n + 1) |-> Unfold(g, f, s)]
  <2>2. ASSUME NEW s \in Sub(n + 1)
        PROVE  k[s] = Unfold(k, f, s)
    <3>1. CASE s = {}
      BY <3>1 DEF Unfold
    <3>2. CASE s # {}
      <4> DEFINE r == s \ {First(s)}
      <4>1. r \in SUBSET S /\ Cardinality(r) = Cardinality(s) - 1
        BY <1>3, <3>2
      <4>2. Cardinality(s) \in Nat /\ Cardinality(s) <= n + 1
        BY <1>1
      <4>3. r \in Sub(n) /\ r \in Sub(n + 1)
        BY <4>1, <4>2
      <4>4. g[r] = Unfold(g, f, r)
        BY <2>1, <4>3
      <4>5. k[r] = Unfold(g, f, r)
        BY <4>3
      <4>6. k[r] = g[r] /\ k[s] = Unfold(g, f, s)
        BY <4>4, <4>5
      <4> HIDE DEF k
      <4> QED
        BY <3>2, <4>6 DEF Unfold
    <3> QED
      BY <3>1, <3>2
  <2>3. k = [s \in Sub(n + 1) |-> Unfold(k, f, s)]
    BY <2>2
  <2> QED
    BY <2>3
<1> HIDE DEF Q
<1>6. B = {}
  <2> SUFFICES ASSUME B # {}
               PROVE  FALSE
    OBVIOUS
  <2>1. B \subseteq Nat
    OBVIOUS
  <2>2. PICK m \in B : \A j \in B : m <= j
    <3> HIDE DEF B
    <3> QED
      BY <2>1, Smallest
  <2>3. m \in Nat /\ m # 0 /\ ~Q(m)
    BY <1>4
  <2>4. m - 1 \in Nat /\ ~(m <= m - 1) /\ (m - 1) + 1 = m
    BY <2>3
  <2>5. Q(m - 1)
    BY <2>2, <2>4
  <2> QED
    BY <1>5, <2>3, <2>4, <2>5
<1>7. Q(Cardinality(S))
  BY <1>2, <1>6
<1> QED
  BY <1>2, <1>7 DEF Q

LEMMA IterUnfolds ==
  ASSUME NEW f, NEW S, IsFiniteSet(S), NEW s \in SUBSET S
  PROVE  Iter(f, S)[s] = Unfold(Iter(f, S), f, s)
<1>1. Iter(f, S) = [t \in SUBSET S |-> Unfold(Iter(f, S), f, t)]
  BY IterExists DEF Iter
<1> QED
  BY <1>1

\* It computes the same for a subset.
LEMMA IterRestricts ==
  ASSUME NEW f, NEW S, IsFiniteSet(S), NEW T \in SUBSET S
  PROVE  Iter(f, T)[T] = Iter(f, S)[T]
<1> DEFINE P == {s \in SUBSET T : Iter(f, T)[s] = Iter(f, S)[s]}
<1>1. IsFiniteSet(T)
  BY FS_Subset
<1>2. ASSUME NEW s \in SUBSET T
      PROVE  /\ Iter(f, T)[s] = Unfold(Iter(f, T), f, s)
             /\ Iter(f, S)[s] = Unfold(Iter(f, S), f, s)
  BY <1>1, IterUnfolds
<1>3. {} \in P
  BY <1>2 DEF Unfold
<1>4. ASSUME NEW s \in SUBSET T, s # {}, s \ {First(s)} \in P
      PROVE  s \in P
  BY <1>2, <1>4 DEF Unfold
<1>5. \A s \in SUBSET T : s \in P
  <2> HIDE DEF P
  <2> QED
    BY <1>1, <1>3, <1>4, SubsetInduction
<1> QED
  BY <1>5

LEMMA SumEmpty == ASSUME NEW f PROVE SumFunctionOnSet(f, {}) = 0
<1>1. IsFiniteSet({})
  BY FS_EmptySet
<1>2. Iter(f, {})[{}] = Unfold(Iter(f, {}), f, {})
  BY <1>1, IterUnfolds
<1> QED
  BY <1>2, SumIsIter DEF Unfold

LEMMA SumFirst ==
  ASSUME NEW f, NEW S, IsFiniteSet(S), S # {}
  PROVE  SumFunctionOnSet(f, S) = f[First(S)] + SumFunctionOnSet(f, S \ {First(S)})
<1>1. Iter(f, S)[S] = Unfold(Iter(f, S), f, S)
  BY IterUnfolds
<1>2. Iter(f, S \ {First(S)})[S \ {First(S)}] = Iter(f, S)[S \ {First(S)}]
  BY IterRestricts
<1>3. /\ SumFunctionOnSet(f, S) = Iter(f, S)[S]
      /\ SumFunctionOnSet(f, S \ {First(S)}) = Iter(f, S \ {First(S)})[S \ {First(S)}]
  BY SumIsIter
<1> QED
  BY <1>1, <1>2, <1>3 DEF Unfold

\* Sum(f, S) is an integer, of integers.
LEMMA SumInt ==
  ASSUME NEW f, NEW S, IsFiniteSet(S), \A x \in S : f[x] \in Int
  PROVE  SumFunctionOnSet(f, S) \in Int
<1> DEFINE P == {T \in SUBSET S : SumFunctionOnSet(f, T) \in Int}
<1>1. {} \in P
  BY SumEmpty
<1>2. ASSUME NEW T \in SUBSET S, T # {}, T \ {First(T)} \in P
      PROVE  T \in P
  <2>1. SumFunctionOnSet(f, T) = f[First(T)] + SumFunctionOnSet(f, T \ {First(T)})
    BY <1>2, SumFirst, FS_Subset
  <2>2. f[First(T)] \in Int
    BY <1>2, FirstIn
  <2> QED
    BY <1>2, <2>1, <2>2
<1>3. \A T \in SUBSET S : T \in P
  <2> HIDE DEF P
  <2> QED
    BY <1>1, <1>2, SubsetInduction
<1> QED
  BY <1>3

\* The order does not matter: any element can be taken first.
LEMMA SumTake ==
  ASSUME NEW f, NEW S, IsFiniteSet(S), \A x \in S : f[x] \in Int, NEW x \in S
  PROVE  SumFunctionOnSet(f, S) = f[x] + SumFunctionOnSet(f, S \ {x})
<1> DEFINE Sum(T) == SumFunctionOnSet(f, T)
           P == {T \in SUBSET S : \A y \in T : Sum(T) = f[y] + Sum(T \ {y})}
<1>1. \A T \in SUBSET S : IsFiniteSet(T) /\ Sum(T) \in Int
  BY FS_Subset, SumInt
<1>2. \A T \in SUBSET S : T # {} => First(T) \in T /\ Sum(T) = f[First(T)] + Sum(T \ {First(T)})
  BY <1>1, SumFirst, FirstIn
<1> HIDE DEF Sum
<1>3. ASSUME NEW T \in SUBSET S, \A U \in SUBSET T : U # T => U \in P
      PROVE  T \in P
  <2> SUFFICES ASSUME NEW y \in T
               PROVE  Sum(T) = f[y] + Sum(T \ {y})
    OBVIOUS
  <2> DEFINE c == First(T)
  <2>1. c \in T /\ Sum(T) = f[c] + Sum(T \ {c})
    BY <1>2
  <2> HIDE DEF c
  <2>2. CASE y = c
    BY <2>1, <2>2
  <2>3. CASE y # c
    <3> DEFINE r == T \ {c, y}
    <3>1. T \ {c} \in P /\ T \ {y} \in P
      BY <1>3, <2>1
    <3>2. (T \ {c}) \ {y} = r /\ (T \ {y}) \ {c} = r /\ c \in T \ {y} /\ y \in T \ {c}
      BY <2>1, <2>3
    <3>3. Sum(T \ {c}) = f[y] + Sum(r) /\ Sum(T \ {y}) = f[c] + Sum(r)
      BY <3>1, <3>2
    <3>4. f[y] \in Int /\ f[c] \in Int /\ Sum(r) \in Int
      BY <1>1, <2>1
    <3> QED
      BY <2>1, <3>3, <3>4
  <2> QED
    BY <2>2, <2>3
<1>4. \A T \in SUBSET S : T \in P
  <2> HIDE DEF P
  <2> QED
    BY <1>3, StrongInduction
<1> QED
  BY <1>4 DEF Sum

\* Only the values on the set count.
LEMMA SumSame ==
  ASSUME NEW f, NEW g, NEW S, IsFiniteSet(S), \A x \in S : f[x] = g[x]
  PROVE  SumFunctionOnSet(f, S) = SumFunctionOnSet(g, S)
<1> DEFINE P == {T \in SUBSET S : SumFunctionOnSet(f, T) = SumFunctionOnSet(g, T)}
<1>1. {} \in P
  BY SumEmpty
<1>2. ASSUME NEW T \in SUBSET S, T # {}, T \ {First(T)} \in P
      PROVE  T \in P
  <2>1. IsFiniteSet(T) /\ First(T) \in T
    BY <1>2, FirstIn, FS_Subset
  <2>2. /\ SumFunctionOnSet(f, T) = f[First(T)] + SumFunctionOnSet(f, T \ {First(T)})
        /\ SumFunctionOnSet(g, T) = g[First(T)] + SumFunctionOnSet(g, T \ {First(T)})
    BY <1>2, <2>1, SumFirst
  <2>3. f[First(T)] = g[First(T)]
    BY <2>1
  <2> QED
    BY <1>2, <2>2, <2>3
<1>3. \A T \in SUBSET S : T \in P
  <2> HIDE DEF P
  <2> QED
    BY <1>1, <1>2, SubsetInduction
<1> QED
  BY <1>3

\* One value is replaced.
LEMMA SumUpdate ==
  ASSUME NEW f, NEW g, NEW S, IsFiniteSet(S), NEW x \in S,
         \A y \in S : f[y] \in Int /\ g[y] \in Int, \A y \in S \ {x} : g[y] = f[y]
  PROVE  SumFunctionOnSet(g, S) = SumFunctionOnSet(f, S) - f[x] + g[x]
<1>1. IsFiniteSet(S \ {x})
  BY FS_RemoveElement
<1>2. SumFunctionOnSet(g, S \ {x}) = SumFunctionOnSet(f, S \ {x})
  BY <1>1, SumSame
<1>3. /\ SumFunctionOnSet(f, S) = f[x] + SumFunctionOnSet(f, S \ {x})
      /\ SumFunctionOnSet(g, S) = g[x] + SumFunctionOnSet(g, S \ {x})
  BY SumTake
<1>4. SumFunctionOnSet(f, S \ {x}) \in Int
  BY <1>1, SumInt
<1> QED
  BY <1>2, <1>3, <1>4

\* The sum over two sets without common elements.
LEMMA SumUnion ==
  ASSUME NEW f, NEW A, NEW B, IsFiniteSet(A), IsFiniteSet(B), A \cap B = {},
         \A x \in A \cup B : f[x] \in Int
  PROVE  SumFunctionOnSet(f, A \cup B) = SumFunctionOnSet(f, A) + SumFunctionOnSet(f, B)
<1> DEFINE Sum(T) == SumFunctionOnSet(f, T)
           P == {T \in SUBSET A : Sum(T \cup B) = Sum(T) + Sum(B)}
<1>1. \A T \in SUBSET A : IsFiniteSet(T) /\ IsFiniteSet(T \cup B)
                          /\ Sum(T) \in Int /\ Sum(T \cup B) \in Int
  BY FS_Subset, FS_Union, SumInt
<1>2. Sum(B) \in Int /\ Sum({}) = 0
  BY SumInt, SumEmpty
<1>3. {} \in P
  <2>1. {} \cup B = B
    OBVIOUS
  <2> HIDE DEF Sum
  <2> QED
    BY <1>2, <2>1
<1>4. ASSUME NEW T \in SUBSET A, T # {}, T \ {First(T)} \in P
      PROVE  T \in P
  <2> DEFINE x == First(T)
             r == T \ {x}
  <2>1. x \in T
    BY <1>4, FirstIn
  <2>2. Sum(T) = f[x] + Sum(r)
    <3>1. IsFiniteSet(T) /\ \A y \in T : f[y] \in Int
      BY <1>1
    <3> HIDE DEF x
    <3> QED
      BY <2>1, <3>1, SumTake
  <2>3. Sum(T \cup B) = f[x] + Sum((T \cup B) \ {x})
    <3>1. IsFiniteSet(T \cup B) /\ (\A y \in T \cup B : f[y] \in Int) /\ x \in T \cup B
      BY <1>1, <2>1
    <3> HIDE DEF x
    <3> QED
      BY <3>1, SumTake
  <2>4. (T \cup B) \ {x} = r \cup B
    BY <2>1
  <2>5. Sum(r \cup B) = Sum(r) + Sum(B)
    BY <1>4
  <2>6. f[x] \in Int /\ Sum(r) \in Int
    BY <1>1, <2>1
  <2>7. Sum(T \cup B) = f[x] + Sum(r \cup B)
    BY <2>3, <2>4
  <2>8. Sum(T \cup B) = Sum(T) + Sum(B)
    <3> HIDE DEF Sum, x, r
    <3> QED
      BY <1>2, <2>2, <2>5, <2>6, <2>7
  <2> QED
    BY <2>8
<1>5. \A T \in SUBSET A : T \in P
  <2> HIDE DEF P
  <2> QED
    BY <1>3, <1>4, SubsetInduction
<1> QED
  BY <1>5

LEMMA SumParts ==
  ASSUME NEW f, NEW U, IsFiniteSet(U), \A x \in U : f[x] \in Int,
         NEW A, A \subseteq U, NEW B, B = U \ A
  PROVE  /\ SumFunctionOnSet(f, A) \in Int /\ SumFunctionOnSet(f, B) \in Int
         /\ SumFunctionOnSet(f, U) = SumFunctionOnSet(f, A) + SumFunctionOnSet(f, B)
<1>1. U = A \cup B /\ A \cap B = {} /\ B \subseteq U
  OBVIOUS
<1>2. IsFiniteSet(A) /\ IsFiniteSet(B)
  BY <1>1, FS_Subset
<1>3. /\ \A x \in A : f[x] \in Int
      /\ \A x \in B : f[x] \in Int
      /\ \A x \in A \cup B : f[x] \in Int
  BY <1>1
<1>4. SumFunctionOnSet(f, A) \in Int /\ SumFunctionOnSet(f, B) \in Int
  BY <1>2, <1>3, SumInt
<1>5. SumFunctionOnSet(f, A \cup B) = SumFunctionOnSet(f, A) + SumFunctionOnSet(f, B)
  BY <1>1, <1>2, <1>3, SumUnion
<1> QED
  BY <1>1, <1>4, <1>5

LEMMA SumSplit ==
  ASSUME NEW f, NEW U, IsFiniteSet(U), \A x \in U : f[x] \in Int, NEW A, A \subseteq U
  PROVE  /\ SumFunctionOnSet(f, A) \in Int /\ SumFunctionOnSet(f, U \ A) \in Int
         /\ SumFunctionOnSet(f, U) = SumFunctionOnSet(f, A) + SumFunctionOnSet(f, U \ A)
<1> DEFINE B == U \ A
<1>1. U = A \cup B /\ A \cap B = {} /\ B \subseteq U
  OBVIOUS
<1> HIDE DEF B
<1>2. IsFiniteSet(A) /\ IsFiniteSet(B)
  BY <1>1, FS_Subset
<1>3. /\ \A x \in A : f[x] \in Int
      /\ \A x \in B : f[x] \in Int
      /\ \A x \in A \cup B : f[x] \in Int
  BY <1>1
<1>4. SumFunctionOnSet(f, A) \in Int /\ SumFunctionOnSet(f, B) \in Int
  BY <1>2, <1>3, SumInt
<1>5. SumFunctionOnSet(f, A \cup B) = SumFunctionOnSet(f, A) + SumFunctionOnSet(f, B)
  BY <1>1, <1>2, <1>3, SumUnion
<1>6. SumFunctionOnSet(f, U) = SumFunctionOnSet(f, A) + SumFunctionOnSet(f, B)
  BY <1>1, <1>5
<1> QED
  BY <1>4, <1>6 DEF B

\* The sum of sums.
LEMMA SumPlus ==
  ASSUME NEW f, NEW g, NEW h, NEW S, IsFiniteSet(S),
         \A x \in S : f[x] \in Int /\ g[x] \in Int /\ h[x] = f[x] + g[x]
  PROVE  SumFunctionOnSet(h, S) = SumFunctionOnSet(f, S) + SumFunctionOnSet(g, S)
<1> DEFINE P == {T \in SUBSET S : SumFunctionOnSet(h, T)
                                    = SumFunctionOnSet(f, T) + SumFunctionOnSet(g, T)}
<1>1. {} \in P
  BY SumEmpty
<1>2. ASSUME NEW T \in SUBSET S, T # {}, T \ {First(T)} \in P
      PROVE  T \in P
  <2> DEFINE x == First(T)
             r == T \ {x}
  <2>1. IsFiniteSet(T) /\ IsFiniteSet(r) /\ x \in T
    BY <1>2, FirstIn, FS_Subset
  <2>2. /\ SumFunctionOnSet(f, T) = f[x] + SumFunctionOnSet(f, r)
        /\ SumFunctionOnSet(g, T) = g[x] + SumFunctionOnSet(g, r)
        /\ SumFunctionOnSet(h, T) = h[x] + SumFunctionOnSet(h, r)
    BY <1>2, <2>1, SumFirst
  <2>3. f[x] \in Int /\ g[x] \in Int /\ h[x] = f[x] + g[x]
    BY <2>1
  <2>4. SumFunctionOnSet(f, r) \in Int /\ SumFunctionOnSet(g, r) \in Int
    BY <2>1, SumInt
  <2> QED
    BY <1>2, <2>2, <2>3, <2>4
<1>3. \A T \in SUBSET S : T \in P
  <2> HIDE DEF P
  <2> QED
    BY <1>1, <1>2, SubsetInduction
<1> QED
  BY <1>3

\* A common factor.
LEMMA SumTimes ==
  ASSUME NEW f, NEW g, NEW k \in Int, NEW S, IsFiniteSet(S),
         \A x \in S : f[x] \in Int /\ g[x] = f[x] * k
  PROVE  SumFunctionOnSet(g, S) = SumFunctionOnSet(f, S) * k
<1> DEFINE P == {T \in SUBSET S : SumFunctionOnSet(g, T) = SumFunctionOnSet(f, T) * k}
<1>1. {} \in P
  BY SumEmpty
<1>2. ASSUME NEW T \in SUBSET S, T # {}, T \ {First(T)} \in P
      PROVE  T \in P
  <2> DEFINE x == First(T)
             r == T \ {x}
  <2>1. IsFiniteSet(T) /\ IsFiniteSet(r) /\ x \in T
    BY <1>2, FirstIn, FS_Subset
  <2>2. /\ SumFunctionOnSet(f, T) = f[x] + SumFunctionOnSet(f, r)
        /\ SumFunctionOnSet(g, T) = g[x] + SumFunctionOnSet(g, r)
    BY <1>2, <2>1, SumFirst
  <2>3. f[x] \in Int /\ g[x] = f[x] * k
    BY <2>1
  <2>4. SumFunctionOnSet(f, r) \in Int
    BY <2>1, SumInt
  <2>5. \A a, b \in Int : (a + b) * k = a * k + b * k
    OBVIOUS
  <2> QED
    BY <1>2, <2>2, <2>3, <2>4, <2>5
<1>3. \A T \in SUBSET S : T \in P
  <2> HIDE DEF P
  <2> QED
    BY <1>1, <1>2, SubsetInduction
<1> QED
  BY <1>3

\* A sum of smaller values is smaller.
LEMMA SumLess ==
  ASSUME NEW f, NEW g, NEW S, IsFiniteSet(S),
         \A x \in S : f[x] \in Int /\ g[x] \in Int /\ f[x] <= g[x]
  PROVE  SumFunctionOnSet(f, S) <= SumFunctionOnSet(g, S)
<1> DEFINE P == {T \in SUBSET S : SumFunctionOnSet(f, T) <= SumFunctionOnSet(g, T)}
<1>1. {} \in P
  BY SumEmpty
<1>2. ASSUME NEW T \in SUBSET S, T # {}, T \ {First(T)} \in P
      PROVE  T \in P
  <2> DEFINE x == First(T)
             r == T \ {x}
  <2>1. IsFiniteSet(T) /\ IsFiniteSet(r) /\ x \in T
    BY <1>2, FirstIn, FS_Subset
  <2>2. /\ SumFunctionOnSet(f, T) = f[x] + SumFunctionOnSet(f, r)
        /\ SumFunctionOnSet(g, T) = g[x] + SumFunctionOnSet(g, r)
    BY <1>2, <2>1, SumFirst
  <2>3. f[x] \in Int /\ g[x] \in Int /\ f[x] <= g[x]
    BY <2>1
  <2>4. SumFunctionOnSet(f, r) \in Int /\ SumFunctionOnSet(g, r) \in Int
    BY <2>1, SumInt
  <2> QED
    BY <1>2, <2>2, <2>3, <2>4
<1>3. \A T \in SUBSET S : T \in P
  <2> HIDE DEF P
  <2> QED
    BY <1>1, <1>2, SubsetInduction
<1> QED
  BY <1>3

LEMMA SumZero ==
  ASSUME NEW f, NEW S, IsFiniteSet(S), \A x \in S : f[x] = 0
  PROVE  SumFunctionOnSet(f, S) = 0
<1> DEFINE P == {T \in SUBSET S : SumFunctionOnSet(f, T) = 0}
<1>1. {} \in P
  BY SumEmpty
<1>2. ASSUME NEW T \in SUBSET S, T # {}, T \ {First(T)} \in P
      PROVE  T \in P
  <2>1. SumFunctionOnSet(f, T) = f[First(T)] + SumFunctionOnSet(f, T \ {First(T)})
    BY <1>2, SumFirst, FS_Subset
  <2>2. f[First(T)] = 0
    BY <1>2, FirstIn
  <2> QED
    BY <1>2, <2>1, <2>2
<1>3. \A T \in SUBSET S : T \in P
  <2> HIDE DEF P
  <2> QED
    BY <1>1, <1>2, SubsetInduction
<1> QED
  BY <1>3

\* No value is negative.
LEMMA SumNat ==
  ASSUME NEW f, NEW S, IsFiniteSet(S), \A x \in S : f[x] \in Nat
  PROVE  /\ SumFunctionOnSet(f, S) \in Nat
         /\ \A x \in S : f[x] <= SumFunctionOnSet(f, S)
<1>1. ASSUME NEW T \in SUBSET S
      PROVE  SumFunctionOnSet(f, T) \in Nat
  <2> DEFINE z == [x \in T |-> 0]
  <2>1. IsFiniteSet(T)
    BY FS_Subset
  <2>2. SumFunctionOnSet(z, T) = 0
    BY <2>1, SumZero
  <2>3. \A x \in T : z[x] \in Int /\ f[x] \in Int /\ z[x] <= f[x]
    OBVIOUS
  <2>4. SumFunctionOnSet(z, T) <= SumFunctionOnSet(f, T)
    <3> HIDE DEF z
    <3> QED
      BY <2>1, <2>3, SumLess
  <2>5. SumFunctionOnSet(f, T) \in Int
    BY <2>1, SumInt
  <2> QED
    BY <2>2, <2>4, <2>5
<1>2. ASSUME NEW x \in S
      PROVE  f[x] <= SumFunctionOnSet(f, S)
  <2>1. SumFunctionOnSet(f, S) = f[x] + SumFunctionOnSet(f, S \ {x})
    BY SumTake
  <2>2. SumFunctionOnSet(f, S \ {x}) \in Nat
    BY <1>1
  <2> QED
    BY <2>1, <2>2
<1> QED
  BY <1>1, <1>2

\* In a net of mutual debts the balances add up to nothing.
LEMMA SumSkew ==
  ASSUME NEW d, NEW S, IsFiniteSet(S),
         \A n, m \in S : d[n][m] \in Int /\ d[n][m] = - d[m][n]
  PROVE  SumFunctionOnSet([n \in S |-> SumFunctionOnSet(d[n], S)], S) = 0
<1> DEFINE row(U) == [n \in S |-> SumFunctionOnSet(d[n], U)]
           P == {T \in SUBSET S : SumFunctionOnSet(row(T), T) = 0}
<1>1. {} \in P
  BY SumEmpty
<1>2. \A T \in SUBSET S : IsFiniteSet(T) /\ \A n \in S : row(T)[n] \in Int
  BY FS_Subset, SumInt
<1>3. ASSUME NEW T \in SUBSET S, T # {}, T \ {First(T)} \in P
      PROVE  T \in P
  <2> DEFINE x == First(T)
             r == T \ {x}
             col == [n \in S |-> d[n][x]]
  <2>1. x \in T /\ x \in S /\ r \in SUBSET S
    BY <1>3, FirstIn
  <2>2. \A n \in S : col[n] \in Int /\ col[n] = d[x][n] * (-1) /\ d[x][n] \in Int
    BY <2>1
  <2>3. ASSUME NEW n \in S
        PROVE  row(T)[n] = row(r)[n] + col[n]
    <3>1. SumFunctionOnSet(d[n], T) = d[n][x] + SumFunctionOnSet(d[n], r)
      <4>1. IsFiniteSet(T) /\ \A y \in T : d[n][y] \in Int
        BY <1>2
      <4> HIDE DEF x
      <4> QED
        BY <2>1, <4>1, SumTake
    <3>2. row(r)[n] \in Int /\ col[n] \in Int
      BY <1>2, <2>1, <2>2
    <3> QED
      BY <3>1, <3>2
  <2>4. row(T)[x] = SumFunctionOnSet(d[x], r)
    <3>1. d[x][x] \in Int /\ d[x][x] = - d[x][x]
      BY <2>1
    <3>2. col[x] = 0
      BY <2>1, <3>1
    <3>3. row(T)[x] = row(r)[x] + col[x] /\ row(r)[x] \in Int
      BY <1>2, <2>1, <2>3
    <3>4. row(r)[x] = SumFunctionOnSet(d[x], r)
      BY <2>1
    <3> QED
      BY <3>2, <3>3, <3>4
  <2>5. SumFunctionOnSet(col, r) = SumFunctionOnSet(d[x], r) * (-1)
    <3>1. IsFiniteSet(r) /\ \A n \in r : d[x][n] \in Int /\ col[n] = d[x][n] * (-1)
      BY <1>2, <2>1, <2>2
    <3> HIDE DEF col, x, r
    <3> QED
      BY <3>1, SumTimes
  <2>6. SumFunctionOnSet(row(T), T) = row(T)[x] + SumFunctionOnSet(row(T), r)
    <3>1. IsFiniteSet(T) /\ \A n \in T : row(T)[n] \in Int
      BY <1>2
    <3> HIDE DEF row, x
    <3> QED
      BY <2>1, <3>1, SumTake
  <2>7. SumFunctionOnSet(row(T), r) = SumFunctionOnSet(row(r), r) + SumFunctionOnSet(col, r)
    <3>1. /\ IsFiniteSet(r)
          /\ \A n \in r : /\ row(r)[n] \in Int /\ col[n] \in Int
                          /\ row(T)[n] = row(r)[n] + col[n]
      BY <1>2, <2>1, <2>2, <2>3
    <3> HIDE DEF row, col, r
    <3> QED
      BY <3>1, SumPlus
  <2>8. SumFunctionOnSet(row(r), r) = 0
    BY <1>3
  <2>9. SumFunctionOnSet(d[x], r) \in Int
    BY <1>2, <2>1, <2>2, SumInt
  <2>10. SumFunctionOnSet(row(T), T) = 0
    <3> HIDE DEF row, col, x, r
    <3> QED
      BY <2>4, <2>5, <2>6, <2>7, <2>8, <2>9
  <2> QED
    BY <2>10
<1>4. \A T \in SUBSET S : T \in P
  <2> HIDE DEF P
  <2> QED
    BY <1>1, <1>3, SubsetInduction
<1> QED
  BY <1>4
\* Payments p received and q made, against the change of a sheet from f to g.
LEMMA SumTrade ==
  ASSUME NEW p, NEW q, NEW f, NEW g, NEW k \in Int, NEW S, IsFiniteSet(S),
         \A x \in S : /\ p[x] \in Int /\ q[x] \in Int /\ f[x] \in Int /\ g[x] \in Int
                      /\ p[x] + f[x] * k <= q[x] + g[x] * k
  PROVE  SumFunctionOnSet(p, S) + SumFunctionOnSet(f, S) * k
           <= SumFunctionOnSet(q, S) + SumFunctionOnSet(g, S) * k
<1> DEFINE fk == [x \in S |-> f[x] * k]
           gk == [x \in S |-> g[x] * k]
           a == [x \in S |-> p[x] + f[x] * k]
           b == [x \in S |-> q[x] + g[x] * k]
<1>1. \A x \in S : /\ p[x] \in Int /\ q[x] \in Int /\ f[x] \in Int /\ g[x] \in Int
                   /\ fk[x] = f[x] * k /\ gk[x] = g[x] * k
                   /\ fk[x] \in Int /\ gk[x] \in Int
  OBVIOUS
<1>2. \A x \in S : /\ a[x] = p[x] + fk[x] /\ b[x] = q[x] + gk[x]
                   /\ a[x] \in Int /\ b[x] \in Int /\ a[x] <= b[x]
  BY <1>1
<1> HIDE DEF fk, gk, a, b
<1>3. /\ SumFunctionOnSet(fk, S) = SumFunctionOnSet(f, S) * k
      /\ SumFunctionOnSet(gk, S) = SumFunctionOnSet(g, S) * k
  BY <1>1, SumTimes
<1>4. /\ SumFunctionOnSet(a, S) = SumFunctionOnSet(p, S) + SumFunctionOnSet(fk, S)
      /\ SumFunctionOnSet(b, S) = SumFunctionOnSet(q, S) + SumFunctionOnSet(gk, S)
  BY <1>1, <1>2, SumPlus
<1>5. SumFunctionOnSet(a, S) <= SumFunctionOnSet(b, S)
  BY <1>2, SumLess
<1> QED
  BY <1>3, <1>4, <1>5
=============================================================================
