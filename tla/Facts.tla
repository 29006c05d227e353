-------------------------------- MODULE Facts --------------------------------
(***************************************************************************)
(* What proofs about several modules rest on and no library theorem states *)
(* without an operator for a parameter: induction over the naturals, as a  *)
(* fact about a set of them; sums over finite sets of indices; and what is *)
(* left of a sequence when a set of values is kept.                        *)
(***************************************************************************)
EXTENDS Integers, Sequences, FiniteSets, Functions, SequencesExt, Selection, WellFoundedInduction, FiniteSetTheorems, TLAPS

-----------------------------------------------------------------------------
(* Induction *)

\* Every nonempty set of naturals has a least element.
LEMMA LeastNatural ==
  ASSUME NEW T \in SUBSET Nat, T # {}
  PROVE  \E x \in T : \A y \in T : x <= y
<1> DEFINE R == {p \in Nat \X Nat : p[1] < p[2]}
<1>1. IsWellFoundedOn(R, Nat)
  BY NatLessThanWellFounded DEF OpToRel
<1>2. \E x \in T : \A y \in T : ~(<<y, x>> \in R)
  <2> HIDE DEF R
  <2> QED BY <1>1, WFMin
<1>3. PICK x \in T : \A y \in T : ~(<<y, x>> \in R)
  BY <1>2
<1>4. ASSUME NEW y \in T PROVE x <= y
  <2>1. x \in Nat /\ y \in Nat
    OBVIOUS
  <2>2. ~(y < x)
    BY <1>3, <2>1
  <2> QED
    BY <2>1, <2>2
<1> QED
  BY <1>4

\* A set of naturals with 0 and with every successor is all of them.  To prove P(n) for all
\* n, take {n \in Nat : P(n)}.
LEMMA SetInduction ==
  ASSUME NEW S \in SUBSET Nat, 0 \in S, \A n \in S : n + 1 \in S
  PROVE  S = Nat
<1> SUFFICES ASSUME S # Nat PROVE FALSE
  OBVIOUS
<1>1. Nat \ S # {} /\ Nat \ S \in SUBSET Nat
  OBVIOUS
<1>2. PICK x \in Nat \ S : \A y \in Nat \ S : x <= y
  BY <1>1, LeastNatural
<1>3. x # 0 /\ x - 1 \in Nat /\ x - 1 \in S
  BY <1>2
<1> QED
  BY <1>3

-----------------------------------------------------------------------------
(* Sums *)

Pick(s) == CHOOSE x \in s : TRUE

\* h is the recursive function inside SumFunctionOnSet, for the indices D.
Sums(h, g, D) == h = [s \in SUBSET D |-> IF s = {} THEN 0 ELSE g[Pick(s)] + h[s \ {Pick(s)}]]

LEMMA SumUnfolded ==
  ASSUME NEW g, NEW D
  PROVE  SumFunctionOnSet(g, D) = (CHOOSE h : Sums(h, g, D))[D]
  BY DEF SumFunctionOnSet, FoldFunctionOnSet, MapThenFoldSet, Sums, Pick

LEMMA Picked ==
  ASSUME NEW s, IsFiniteSet(s), s # {}
  PROVE  /\ Pick(s) \in s /\ IsFiniteSet(s \ {Pick(s)})
         /\ Cardinality(s) \in Nat \ {0} /\ Cardinality(s \ {Pick(s)}) = Cardinality(s) - 1
<1>1. Pick(s) \in s
  BY DEF Pick
<1>2. IsFiniteSet(s \ {Pick(s)}) /\ Cardinality(s \ {Pick(s)}) = Cardinality(s) - 1
  BY <1>1, FS_RemoveElement
<1>3. Cardinality(s) \in Nat /\ Cardinality(s) # 0
  BY FS_CardinalityType, FS_EmptySet
<1> QED
  BY <1>1, <1>2, <1>3

LEMMA SumsExist ==
  ASSUME NEW D, IsFiniteSet(D), NEW g
  PROVE  \E h : Sums(h, g, D)
<1> DEFINE Up(n) == {s \in SUBSET D : Cardinality(s) <= n}
           Rule(h, s) == IF s = {} THEN 0 ELSE g[Pick(s)] + h[s \ {Pick(s)}]
           Good(n) == \E h : \A s \in Up(n) : h[s] = Rule(h, s)
           S == {n \in Nat : Good(n)}
<1>0. \A s \in SUBSET D : IsFiniteSet(s) /\ Cardinality(s) \in Nat /\ Cardinality(s) <= Cardinality(D)
  BY FS_Subset, FS_CardinalityType
<1>1. 0 \in S
  <2>1. \A s \in Up(0) : s = {}
    BY <1>0, FS_EmptySet
  <2>2. \A s \in Up(0) : [t \in SUBSET D |-> 0][s] = Rule([t \in SUBSET D |-> 0], s)
    BY <2>1
  <2> QED
    BY <2>2
<1>2. ASSUME NEW n \in S PROVE n + 1 \in S
  <2>1. PICK h : \A s \in Up(n) : h[s] = Rule(h, s)
    OBVIOUS
  <2> DEFINE k == [s \in SUBSET D |-> IF Cardinality(s) <= n THEN h[s] ELSE Rule(h, s)]
  <2>2. ASSUME NEW s \in Up(n + 1), s # {}
        PROVE  k[s] = g[Pick(s)] + k[s \ {Pick(s)}]
    <3>1. /\ s \ {Pick(s)} \in SUBSET D /\ Cardinality(s) \in Nat
          /\ Cardinality(s \ {Pick(s)}) = Cardinality(s) - 1 /\ Cardinality(s) <= n + 1
      BY <1>0, <2>2, Picked
    <3>2. k[s \ {Pick(s)}] = h[s \ {Pick(s)}]
      BY <3>1
    <3>3. CASE Cardinality(s) <= n
      BY <2>1, <2>2, <3>2, <3>3
    <3>4. CASE ~(Cardinality(s) <= n)
      BY <2>2, <3>2, <3>4
    <3> QED
      BY <3>3, <3>4
  <2>3. ASSUME NEW s \in Up(n + 1), s = {} PROVE k[s] = 0
    <3>1. s \in Up(n)
      BY <2>3, FS_EmptySet
    <3> QED
      BY <2>1, <2>3, <3>1
  <2>4. \A s \in Up(n + 1) : k[s] = Rule(k, s)
    BY <2>2, <2>3
  <2>5. Good(n + 1)
    <3> HIDE DEF k, Up
    <3> QED
      BY <2>4
  <2> QED
    <3> HIDE DEF Good
    <3> QED
      BY <2>5
<1>3. S = Nat
  <2> HIDE DEF S
  <2> S \in SUBSET Nat
    BY DEF S
  <2> QED
    BY <1>1, <1>2, SetInduction
<1>4. Cardinality(D) \in Nat /\ Up(Cardinality(D)) = SUBSET D
  BY <1>0
<1>5. PICK h : \A s \in SUBSET D : h[s] = Rule(h, s)
  <2>1. Good(Cardinality(D))
    <3> HIDE DEF Good
    <3> QED
      BY <1>3, <1>4
  <2> QED
    <3> HIDE DEF Up
    <3> QED
      BY <1>4, <2>1
<1> DEFINE k == [s \in SUBSET D |-> h[s]]
<1>6. ASSUME NEW s \in SUBSET D PROVE k[s] = Rule(k, s)
  <2>1. s # {} => s \ {Pick(s)} \in SUBSET D
    OBVIOUS
  <2> QED
    BY <1>5, <2>1
<1>7. Sums(k, g, D)
  BY <1>6 DEF Sums
<1> QED
  BY <1>7

\* Two such functions agree where their summands do.
LEMMA SumsAgree ==
  ASSUME NEW D, NEW E, NEW g, NEW f, NEW h, NEW k, Sums(h, g, D), Sums(k, f, E),
         NEW T, T \subseteq D, T \subseteq E, IsFiniteSet(T), \A x \in T : g[x] = f[x]
  PROVE  h[T] = k[T]
<1> DEFINE Agrees(n) == \A s \in SUBSET T : Cardinality(s) = n => h[s] = k[s]
           S == {n \in Nat : Agrees(n)}
<1>0. \A s \in SUBSET T : IsFiniteSet(s) /\ Cardinality(s) \in Nat
  BY FS_Subset, FS_CardinalityType
<1>e. h[{}] = 0 /\ k[{}] = 0
  BY DEF Sums
<1>s. \A s \in SUBSET T : s # {} => h[s] = g[Pick(s)] + h[s \ {Pick(s)}] /\ k[s] = f[Pick(s)] + k[s \ {Pick(s)}]
  BY DEF Sums
<1>1. 0 \in S
  BY <1>0, <1>e, FS_EmptySet
<1>2. ASSUME NEW n \in S PROVE n + 1 \in S
  <2>1. ASSUME NEW s \in SUBSET T, Cardinality(s) = n + 1 PROVE h[s] = k[s]
    <3>1. s # {}
      BY <2>1, FS_EmptySet
    <3>2. Pick(s) \in s /\ Cardinality(s \ {Pick(s)}) = n /\ s \ {Pick(s)} \in SUBSET T
      BY <1>0, <2>1, <3>1, Picked
    <3>3. h[s \ {Pick(s)}] = k[s \ {Pick(s)}]
      BY <3>2
    <3> QED
      BY <1>s, <3>1, <3>2, <3>3
  <2> QED
    BY <2>1
<1>3. S = Nat
  <2> HIDE DEF S
  <2> S \in SUBSET Nat
    BY DEF S
  <2> QED
    BY <1>1, <1>2, SetInduction
<1> QED
  BY <1>0, <1>3

LEMMA SumIs ==
  ASSUME NEW D, IsFiniteSet(D), NEW E, D \subseteq E, NEW g, NEW h, Sums(h, g, E)
  PROVE  SumFunctionOnSet(g, D) = h[D]
<1> DEFINE k == CHOOSE k : Sums(k, g, D)
<1>1. Sums(k, g, D)
  BY SumsExist
<1>2. SumFunctionOnSet(g, D) = k[D]
  BY SumUnfolded
<1> HIDE DEF k
<1> QED
  BY <1>1, <1>2, SumsAgree

\* The sum over a set is what it is without an element, plus that element's.
LEMMA SumSplits ==
  ASSUME NEW D, IsFiniteSet(D), NEW g, \A x \in D : g[x] \in Int
  PROVE  /\ SumFunctionOnSet(g, {}) = 0 /\ SumFunctionOnSet(g, D) \in Int
         /\ \A x \in D : SumFunctionOnSet(g, D) = g[x] + SumFunctionOnSet(g, D \ {x})
<1>1. PICK h : Sums(h, g, D)
  BY SumsExist
<1>0. \A s \in SUBSET D : IsFiniteSet(s) /\ Cardinality(s) \in Nat
  BY FS_Subset, FS_CardinalityType
<1>e. h[{}] = 0
  BY <1>1 DEF Sums
<1>s. \A s \in SUBSET D : s # {} => h[s] = g[Pick(s)] + h[s \ {Pick(s)}]
  BY <1>1 DEF Sums
<1>2. \A s \in SUBSET D : h[s] \in Int
  <2> DEFINE S == {n \in Nat : \A s \in SUBSET D : Cardinality(s) = n => h[s] \in Int}
  <2>1. 0 \in S
    BY <1>0, <1>e, FS_EmptySet
  <2>2. ASSUME NEW n \in S PROVE n + 1 \in S
    <3>1. ASSUME NEW s \in SUBSET D, Cardinality(s) = n + 1 PROVE h[s] \in Int
      <4>1. s # {}
        BY <1>0, <3>1, FS_EmptySet
      <4>2. Pick(s) \in s /\ Cardinality(s \ {Pick(s)}) = n /\ s \ {Pick(s)} \in SUBSET D
        BY <1>0, <3>1, <4>1, Picked
      <4>3. h[s \ {Pick(s)}] \in Int /\ g[Pick(s)] \in Int
        BY <4>2
      <4> QED
        BY <1>s, <4>1, <4>3
    <3> QED
      BY <3>1
  <2>3. S = Nat
    <3> HIDE DEF S
    <3> S \in SUBSET Nat
      BY DEF S
    <3> QED
      BY <2>1, <2>2, SetInduction
  <2> QED
    BY <1>0, <2>3
<1> DEFINE S == {n \in Nat : \A s \in SUBSET D : Cardinality(s) = n => \A x \in s : h[s] = g[x] + h[s \ {x}]}
<1>3. 0 \in S
  BY <1>0, FS_EmptySet
<1>4. ASSUME NEW n \in S PROVE n + 1 \in S
  <2>1. ASSUME NEW s \in SUBSET D, Cardinality(s) = n + 1, NEW x \in s
        PROVE  h[s] = g[x] + h[s \ {x}]
    <3> DEFINE y == Pick(s)
    <3>2. y \in s /\ Cardinality(s \ {y}) = n /\ s \ {y} \in SUBSET D
      BY <1>0, <2>1, FS_EmptySet, Picked
    <3>3. h[s] = g[y] + h[s \ {y}]
      BY <1>s, <2>1
    <3> HIDE DEF y
    <3>4. CASE x = y
      BY <3>3, <3>4
    <3>5. CASE x # y
      <4> DEFINE r == (s \ {y}) \ {x}
      <4>1. r \in SUBSET D /\ x \in s \ {y}
        BY <3>5
      <4>2. h[s \ {y}] = g[x] + h[r]
        BY <3>2, <4>1
      <4>3. h[s \ {x}] = g[y] + h[r]
        <5>1. s \ {x} \in SUBSET D /\ Cardinality(s \ {x}) = n
          BY <1>0, <2>1, FS_RemoveElement
        <5>2. y \in s \ {x} /\ (s \ {x}) \ {y} = r
          BY <3>2, <3>5
        <5> QED
          BY <5>1, <5>2
      <4>4. h[r] \in Int /\ g[x] \in Int /\ g[y] \in Int
        BY <1>2, <3>2, <4>1
      <4> QED
        BY <3>3, <4>2, <4>3, <4>4
    <3> QED
      BY <3>4, <3>5
  <2> QED
    BY <2>1
<1>5. S = Nat
  <2> HIDE DEF S
  <2> S \in SUBSET Nat
    BY DEF S
  <2> QED
    BY <1>3, <1>4, SetInduction
<1>6. \A s \in SUBSET D : SumFunctionOnSet(g, s) = h[s]
  BY <1>0, <1>1, SumIs
<1>7. \A x \in D : h[D] = g[x] + h[D \ {x}]
  BY <1>0, <1>5
<1> QED
  BY <1>2, <1>6, <1>7, <1>e

\* A sum does not depend on what is outside its set.
LEMMA SumsEqual ==
  ASSUME NEW D, IsFiniteSet(D), NEW g, NEW f, \A x \in D : g[x] = f[x]
  PROVE  SumFunctionOnSet(g, D) = SumFunctionOnSet(f, D)
<1>1. PICK h : Sums(h, g, D)
  BY SumsExist
<1>2. PICK k : Sums(k, f, D)
  BY SumsExist
<1>3. h[D] = k[D]
  BY <1>1, <1>2, SumsAgree
<1> QED
  BY <1>1, <1>2, <1>3, SumIs
\* A sum does not depend on how its set is indexed.
LEMMA SumsRenamed ==
  ASSUME NEW D, IsFiniteSet(D), NEW E, IsFiniteSet(E), NEW b \in Bijection(D, E),
         NEW g, NEW f, \A x \in D : f[x] = g[b[x]] /\ f[x] \in Int
  PROVE  SumFunctionOnSet(f, D) = SumFunctionOnSet(g, E)
<1> DEFINE B(T) == {b[x] : x \in T}
           Same(T) == SumFunctionOnSet(f, T) = SumFunctionOnSet(g, B(T))
           S == {n \in Nat : \A T \in SUBSET D : Cardinality(T) = n => Same(T)}
<1>1. \A T \in SUBSET D : IsFiniteSet(T) /\ Cardinality(T) \in Nat
  BY FS_Subset, FS_CardinalityType
<1>2. /\ b \in [D -> E] /\ \A x, y \in D : b[x] = b[y] => x = y
      /\ \A y \in E : \E x \in D : b[x] = y
  BY DEF Bijection, Injection, Surjection, IsInjective
<1>3. B(D) = E
  BY <1>2
<1>4. \A y \in E : g[y] \in Int
  BY <1>2
<1>5. \A T \in SUBSET D : IsFiniteSet(B(T)) /\ B(T) \subseteq E
  <2>1. \A T \in SUBSET D : B(T) \subseteq E
    BY <1>2
  <2> HIDE DEF B
  <2> QED
    BY <2>1, FS_Subset
<1>6. 0 \in S
  <2>1. ASSUME NEW T \in SUBSET D, Cardinality(T) = 0 PROVE Same(T)
    <3>1. T = {} /\ B(T) = {}
      BY <1>1, <2>1, FS_EmptySet
    <3>2. SumFunctionOnSet(f, {}) = 0 /\ SumFunctionOnSet(g, {}) = 0
      BY FS_EmptySet, SumSplits
    <3> QED
      BY <3>1, <3>2
  <2> QED
    BY <2>1
<1>7. ASSUME NEW n \in S PROVE n + 1 \in S
  <2>1. ASSUME NEW T \in SUBSET D, Cardinality(T) = n + 1 PROVE Same(T)
    <3>1. PICK x \in T : TRUE
      BY <1>1, <2>1, FS_EmptySet
    <3>2. T \ {x} \in SUBSET D /\ Cardinality(T \ {x}) = n
      BY <1>1, <2>1, FS_RemoveElement
    <3>3. Same(T \ {x})
      BY <3>2
    <3>4. B(T \ {x}) = B(T) \ {b[x]} /\ b[x] \in B(T)
      BY <1>2
    <3>5. SumFunctionOnSet(f, T) = f[x] + SumFunctionOnSet(f, T \ {x})
      <4>1. IsFiniteSet(T) /\ \A y \in T : f[y] \in Int
        BY <1>1
      <4> QED
        BY <4>1, SumSplits
    <3>6. SumFunctionOnSet(g, B(T)) = g[b[x]] + SumFunctionOnSet(g, B(T) \ {b[x]})
      <4>1. IsFiniteSet(B(T)) /\ \A y \in B(T) : g[y] \in Int
        BY <1>4, <1>5
      <4> HIDE DEF B
      <4> QED
        BY <3>4, <4>1, SumSplits
    <3> QED
      BY <3>3, <3>4, <3>5, <3>6
  <2> QED
    BY <2>1
<1>8. S = Nat
  <2> HIDE DEF S
  <2> S \in SUBSET Nat
    BY DEF S
  <2> QED
    BY <1>6, <1>7, SetInduction
<1>9. Same(D)
  BY <1>1, <1>8
<1> QED
  BY <1>3, <1>9

\* A sum of naturals over part of a set is at most that over the set.
LEMMA SumOfPart ==
  ASSUME NEW D, IsFiniteSet(D), NEW T \in SUBSET D, NEW g, \A x \in D : g[x] \in Nat
  PROVE  /\ SumFunctionOnSet(g, T) \in Nat /\ SumFunctionOnSet(g, D) \in Nat
         /\ SumFunctionOnSet(g, T) <= SumFunctionOnSet(g, D)
<1> DEFINE More(A) == \A U \in SUBSET D : A \subseteq U =>
                        SumFunctionOnSet(g, U) >= SumFunctionOnSet(g, A)
           S(A) == {n \in Nat : \A U \in SUBSET D : A \subseteq U /\ Cardinality(U \ A) = n =>
                                  SumFunctionOnSet(g, U) >= SumFunctionOnSet(g, A)}
<1>1. \A U \in SUBSET D : IsFiniteSet(U) /\ Cardinality(U) \in Nat
  BY FS_Subset, FS_CardinalityType
<1>2. ASSUME NEW U \in SUBSET D
      PROVE  /\ SumFunctionOnSet(g, U) \in Int /\ SumFunctionOnSet(g, {}) = 0
             /\ \A x \in U : SumFunctionOnSet(g, U) = g[x] + SumFunctionOnSet(g, U \ {x})
  <2>1. IsFiniteSet(U) /\ \A x \in U : g[x] \in Int
    BY <1>1
  <2> QED
    BY <2>1, SumSplits
<1>3. ASSUME NEW A \in SUBSET D PROVE More(A)
  <2>1. 0 \in S(A)
    <3>1. ASSUME NEW U \in SUBSET D, A \subseteq U, Cardinality(U \ A) = 0
          PROVE  SumFunctionOnSet(g, U) >= SumFunctionOnSet(g, A)
      <4>1. U \ A = {}
        <5> U \ A \in SUBSET D
          OBVIOUS
        <5> QED
          BY <1>1, <3>1, FS_EmptySet
      <4>2. U = A
        BY <3>1, <4>1
      <4> QED
        BY <1>2, <4>2
    <3> QED
      BY <3>1
  <2>2. ASSUME NEW n \in S(A) PROVE n + 1 \in S(A)
    <3>1. ASSUME NEW U \in SUBSET D, A \subseteq U, Cardinality(U \ A) = n + 1
          PROVE  SumFunctionOnSet(g, U) >= SumFunctionOnSet(g, A)
      <4>0. U \ A \in SUBSET D
        OBVIOUS
      <4>1. PICK x \in U \ A : TRUE
        BY <1>1, <3>1, <4>0, FS_EmptySet
      <4>2. U \ {x} \in SUBSET D /\ A \subseteq U \ {x} /\ (U \ {x}) \ A = (U \ A) \ {x}
        BY <3>1
      <4>3. Cardinality((U \ {x}) \ A) = n
        <5>1. Cardinality((U \ A) \ {x}) = Cardinality(U \ A) - 1
          BY <1>1, <4>0, FS_RemoveElement
        <5>2. n \in Nat /\ Cardinality(U \ A) = n + 1
          BY <3>1
        <5>3. Cardinality((U \ A) \ {x}) = n
          BY <5>1, <5>2
        <5> QED
          BY <4>2, <5>3
      <4>4. SumFunctionOnSet(g, U \ {x}) >= SumFunctionOnSet(g, A)
        BY <2>2, <4>2, <4>3
      <4>5. SumFunctionOnSet(g, U) = g[x] + SumFunctionOnSet(g, U \ {x})
        BY <1>2
      <4>6. g[x] \in Nat /\ SumFunctionOnSet(g, U \ {x}) \in Int /\ SumFunctionOnSet(g, A) \in Int
        BY <1>2, <4>2
      <4> QED
        BY <4>4, <4>5, <4>6
    <3> QED
      BY <3>1
  <2>3. S(A) = Nat
    <3> HIDE DEF S
    <3> S(A) \in SUBSET Nat
      BY DEF S
    <3> QED
      BY <2>1, <2>2, SetInduction
  <2>4. ASSUME NEW U \in SUBSET D, A \subseteq U
        PROVE  SumFunctionOnSet(g, U) >= SumFunctionOnSet(g, A)
    <3>1. Cardinality(U \ A) \in S(A)
      <4> U \ A \in SUBSET D
        OBVIOUS
      <4> HIDE DEF S
      <4> QED
        BY <1>1, <2>3
    <3> QED
      BY <2>4, <3>1
  <2> QED
    BY <2>4
<1>4. SumFunctionOnSet(g, T) >= 0 /\ SumFunctionOnSet(g, D) >= 0
  BY <1>2, <1>3
<1>5. SumFunctionOnSet(g, T) \in Int /\ SumFunctionOnSet(g, D) \in Int
  BY <1>2
<1>6. SumFunctionOnSet(g, D) >= SumFunctionOnSet(g, T)
  BY <1>3
<1> QED
  BY <1>4, <1>5, <1>6

\* A sum of zeros is zero.
LEMMA SumOfZeros ==
  ASSUME NEW D, IsFiniteSet(D), NEW g, \A x \in D : g[x] = 0
  PROVE  SumFunctionOnSet(g, D) = 0
<1> DEFINE S == {n \in Nat : \A T \in SUBSET D : Cardinality(T) = n => SumFunctionOnSet(g, T) = 0}
<1>1. \A T \in SUBSET D : IsFiniteSet(T) /\ Cardinality(T) \in Nat
  BY FS_Subset, FS_CardinalityType
<1>2. 0 \in S
  <2>1. SumFunctionOnSet(g, {}) = 0
    BY FS_EmptySet, SumSplits
  <2> QED
    BY <1>1, <2>1, FS_EmptySet
<1>3. ASSUME NEW n \in S PROVE n + 1 \in S
  <2>1. ASSUME NEW T \in SUBSET D, Cardinality(T) = n + 1 PROVE SumFunctionOnSet(g, T) = 0
    <3>1. PICK x \in T : TRUE
      BY <1>1, <2>1, FS_EmptySet
    <3>2. T \ {x} \in SUBSET D /\ Cardinality(T \ {x}) = n
      BY <1>1, <2>1, FS_RemoveElement
    <3>3. SumFunctionOnSet(g, T) = g[x] + SumFunctionOnSet(g, T \ {x})
      <4>1. IsFiniteSet(T) /\ \A y \in T : g[y] \in Int
        BY <1>1
      <4> QED
        BY <4>1, SumSplits
    <3> QED
      BY <3>2, <3>3
  <2> QED
    BY <2>1
<1>4. S = Nat
  <2> HIDE DEF S
  <2> S \in SUBSET Nat
    BY DEF S
  <2> QED
    BY <1>2, <1>3, SetInduction
<1> QED
  BY <1>1, <1>4

-----------------------------------------------------------------------------
(* What is kept of a sequence *)

LEMMA KeptRank ==
  ASSUME NEW T, NEW seq \in Seq(T), NEW at \in SUBSET DOMAIN seq
  PROVE  /\ IsFiniteSet(at) /\ Cardinality(at) \in Nat /\ Cardinality(at) <= Len(seq)
         /\ \E b \in Bijection(at, 1 .. Cardinality(at)) : \A i \in at : Kept(seq, at)[b[i]] = seq[i]
<1> DEFINE Upto(i) == {j \in at : j <= i}
           Before(i) == {j \in at : j < i}
           b == [i \in at |-> Cardinality(Upto(i))]
           N == Cardinality(at)
<1>1. IsFiniteSet(at) /\ N \in Nat /\ N <= Len(seq)
  <2>1. DOMAIN seq = 1 .. Len(seq) /\ Len(seq) \in Nat
    OBVIOUS
  <2>2. \A n \in Nat : IsFiniteSet(1 .. n) /\ Cardinality(1 .. n) = n
    BY FS_Interval
  <2> QED
    BY <2>1, <2>2, FS_Subset, FS_CardinalityType
<1>2. ASSUME NEW i \in at
      PROVE  /\ IsFiniteSet(Upto(i)) /\ Cardinality(Upto(i)) \in 1 .. N
             /\ Cardinality(Before(i)) = Cardinality(Upto(i)) - 1
  <2>1. i \in Nat /\ i \in Upto(i) /\ Upto(i) \in SUBSET at /\ Before(i) = Upto(i) \ {i}
    OBVIOUS
  <2>2. IsFiniteSet(Upto(i)) /\ Cardinality(Upto(i)) <= N /\ Cardinality(Upto(i)) \in Nat
    BY <1>1, <2>1, FS_Subset, FS_CardinalityType
  <2>3. Cardinality(Upto(i)) # 0
    BY <2>1, <2>2, FS_EmptySet
  <2>4. Cardinality(Before(i)) = Cardinality(Upto(i)) - 1
    <3> HIDE DEF Upto, Before
    <3> QED
      BY <2>1, <2>2, FS_RemoveElement
  <2> QED
    BY <1>1, <2>2, <2>3, <2>4
<1>3. ASSUME NEW i \in at, NEW k \in at, i < k PROVE b[i] < b[k]
  <2>1. i \in Nat /\ k \in Nat /\ Upto(i) \in SUBSET Upto(k) /\ k \in Upto(k) \ Upto(i)
    BY <1>3
  <2>2. Cardinality(Upto(i)) <= Cardinality(Upto(k)) /\ Cardinality(Upto(i)) # Cardinality(Upto(k))
    BY <1>2, <2>1, FS_Subset
  <2>3. \A m, n \in Nat : m <= n /\ m # n => m < n
    OBVIOUS
  <2>4. Cardinality(Upto(i)) \in Nat /\ Cardinality(Upto(k)) \in Nat
    <3> HIDE DEF Upto, Before, N
    <3> N \in Nat
      BY <1>1 DEF N
    <3> QED
      BY <1>2
  <2> QED
    BY <2>2, <2>3, <2>4
<1> HIDE DEF Upto, Before
<1>4. b \in Injection(at, 1 .. N)
  <2>1. b \in [at -> 1 .. N]
    BY <1>2
  <2>2. ASSUME NEW i \in at, NEW k \in at, b[i] = b[k] PROVE i = k
    <3>1. i \in Nat /\ k \in Nat /\ b[i] \in Nat /\ b[k] \in Nat
      BY <1>2
    <3>2. ~(i < k) /\ ~(k < i)
      <4> HIDE DEF b
      <4> QED
        BY <1>3, <2>2, <3>1
    <3> QED
      BY <3>1, <3>2
  <2> QED
    BY <2>1, <2>2 DEF Injection, IsInjective
<1>5. b \in Bijection(at, 1 .. N)
  <2>1. IsFiniteSet(1 .. N) /\ Cardinality(1 .. N) = N
    BY <1>1, FS_Interval
  <2>2. b \in Surjection(at, 1 .. N)
    BY <1>4, <2>1, FS_Injection
  <2> QED
    BY <1>4, <2>2 DEF Bijection
<1>6. ASSUME NEW i \in at PROVE Kept(seq, at)[b[i]] = seq[i]
  <2>1. b[i] \in 1 .. N
    BY <1>2
  <2> DEFINE c == CHOOSE k \in at : Cardinality(Before(k)) = b[i] - 1
  <2>2. c \in at /\ Cardinality(Before(c)) = b[i] - 1
    BY <1>2
  <2>3. b[c] = b[i]
    BY <1>2, <2>2
  <2>4. c = i
    <3> HIDE DEF b, c
    <3> QED
      BY <1>4, <2>2, <2>3 DEF Injection, IsInjective
  <2>5. Kept(seq, at)[b[i]] = seq[c]
    BY <2>1 DEF Kept, Before
  <2> QED
    BY <2>4, <2>5
<1> QED
  <2> HIDE DEF b
  <2> QED
    BY <1>1, <1>5, <1>6

\* A part of the sequence: its type, its length, and what is in it.
LEMMA KeptIs ==
  ASSUME NEW T, NEW seq \in Seq(T), NEW at \in SUBSET DOMAIN seq
  PROVE  /\ Kept(seq, at) \in Seq(T) /\ Len(Kept(seq, at)) = Cardinality(at)
         /\ Cardinality(at) \in Nat /\ Cardinality(at) <= Len(seq)
         /\ {Kept(seq, at)[n] : n \in DOMAIN Kept(seq, at)} = {seq[i] : i \in at}
<1> DEFINE N == Cardinality(at)
<1>1. PICK b \in Bijection(at, 1 .. N) : \A i \in at : Kept(seq, at)[b[i]] = seq[i]
  BY KeptRank
<1>2. IsFiniteSet(at) /\ N \in Nat /\ N <= Len(seq)
  BY KeptRank
<1>3. DOMAIN Kept(seq, at) = 1 .. N /\ Kept(seq, at) = [n \in 1 .. N |-> Kept(seq, at)[n]]
  BY DEF Kept
<1>4. \A n \in 1 .. N : \E i \in at : b[i] = n
  BY <1>1 DEF Bijection, Surjection
<1>5. \A n \in 1 .. N : \E i \in at : Kept(seq, at)[n] = seq[i]
  BY <1>1, <1>4
<1>6. \A i \in at : b[i] \in 1 .. N
  BY <1>1 DEF Bijection, Injection
<1>7. \A i \in at : seq[i] \in T
  OBVIOUS
<1> DEFINE kept == Kept(seq, at)
<1> HIDE DEF kept
<1>8. kept \in Seq(T) /\ Len(kept) = N
  <2>1. \A n \in 1 .. N : kept[n] \in T
    BY <1>5, <1>7 DEF kept
  <2>2. kept = [n \in 1 .. N |-> kept[n]]
    BY <1>3 DEF kept
  <2> HIDE DEF N
  <2> QED
    BY <1>2, <2>1, <2>2
<1>9. {kept[n] : n \in DOMAIN kept} = {seq[i] : i \in at}
  BY <1>1, <1>3, <1>5, <1>6 DEF kept
<1> QED
  BY <1>2, <1>8, <1>9 DEF kept

\* Nothing is kept twice of a sequence without repetitions.
LEMMA KeptInjective ==
  ASSUME NEW T, NEW seq \in Seq(T), NEW at \in SUBSET DOMAIN seq, IsInjective(seq)
  PROVE  IsInjective(Kept(seq, at))
<1> DEFINE N == Cardinality(at)
           kept == Kept(seq, at)
<1>1. PICK b \in Bijection(at, 1 .. N) : \A i \in at : kept[b[i]] = seq[i]
  BY KeptRank
<1>2. DOMAIN kept = 1 .. N
  BY DEF Kept
<1>3. \A n \in 1 .. N : \E i \in at : b[i] = n
  BY <1>1 DEF Bijection, Surjection
<1>4. \A i, k \in at : seq[i] = seq[k] => i = k
  BY DEF IsInjective
<1> HIDE DEF kept, N
<1>5. ASSUME NEW m \in 1 .. N, NEW n \in 1 .. N, kept[m] = kept[n] PROVE m = n
  <2>1. PICK i \in at : b[i] = m
    BY <1>3
  <2>2. PICK k \in at : b[k] = n
    BY <1>3
  <2> QED
    BY <1>1, <1>4, <1>5, <2>1, <2>2
<1> QED
  BY <1>2, <1>5 DEF IsInjective, kept

\* Where a sequence has a value.
Places(seq, v) == {i \in DOMAIN seq : seq[i] = v}

\* Of a value that is kept wherever it is, as many are kept as there were.
LEMMA KeptCount ==
  ASSUME NEW T, NEW seq \in Seq(T), NEW at \in SUBSET DOMAIN seq, NEW v,
         Places(seq, v) \subseteq at
  PROVE  Cardinality(Places(Kept(seq, at), v)) = Cardinality(Places(seq, v))
<1> DEFINE N == Cardinality(at)
           kept == Kept(seq, at)
           Old == {i \in DOMAIN seq : seq[i] = v}
           New == {n \in DOMAIN kept : kept[n] = v}
<1>1. PICK b \in Bijection(at, 1 .. N) : \A i \in at : kept[b[i]] = seq[i]
  BY KeptRank
<1>2. IsFiniteSet(at) /\ N \in Nat /\ DOMAIN kept = 1 .. N
  BY KeptRank DEF Kept
<1> HIDE DEF kept, N
<1>3. /\ b \in [at -> 1 .. N]
      /\ \A i, k \in at : b[i] = b[k] => i = k
      /\ \A n \in 1 .. N : \E i \in at : b[i] = n
  BY <1>1 DEF Bijection, Injection, Surjection, IsInjective
<1>4. IsFiniteSet(Old) /\ Old \in SUBSET at
  BY <1>2, FS_Subset DEF Places
<1> DEFINE f == [i \in Old |-> b[i]]
<1>5. f \in Bijection(Old, New)
  <2>1. f \in [Old -> New]
    BY <1>1, <1>2, <1>3, <1>4
  <2>2. \A i, k \in Old : f[i] = f[k] => i = k
    BY <1>3, <1>4
  <2>3. ASSUME NEW n \in New PROVE \E i \in Old : f[i] = n
    <3>1. PICK i \in at : b[i] = n
      BY <1>2, <1>3
    <3>2. i \in Old
      BY <1>1, <3>1
    <3> QED
      BY <3>1, <3>2
  <2> QED
    BY <2>1, <2>2, <2>3 DEF Bijection, Injection, Surjection, IsInjective
<1>6. ExistsBijection(Old, New)
  BY <1>5 DEF ExistsBijection
<1> QED
  BY <1>4, <1>6, FS_Bijection DEF kept, Places
\* Without its head a sequence has a value as often, or once less if it was the head.
LEMMA PlacesOfTail ==
  ASSUME NEW T, NEW seq \in Seq(T), seq # <<>>, NEW v
  PROVE  /\ Cardinality(Places(seq, v)) \in Nat /\ Cardinality(Places(Tail(seq), v)) \in Nat
         /\ Cardinality(Places(seq, v))
              = Cardinality(Places(Tail(seq), v)) + (IF Head(seq) = v THEN 1 ELSE 0)
<1> DEFINE Old == Places(Tail(seq), v)
           Rest == Places(seq, v) \ {1}
           f == [i \in Old |-> i + 1]
<1>1. /\ Tail(seq) \in Seq(T) /\ Len(seq) \in Nat \ {0} /\ Len(Tail(seq)) = Len(seq) - 1
      /\ DOMAIN seq = 1 .. Len(seq) /\ DOMAIN Tail(seq) = 1 .. Len(seq) - 1
      /\ \A i \in 1 .. Len(seq) - 1 : Tail(seq)[i] = seq[i + 1]
      /\ Head(seq) = seq[1]
  OBVIOUS
<1>2. /\ IsFiniteSet(Places(seq, v)) /\ IsFiniteSet(Old)
      /\ Cardinality(Places(seq, v)) \in Nat /\ Cardinality(Old) \in Nat
  <2>1. IsFiniteSet(1 .. Len(seq)) /\ IsFiniteSet(1 .. Len(seq) - 1)
    BY <1>1, FS_Interval
  <2>2. Places(seq, v) \subseteq 1 .. Len(seq) /\ Old \subseteq 1 .. Len(seq) - 1
    BY <1>1 DEF Places
  <2> QED
    BY <2>1, <2>2, FS_Subset, FS_CardinalityType
<1>3. f \in Bijection(Old, Rest)
  <2>1. f \in [Old -> Rest]
    BY <1>1 DEF Places
  <2>2. \A i, k \in Old : f[i] = f[k] => i = k
    BY <1>1 DEF Places
  <2>3. ASSUME NEW n \in Rest PROVE \E i \in Old : f[i] = n
    <3>1. n - 1 \in Old /\ f[n - 1] = n
      BY <1>1 DEF Places
    <3> QED
      BY <3>1
  <2> QED
    BY <2>1, <2>2, <2>3 DEF Bijection, Injection, Surjection, IsInjective
<1>4. Cardinality(Rest) = Cardinality(Old)
  BY <1>2, <1>3, FS_Bijection DEF ExistsBijection
<1>5. 1 \in Places(seq, v) <=> Head(seq) = v
  BY <1>1 DEF Places
<1>6. Cardinality(Rest) = IF Head(seq) = v THEN Cardinality(Places(seq, v)) - 1
                          ELSE Cardinality(Places(seq, v))
  BY <1>2, <1>5, FS_RemoveElement
<1> QED
  BY <1>2, <1>4, <1>6
=============================================================================
