----------------------------- MODULE HandProofs -----------------------------
(***************************************************************************)
(* Lemmas for the proofs about one hand, about the tables that play hand   *)
(* after hand, and about whatever adds up chips or goes around the seats.  *)
(* First, sums over finite sets, and how induction is stated: with the set *)
(* of all numbers or sets that have the property, which rests on the least *)
(* member of a set of numbers.  Then the operators of Ring and Hand: what  *)
(* an action, a deal and a settlement do to the chips, the turn and the    *)
(* contest.                                                                *)
(***************************************************************************)
EXTENDS Hand, FiniteSetTheorems, WellFoundedInduction, TLAPS

-----------------------------------------------------------------------------
(* Induction *)

\* A non-empty set of natural numbers has a least element.
LEMMA LeastNat ==
  ASSUME NEW T \in SUBSET Nat, T # {}
  PROVE  \E x \in T : \A y \in T : x <= y
<1>1. PICK x \in T : \A y \in T : ~(<<y, x>> \in OpToRel(<, Nat))
  BY NatLessThanWellFounded, WFMin
<1>2. ASSUME NEW y \in T, y < x PROVE FALSE
  <2>1. <<y, x>> \in Nat \X Nat
    OBVIOUS
  <2>2. <<y, x>>[1] < <<y, x>>[2]
    BY <1>2
  <2>3. <<y, x>> \in OpToRel(<, Nat)
    BY <2>1, <2>2 DEF OpToRel
  <2>. QED BY <1>1, <2>3
<1>3. ASSUME NEW y \in T PROVE x <= y
  BY <1>2
<1>. QED BY <1>3

\* A set with 0 that has the next number with every number has them all.
LEMMA NatInduct ==
  ASSUME NEW T \in SUBSET Nat, 0 \in T, \A n \in T : n + 1 \in T
  PROVE  T = Nat
<1>1. SUFFICES ASSUME Nat \ T # {} PROVE FALSE
  OBVIOUS
<1>2. PICK m \in Nat \ T : \A k \in Nat \ T : m <= k
  BY <1>1, LeastNat
<1>3. m - 1 \in Nat /\ ~(m <= m - 1)
  OBVIOUS
<1>4. m - 1 \in T
  BY <1>2, <1>3
<1>5. (m - 1) + 1 \in T
  BY <1>4
<1>. QED BY <1>5

\* A set of subsets of S that has every subset from which any member can be taken has S.
LEMMA SetInduct ==
  ASSUME NEW S, IsFiniteSet(S), NEW T,
         {} \in T,
         \A A \in SUBSET S : A # {} /\ (\A x \in A : A \ {x} \in T) => A \in T
  PROVE  \A A \in SUBSET S : A \in T
<1> DEFINE N == {n \in Nat : \A A \in SUBSET S : Cardinality(A) = n => A \in T}
<1>1. \A A \in SUBSET S : IsFiniteSet(A) /\ Cardinality(A) \in Nat
  BY FS_Subset, FS_CardinalityType
<1>2. 0 \in N
  BY <1>1, FS_EmptySet
<1>3. ASSUME NEW n \in N PROVE n + 1 \in N
  <2>1. SUFFICES ASSUME NEW A \in SUBSET S, Cardinality(A) = n + 1 PROVE A \in T
    OBVIOUS
  <2>2. A # {}
    <3>1. n \in Nat /\ n + 1 # 0
      OBVIOUS
    <3>. QED BY <2>1, <3>1, FS_EmptySet
  <2>3. ASSUME NEW x \in A PROVE A \ {x} \in T
    <3>1. Cardinality(A \ {x}) = n
      BY <1>1, <2>1, FS_RemoveElement
    <3>. QED BY <3>1
  <2>. QED BY <2>2, <2>3
<1>4. N = Nat
  <2> HIDE DEF N
  <2>1. N \in SUBSET Nat /\ \A n \in N : n + 1 \in N
    BY <1>3 DEF N
  <2>. QED BY <1>2, <2>1, NatInduct
<1>. QED BY <1>1, <1>4

-----------------------------------------------------------------------------
(* The equations of a sum *)

One(s) == CHOOSE x \in s : TRUE

\* What a partial sum g over the subsets of a set has to be at s.
IterBody(f, g, s) == IF s = {} THEN 0 ELSE f[One(s)] + g[s \ {One(s)}]

Iter(f, S) == CHOOSE g : g = [s \in SUBSET S |-> IterBody(f, g, s)]

\* The fold that SumOver is defined by.
LEMMA SumIsIter ==
  ASSUME NEW f, NEW S
  PROVE  SumOver(f, S) = Iter(f, S)[S]
BY DEF SumOver, MapThenSumSet, MapThenFoldSet, Iter, IterBody, One

LEMMA OneIsIn ==
  ASSUME NEW s, s # {}
  PROVE  One(s) \in s
BY DEF One

\* The fold is well defined.
LEMMA IterAt ==
  ASSUME NEW f, NEW S, IsFiniteSet(S)
  PROVE  \A s \in SUBSET S : Iter(f, S)[s] = IterBody(f, Iter(f, S), s)
<1> DEFINE Upto(g, n) == \A s \in SUBSET S : Cardinality(s) <= n => g[s] = IterBody(f, g, s)
           N == {n \in Nat : \E g : Upto(g, n)}
<1>1. \A s \in SUBSET S : IsFiniteSet(s) /\ Cardinality(s) \in Nat
  BY FS_Subset, FS_CardinalityType
<1>2. 0 \in N
  <2>1. Upto([s \in SUBSET S |-> 0], 0)
    BY <1>1, FS_EmptySet DEF IterBody
  <2>. QED BY <2>1
<1>3. ASSUME NEW n \in N PROVE n + 1 \in N
  <2>1. PICK g : Upto(g, n)
    OBVIOUS
  <2> DEFINE h == [s \in SUBSET S |-> IF Cardinality(s) <= n THEN g[s] ELSE IterBody(f, g, s)]
  <2>2. ASSUME NEW s \in SUBSET S, Cardinality(s) <= n + 1 PROVE h[s] = IterBody(f, h, s)
    <3>1. h[s] = IterBody(f, g, s)
      BY <2>1
    <3>2. ASSUME s # {} PROVE h[s \ {One(s)}] = g[s \ {One(s)}]
      <4>1. One(s) \in s /\ s \ {One(s)} \in SUBSET S
        BY <3>2, OneIsIn
      <4>2. Cardinality(s \ {One(s)}) = Cardinality(s) - 1
        BY <1>1, <4>1, FS_RemoveElement
      <4>3. Cardinality(s \ {One(s)}) <= n
        BY <1>1, <2>2, <4>2
      <4> HIDE DEF Upto
      <4>. QED BY <4>1, <4>3
    <3> HIDE DEF h
    <3>. QED BY <3>1, <3>2 DEF IterBody
  <2>3. Upto(h, n + 1)
    BY <2>2
  <2>4. \E k : Upto(k, n + 1)
    <3> HIDE DEF h, Upto
    <3>. QED BY <2>3
  <2>. QED BY <2>4
<1>4. N = Nat
  <2> HIDE DEF N
  <2>1. N \in SUBSET Nat /\ \A n \in N : n + 1 \in N
    BY <1>3 DEF N
  <2>. QED BY <1>2, <2>1, NatInduct
<1>5. PICK g : Upto(g, Cardinality(S))
  <2>1. Cardinality(S) \in N
    BY <1>1, <1>4
  <2>. QED BY <2>1
<1>6. \A s \in SUBSET S : Cardinality(s) <= Cardinality(S)
  BY FS_Subset
<1> DEFINE h == [s \in SUBSET S |-> g[s]]
<1>7. h = [s \in SUBSET S |-> IterBody(f, h, s)]
  <2>1. ASSUME NEW s \in SUBSET S PROVE h[s] = IterBody(f, h, s)
    <3>1. h[s] = IterBody(f, g, s)
      BY <1>5, <1>6
    <3>2. s # {} => s \ {One(s)} \in SUBSET S
      OBVIOUS
    <3>. QED BY <3>1, <3>2 DEF IterBody
  <2>. QED BY <2>1
<1>8. Iter(f, S) = [s \in SUBSET S |-> IterBody(f, Iter(f, S), s)]
  <2> HIDE DEF h
  <2>. QED BY <1>7 DEF Iter
<1> DEFINE k == Iter(f, S)
<1> HIDE DEF k
<1>9. k = [s \in SUBSET S |-> IterBody(f, k, s)]
  BY <1>8 DEF k
<1>10. \A s \in SUBSET S : k[s] = IterBody(f, k, s)
  BY <1>9
<1>. QED BY <1>10 DEF k

\* Folds over a set and over a larger one agree.
LEMMA IterAgrees ==
  ASSUME NEW f, NEW S, IsFiniteSet(S), NEW A \in SUBSET S
  PROVE  Iter(f, A)[A] = Iter(f, S)[A]
<1> DEFINE T == {B \in SUBSET S : \A C \in SUBSET S : B \subseteq C => Iter(f, C)[B] = Iter(f, S)[B]}
<1>1. \A C \in SUBSET S : IsFiniteSet(C)
  BY FS_Subset
<1>2. ASSUME NEW B \in SUBSET S, NEW C \in SUBSET S, B \subseteq C
      PROVE  Iter(f, C)[B] = IterBody(f, Iter(f, C), B)
  <2>1. B \in SUBSET C  BY <1>2
  <2>. QED BY <1>1, <2>1, IterAt
<1>3. {} \in T
  BY <1>2 DEF IterBody
<1>4. ASSUME NEW B \in SUBSET S, B # {}, \A x \in B : B \ {x} \in T PROVE B \in T
  <2>1. SUFFICES ASSUME NEW C \in SUBSET S, B \subseteq C
                 PROVE  Iter(f, C)[B] = Iter(f, S)[B]
    OBVIOUS
  <2>2. One(B) \in B
    BY <1>4, OneIsIn
  <2>3. Iter(f, C)[B \ {One(B)}] = Iter(f, S)[B \ {One(B)}]
    BY <1>4, <2>1, <2>2
  <2>4. Iter(f, C)[B] = IterBody(f, Iter(f, C), B) /\ Iter(f, S)[B] = IterBody(f, Iter(f, S), B)
    BY <1>2, <2>1
  <2>. QED BY <2>3, <2>4 DEF IterBody
<1>5. A \in T
  <2> HIDE DEF T
  <2>1. \A B \in SUBSET S : B # {} /\ (\A x \in B : B \ {x} \in T) => B \in T
    BY <1>4
  <2>2. \A B \in SUBSET S : B \in T
    BY <1>3, <2>1, SetInduct, Zenon
  <2>. QED BY <2>2
<1>. QED BY <1>5

LEMMA SumEmpty ==
  ASSUME NEW f
  PROVE  SumOver(f, {}) = 0
<1>1. {} \in SUBSET {}
  OBVIOUS
<1>2. Iter(f, {})[{}] = IterBody(f, Iter(f, {}), {})
  BY <1>1, FS_EmptySet, IterAt
<1>. QED BY <1>2, SumIsIter DEF IterBody

\* The member the fold takes first.
LEMMA SumOfOne ==
  ASSUME NEW f, NEW S, IsFiniteSet(S), S # {}
  PROVE  SumOver(f, S) = f[One(S)] + SumOver(f, S \ {One(S)})
<1>1. Iter(f, S)[S] = IterBody(f, Iter(f, S), S)
  <2>1. S \in SUBSET S
    OBVIOUS
  <2>. QED BY <2>1, IterAt
<1>2. S \ {One(S)} \in SUBSET S
  OBVIOUS
<1>3. Iter(f, S \ {One(S)})[S \ {One(S)}] = Iter(f, S)[S \ {One(S)}]
  BY <1>2, IterAgrees
<1>. QED BY <1>1, <1>3, SumIsIter DEF IterBody

\* The sum of integers is one, and of natural numbers.
LEMMA SumInt ==
  ASSUME NEW f, NEW S, IsFiniteSet(S), \A x \in S : f[x] \in Int
  PROVE  SumOver(f, S) \in Int
<1> DEFINE T == {A \in SUBSET S : SumOver(f, A) \in Int}
<1>1. {} \in T
  BY SumEmpty
<1>2. ASSUME NEW A \in SUBSET S, A # {}, \A x \in A : A \ {x} \in T PROVE A \in T
  <2>1. SumOver(f, A) = f[One(A)] + SumOver(f, A \ {One(A)})
    BY <1>2, FS_Subset, SumOfOne
  <2>. QED BY <1>2, <2>1, OneIsIn
<1>3. S \in T
  <2> HIDE DEF T
  <2>1. \A B \in SUBSET S : B # {} /\ (\A x \in B : B \ {x} \in T) => B \in T
    BY <1>2
  <2>2. \A B \in SUBSET S : B \in T
    BY <1>1, <2>1, SetInduct, Zenon
  <2>. QED BY <2>2
<1>. QED BY <1>3

LEMMA SumNat ==
  ASSUME NEW f, NEW S, IsFiniteSet(S), \A x \in S : f[x] \in Nat
  PROVE  SumOver(f, S) \in Nat
<1> DEFINE T == {A \in SUBSET S : SumOver(f, A) \in Nat}
<1>1. {} \in T
  BY SumEmpty
<1>2. ASSUME NEW A \in SUBSET S, A # {}, \A x \in A : A \ {x} \in T PROVE A \in T
  <2>1. SumOver(f, A) = f[One(A)] + SumOver(f, A \ {One(A)})
    BY <1>2, FS_Subset, SumOfOne
  <2>. QED BY <1>2, <2>1, OneIsIn
<1>3. S \in T
  <2> HIDE DEF T
  <2>1. \A B \in SUBSET S : B # {} /\ (\A x \in B : B \ {x} \in T) => B \in T
    BY <1>2
  <2>2. \A B \in SUBSET S : B \in T
    BY <1>1, <2>1, SetInduct, Zenon
  <2>. QED BY <2>2
<1>. QED BY <1>3

\* Any member may be taken out.
LEMMA SumTake ==
  ASSUME NEW f, NEW S, IsFiniteSet(S), \A x \in S : f[x] \in Int, NEW y \in S
  PROVE  SumOver(f, S) = f[y] + SumOver(f, S \ {y})
<1> DEFINE T == {A \in SUBSET S : \A x \in A : SumOver(f, A) = f[x] + SumOver(f, A \ {x})}
<1>1. {} \in T
  OBVIOUS
<1>2. ASSUME NEW A \in SUBSET S, A # {}, \A x \in A : A \ {x} \in T PROVE A \in T
  <2>1. SUFFICES ASSUME NEW x \in A PROVE SumOver(f, A) = f[x] + SumOver(f, A \ {x})
    OBVIOUS
  <2> DEFINE z == One(A)
  <2>2. z \in A /\ IsFiniteSet(A)
    BY <1>2, FS_Subset, OneIsIn
  <2>3. SumOver(f, A) = f[z] + SumOver(f, A \ {z})
    BY <2>1, <2>2, SumOfOne
  <2>4. CASE x = z
    BY <2>3, <2>4
  <2>5. CASE x # z
    <3> DEFINE B == (A \ {z}) \ {x}
    <3>1. B = (A \ {x}) \ {z} /\ B \in SUBSET S
      OBVIOUS
    <3>2. SumOver(f, A \ {z}) = f[x] + SumOver(f, B)
      BY <1>2, <2>2, <2>5
    <3>3. SumOver(f, A \ {x}) = f[z] + SumOver(f, B)
      BY <1>2, <2>2, <2>5, <3>1
    <3>4. SumOver(f, B) \in Int /\ f[x] \in Int /\ f[z] \in Int
      BY <2>2, <3>1, FS_Subset, SumInt
    <3> HIDE DEF B, z
    <3>. QED BY <2>3, <3>2, <3>3, <3>4
  <2>. QED BY <2>4, <2>5
<1>3. S \in T
  <2> HIDE DEF T
  <2>1. \A B \in SUBSET S : B # {} /\ (\A x \in B : B \ {x} \in T) => B \in T
    BY <1>2
  <2>2. \A B \in SUBSET S : B \in T
    BY <1>1, <2>1, SetInduct, Zenon
  <2>. QED BY <2>2
<1>. QED BY <1>3

-----------------------------------------------------------------------------
(* The algebra of sums *)

\* A sum depends on the values at the members only.
LEMMA SumSame ==
  ASSUME NEW f, NEW g, NEW S, IsFiniteSet(S), \A x \in S : f[x] = g[x]
  PROVE  SumOver(f, S) = SumOver(g, S)
<1> DEFINE T == {A \in SUBSET S : SumOver(f, A) = SumOver(g, A)}
<1>1. {} \in T
  BY SumEmpty
<1>2. ASSUME NEW A \in SUBSET S, A # {}, \A x \in A : A \ {x} \in T PROVE A \in T
  <2>1. /\ SumOver(f, A) = f[One(A)] + SumOver(f, A \ {One(A)})
        /\ SumOver(g, A) = g[One(A)] + SumOver(g, A \ {One(A)})
    BY <1>2, FS_Subset, SumOfOne
  <2>. QED BY <1>2, <2>1, OneIsIn
<1>3. S \in T
  <2> HIDE DEF T
  <2>1. \A B \in SUBSET S : B # {} /\ (\A x \in B : B \ {x} \in T) => B \in T
    BY <1>2
  <2>2. \A B \in SUBSET S : B \in T
    BY <1>1, <2>1, SetInduct, Zenon
  <2>. QED BY <2>2
<1>. QED BY <1>3

\* One value changed.
LEMMA SumChange ==
  ASSUME NEW f, NEW g, NEW S, IsFiniteSet(S), NEW y \in S,
         \A x \in S : f[x] \in Int /\ g[x] \in Int, \A x \in S \ {y} : g[x] = f[x]
  PROVE  SumOver(g, S) = SumOver(f, S) + (g[y] - f[y])
<1> DEFINE R == S \ {y}
<1>1. SumOver(f, S) = f[y] + SumOver(f, R) /\ SumOver(g, S) = g[y] + SumOver(g, R)
  BY SumTake
<1>2. IsFiniteSet(R)
  BY FS_Subset
<1> HIDE DEF R
<1>3. SumOver(g, R) = SumOver(f, R)
  BY <1>2, SumSame DEF R
<1>4. SumOver(f, R) \in Int /\ f[y] \in Int /\ g[y] \in Int
  BY <1>2, SumInt DEF R
<1>. QED BY <1>1, <1>3, <1>4

\* The sum of two functions.
LEMMA SumPlus ==
  ASSUME NEW f, NEW g, NEW h, NEW S, IsFiniteSet(S),
         \A x \in S : f[x] \in Int /\ g[x] \in Int /\ h[x] = f[x] + g[x]
  PROVE  SumOver(h, S) = SumOver(f, S) + SumOver(g, S)
<1> DEFINE T == {A \in SUBSET S : SumOver(h, A) = SumOver(f, A) + SumOver(g, A)}
<1>1. {} \in T
  BY SumEmpty
<1>2. ASSUME NEW A \in SUBSET S, A # {}, \A x \in A : A \ {x} \in T PROVE A \in T
  <2> DEFINE z == One(A)
             B == A \ {z}
  <2>1. z \in A /\ IsFiniteSet(A) /\ IsFiniteSet(B)
    BY <1>2, FS_Subset, OneIsIn
  <2>2. /\ SumOver(f, A) = f[z] + SumOver(f, B)
        /\ SumOver(g, A) = g[z] + SumOver(g, B)
        /\ SumOver(h, A) = h[z] + SumOver(h, B)
    BY <1>2, <2>1, SumOfOne
  <2>3. SumOver(h, B) = SumOver(f, B) + SumOver(g, B)
    BY <1>2, <2>1
  <2>4. /\ f[z] \in Int /\ g[z] \in Int /\ h[z] = f[z] + g[z]
        /\ \A x \in B : f[x] \in Int /\ g[x] \in Int
    BY <2>1
  <2> HIDE DEF B, z
  <2>5. SumOver(f, B) \in Int /\ SumOver(g, B) \in Int
    BY <2>1, <2>4, SumInt
  <2>6. SumOver(h, A) = SumOver(f, A) + SumOver(g, A)
    BY <2>2, <2>3, <2>4, <2>5
  <2>. QED BY <2>6
<1>3. S \in T
  <2> HIDE DEF T
  <2>1. \A B \in SUBSET S : B # {} /\ (\A x \in B : B \ {x} \in T) => B \in T
    BY <1>2
  <2>2. \A B \in SUBSET S : B \in T
    BY <1>1, <2>1, SetInduct, Zenon
  <2>. QED BY <2>2
<1>. QED BY <1>3

\* The same number at every member.
LEMMA SumConst ==
  ASSUME NEW f, NEW c \in Int, NEW S, IsFiniteSet(S), \A x \in S : f[x] = c
  PROVE  SumOver(f, S) = c * Cardinality(S)
<1> DEFINE T == {A \in SUBSET S : SumOver(f, A) = c * Cardinality(A)}
<1>1. {} \in T
  BY SumEmpty, FS_EmptySet
<1>2. ASSUME NEW A \in SUBSET S, A # {}, \A x \in A : A \ {x} \in T PROVE A \in T
  <2> DEFINE z == One(A)
             B == A \ {z}
  <2>1. z \in A /\ IsFiniteSet(A)
    BY <1>2, FS_Subset, OneIsIn
  <2>2. SumOver(f, A) = c + SumOver(f, B)
    BY <1>2, <2>1, SumOfOne
  <2>3. SumOver(f, B) = c * Cardinality(B)
    BY <1>2, <2>1
  <2>4. Cardinality(A) \in Nat /\ Cardinality(B) = Cardinality(A) - 1
    BY <2>1, FS_RemoveElement, FS_CardinalityType
  <2> HIDE DEF B, z
  <2>5. c + c * (Cardinality(A) - 1) = c * Cardinality(A)
    BY <2>4
  <2>6. SumOver(f, A) = c * Cardinality(A)
    BY <2>2, <2>3, <2>4, <2>5
  <2>. QED BY <2>6
<1>3. S \in T
  <2> HIDE DEF T
  <2>1. \A B \in SUBSET S : B # {} /\ (\A x \in B : B \ {x} \in T) => B \in T
    BY <1>2
  <2>2. \A B \in SUBSET S : B \in T
    BY <1>1, <2>1, SetInduct, Zenon
  <2>. QED BY <2>2
<1>. QED BY <1>3

LEMMA SumZero ==
  ASSUME NEW f, NEW S, IsFiniteSet(S), \A x \in S : f[x] = 0
  PROVE  SumOver(f, S) = 0
<1>1. SumOver(f, S) = 0 * Cardinality(S) /\ Cardinality(S) \in Nat
  BY SumConst, FS_CardinalityType
<1>. QED BY <1>1

\* Sums keep the order of their values.
LEMMA SumLE ==
  ASSUME NEW f, NEW g, NEW S, IsFiniteSet(S),
         \A x \in S : f[x] \in Int /\ g[x] \in Int /\ f[x] <= g[x]
  PROVE  SumOver(f, S) <= SumOver(g, S)
<1> DEFINE d == [x \in S |-> g[x] - f[x]]
<1>1. \A x \in S : d[x] \in Nat /\ d[x] \in Int /\ g[x] = f[x] + d[x]
  OBVIOUS
<1> HIDE DEF d
<1>2. SumOver(g, S) = SumOver(f, S) + SumOver(d, S)
  BY <1>1, SumPlus
<1>3. SumOver(f, S) \in Int /\ SumOver(d, S) \in Nat
  BY <1>1, SumInt, SumNat
<1>. QED BY <1>2, <1>3

\* No value is larger than the sum of them all.
LEMMA SumMember ==
  ASSUME NEW f, NEW S, IsFiniteSet(S), \A x \in S : f[x] \in Nat, NEW y \in S
  PROVE  f[y] <= SumOver(f, S)
<1>1. SumOver(f, S) = f[y] + SumOver(f, S \ {y})
  BY SumTake
<1>2. IsFiniteSet(S \ {y})
  BY FS_Subset
<1>3. SumOver(f, S \ {y}) \in Nat
  BY <1>2, SumNat
<1>. QED BY <1>1, <1>3

\* The values outside a part are left out by setting them to 0.
LEMMA SumPart ==
  ASSUME NEW f, NEW g, NEW S, IsFiniteSet(S), NEW B \in SUBSET S,
         \A x \in S : f[x] \in Int /\ g[x] = IF x \in B THEN f[x] ELSE 0
  PROVE  SumOver(f, B) = SumOver(g, S)
<1> DEFINE T == {A \in SUBSET S : SumOver(f, A \cap B) = SumOver(g, A)}
<1>1. {} \in T
  <2>1. {} \cap B = {}
    OBVIOUS
  <2>. QED BY <2>1, SumEmpty
<1>2. ASSUME NEW A \in SUBSET S, A # {}, \A x \in A : A \ {x} \in T PROVE A \in T
  <2> DEFINE z == One(A)
             C == A \ {z}
  <2>1. z \in A /\ z \in S /\ IsFiniteSet(A) /\ IsFiniteSet(A \cap B) /\ IsFiniteSet(C \cap B)
    BY <1>2, FS_Subset, OneIsIn
  <2>2. SumOver(g, A) = g[z] + SumOver(g, C)
    BY <1>2, <2>1, SumOfOne
  <2>3. SumOver(f, C \cap B) = SumOver(g, C)
    BY <1>2, <2>1
  <2>4. \A x \in A \cap B : f[x] \in Int
    OBVIOUS
  <2>5. CASE z \in B
    <3>1. (A \cap B) \ {z} = C \cap B /\ z \in A \cap B
      BY <2>1, <2>5
    <3>2. SumOver(f, A \cap B) = f[z] + SumOver(f, (A \cap B) \ {z})
      BY <2>1, <2>4, <3>1, SumTake
    <3>. QED BY <2>1, <2>2, <2>3, <2>5, <3>1, <3>2
  <2>6. CASE z \notin B
    <3>1. A \cap B = C \cap B
      BY <2>6
    <3>2. SumOver(f, C \cap B) \in Int
      BY <2>1, SumInt
    <3>3. g[z] = 0
      BY <2>1, <2>6
    <3> HIDE DEF C, z
    <3>4. SumOver(g, A) = SumOver(g, C)
      BY <2>2, <2>3, <3>2, <3>3
    <3>5. SumOver(f, A \cap B) = SumOver(g, A)
      BY <2>3, <3>1, <3>4
    <3>. QED BY <3>5
  <2>. QED BY <2>5, <2>6
<1>3. S \in T
  <2> HIDE DEF T
  <2>1. \A A \in SUBSET S : A # {} /\ (\A x \in A : A \ {x} \in T) => A \in T
    BY <1>2
  <2>2. \A A \in SUBSET S : A \in T
    BY <1>1, <2>1, SetInduct, Zenon
  <2>. QED BY <2>2
<1>4. S \cap B = B
  OBVIOUS
<1>. QED BY <1>3, <1>4

\* A sum over a set is the sum over two parts of it.
LEMMA SumSplit ==
  ASSUME NEW f, NEW S, IsFiniteSet(S), \A x \in S : f[x] \in Int, NEW B \in SUBSET S
  PROVE  SumOver(f, S) = SumOver(f, B) + SumOver(f, S \ B)
<1> DEFINE g == [x \in S |-> IF x \in B THEN f[x] ELSE 0]
           h == [x \in S |-> IF x \in S \ B THEN f[x] ELSE 0]
<1>1. \A x \in S : /\ f[x] \in Int /\ g[x] \in Int /\ h[x] \in Int /\ f[x] = g[x] + h[x]
                   /\ g[x] = IF x \in B THEN f[x] ELSE 0
                   /\ h[x] = IF x \in S \ B THEN f[x] ELSE 0
  OBVIOUS
<1> HIDE DEF g, h
<1>2. SumOver(f, S) = SumOver(g, S) + SumOver(h, S)
  BY <1>1, SumPlus
<1>3. SumOver(f, B) = SumOver(g, S)
  BY <1>1, SumPart
<1>4. SumOver(f, S \ B) = SumOver(h, S)
  <2>1. S \ B \in SUBSET S
    OBVIOUS
  <2>. QED BY <1>1, <2>1, SumPart
<1>. QED BY <1>2, <1>3, <1>4

\* A table of numbers is summed by rows or by columns.
LEMMA SumSwap ==
  ASSUME NEW R, IsFiniteSet(R), NEW S, IsFiniteSet(S), NEW F \in [S -> [R -> Int]]
  PROVE  SumOver([x \in S |-> SumOver(F[x], R)], S)
           = SumOver([y \in R |-> SumOver([x \in S |-> F[x][y]], S)], R)
<1> DEFINE row == [x \in S |-> SumOver(F[x], R)]
           col(y) == [x \in S |-> F[x][y]]
           cols(A) == [y \in R |-> SumOver(col(y), A)]
           T == {A \in SUBSET S : SumOver(row, A) = SumOver(cols(A), R)}
<1>1. \A A \in SUBSET S : IsFiniteSet(A)
  BY FS_Subset
<1>2. {} \in T
  <2>1. \A y \in R : cols({})[y] = 0
    BY SumEmpty
  <2> HIDE DEF cols, row
  <2>2. SumOver(cols({}), R) = 0
    BY <2>1, SumZero
  <2>. QED BY <2>2, SumEmpty
<1>3. ASSUME NEW A \in SUBSET S, A # {}, \A x \in A : A \ {x} \in T PROVE A \in T
  <2> DEFINE z == One(A)
             C == A \ {z}
  <2>1. z \in A /\ z \in S /\ IsFiniteSet(A) /\ IsFiniteSet(C) /\ C \in SUBSET S
    BY <1>1, <1>3, OneIsIn
  <2> HIDE DEF z
  <2>2. SumOver(row, A) = SumOver(F[z], R) + SumOver(row, C)
    <3>1. row[z] = SumOver(F[z], R)
      BY <2>1
    <3> HIDE DEF row
    <3>. QED BY <1>3, <2>1, <3>1, SumOfOne DEF z
  <2>3. SumOver(row, C) = SumOver(cols(C), R)
    BY <1>3, <2>1
  <2>4. \A y \in R : /\ F[z][y] \in Int /\ cols(C)[y] \in Int
                     /\ cols(A)[y] = F[z][y] + cols(C)[y]
    <3>1. TAKE y \in R
    <3>2. \A x \in S : col(y)[x] \in Int
      OBVIOUS
    <3>3. col(y)[z] = F[z][y] /\ F[z][y] \in Int
      BY <2>1
    <3>4. cols(C)[y] = SumOver(col(y), C) /\ cols(A)[y] = SumOver(col(y), A)
      OBVIOUS
    <3> HIDE DEF col, cols
    <3>5. SumOver(col(y), A) = F[z][y] + SumOver(col(y), C)
      BY <1>3, <2>1, <3>3, SumOfOne DEF z
    <3>6. SumOver(col(y), C) \in Int
      BY <2>1, <3>2, SumInt
    <3>. QED BY <3>3, <3>4, <3>5, <3>6
  <2> DEFINE fz == F[z]
             a == cols(A)
             c == cols(C)
  <2>5. SumOver(a, R) = SumOver(fz, R) + SumOver(c, R)
    <3>1. \A y \in R : fz[y] \in Int /\ c[y] \in Int /\ a[y] = fz[y] + c[y]
      BY <2>4
    <3> HIDE DEF fz, a, c
    <3>. QED BY <3>1, SumPlus
  <2> HIDE DEF row, cols
  <2>6. SumOver(row, A) = SumOver(cols(A), R)
    BY <2>2, <2>3, <2>5
  <2>. QED BY <2>6
<1>4. S \in T
  <2> HIDE DEF T
  <2>1. \A A \in SUBSET S : A # {} /\ (\A x \in A : A \ {x} \in T) => A \in T
    BY <1>3
  <2>2. \A A \in SUBSET S : A \in T
    BY <1>2, <2>1, SetInduct, Zenon
  <2>. QED BY <2>2
<1> HIDE DEF row, cols
<1>5. SumOver(row, S) = SumOver(cols(S), R)
  BY <1>4
<1>. QED BY <1>5 DEF row, cols

-----------------------------------------------------------------------------
(* Finite sets *)

\* The largest of finitely many numbers.
LEMMA MaxOfNat ==
  ASSUME NEW S \in SUBSET Nat, IsFiniteSet(S), S # {}
  PROVE  Max(S) \in S /\ \A y \in S : y <= Max(S)
<1>. DEFINE T == {A \in SUBSET S : A # {} => \E x \in A : \A y \in A : x >= y}
<1>1. {} \in T
  OBVIOUS
<1>2. ASSUME NEW A \in SUBSET S, A # {}, \A x \in A : A \ {x} \in T PROVE A \in T
  <2>1. PICK z \in A : TRUE
    BY <1>2
  <2>2. CASE A = {z}
    BY <2>2
  <2>3. CASE A # {z}
    <3>1. A \ {z} # {} /\ A \ {z} \in T
      BY <1>2, <2>1, <2>3
    <3>2. PICK x \in A \ {z} : \A y \in A \ {z} : x >= y
      BY <3>1
    <3>3. x \in Nat /\ z \in Nat /\ \A y \in A : y \in Nat
      BY <2>1
    <3>4. CASE x >= z
      BY <3>2, <3>4
    <3>5. CASE ~(x >= z)
      <4>1. \A y \in A : z >= y
        BY <3>2, <3>3, <3>5
      <4>. QED BY <2>1, <4>1
    <3>. QED BY <3>4, <3>5
  <2>. QED BY <2>2, <2>3
<1>3. S \in T
  <2>. HIDE DEF T
  <2>1. \A A \in SUBSET S : A # {} /\ (\A x \in A : A \ {x} \in T) => A \in T
    BY <1>2
  <2>2. \A A \in SUBSET S : A \in T
    BY <1>1, <2>1, SetInduct, Zenon
  <2>. QED BY <2>2
<1>4. \E x \in S : \A y \in S : x >= y
  BY <1>3
<1>5. Max(S) \in S /\ \A y \in S : Max(S) >= y
  BY <1>4 DEF Max
<1>. QED BY <1>5

\* The values of a function on a finite set.
LEMMA ImageFinite ==
  ASSUME NEW S, IsFiniteSet(S), NEW f
  PROVE  IsFiniteSet({f[x] : x \in S})
<1>. DEFINE T == {f[x] : x \in S}
            g == [x \in S |-> f[x]]
<1>1. g \in [S -> T] /\ \A y \in T : \E x \in S : g[x] = y
  OBVIOUS
<1>. HIDE DEF g
<1>2. g \in Surjection(S, T)
  <2>. HIDE DEF T
  <2>. QED BY <1>1 DEF Surjection
<1>. HIDE DEF T
<1>3. IsFiniteSet(T)
  BY <1>2, FS_Surjection
<1>. QED BY <1>3 DEF T


\* A sum over the images of a set under a map that tells its members apart.
LEMMA SumImage ==
  ASSUME NEW S, IsFiniteSet(S), NEW e, NEW f, NEW g,
         \A x, y \in S : x # y => e[x] # e[y],
         \A x \in S : f[x] \in Int /\ g[e[x]] = f[x]
  PROVE  SumOver(f, S) = SumOver(g, {e[x] : x \in S})
<1> DEFINE im(A) == {e[x] : x \in A}
           T == {A \in SUBSET S : SumOver(f, A) = SumOver(g, im(A))}
<1>1. {} \in T
  <2>1. im({}) = {}
    OBVIOUS
  <2> HIDE DEF im
  <2>. QED BY <2>1, SumEmpty
<1>2. ASSUME NEW A \in SUBSET S, A # {}, \A x \in A : A \ {x} \in T PROVE A \in T
  <2>1. PICK z \in A : TRUE
    BY <1>2
  <2>2. IsFiniteSet(A) /\ IsFiniteSet(im(A)) /\ \A x \in A : f[x] \in Int
    <3>1. IsFiniteSet(A)
      BY FS_Subset
    <3>. QED BY <3>1, ImageFinite
  <2>3. SumOver(f, A) = f[z] + SumOver(f, A \ {z})
    BY <2>2, SumTake
  <2>4. im(A) \ {e[z]} = im(A \ {z}) /\ e[z] \in im(A) /\ g[e[z]] = f[z]
    BY <2>1
  <2>5. \A y \in im(A) : g[y] \in Int
    OBVIOUS
  <2>6. SumOver(f, A \ {z}) = SumOver(g, im(A \ {z}))
    BY <1>2
  <2> HIDE DEF im
  <2>7. SumOver(g, im(A)) = g[e[z]] + SumOver(g, im(A) \ {e[z]})
    BY <2>2, <2>4, <2>5, SumTake
  <2>. QED BY <2>3, <2>4, <2>6, <2>7
<1>3. S \in T
  <2> HIDE DEF T
  <2>1. \A A \in SUBSET S : A # {} /\ (\A x \in A : A \ {x} \in T) => A \in T
    BY <1>2
  <2>2. \A A \in SUBSET S : A \in T
    BY <1>1, <2>1, SetInduct, Zenon
  <2>. QED BY <2>2
<1>. QED BY <1>3

\* The members of S that c maps to what it maps x to.
Class(c, S, x) == {y \in S : c[y] = c[x]}

\* Two sums that agree on every class of a partition agree.
LEMMA SumClasses ==
  ASSUME NEW S, IsFiniteSet(S), NEW c, DOMAIN c = S, NEW f, NEW g,
         \A x \in S : f[x] \in Int /\ g[x] \in Int,
         \A x \in S : SumOver(f, Class(c, S, x)) = SumOver(g, Class(c, S, x))
  PROVE  SumOver(f, S) = SumOver(g, S)
<1> DEFINE K == {c[x] : x \in S}
           part(B) == {x \in S : c[x] \in B}
           T == {B \in SUBSET K : SumOver(f, part(B)) = SumOver(g, part(B))}
<1>1. {} \in T
  <2>1. part({}) = {}
    OBVIOUS
  <2> HIDE DEF part
  <2>. QED BY <2>1, SumEmpty
<1>2. ASSUME NEW B \in SUBSET K, B # {}, \A k \in B : B \ {k} \in T PROVE B \in T
  <2>1. PICK k \in B : TRUE
    BY <1>2
  <2> DEFINE P == part(B)
             Q == {y \in S : c[y] = k}
  <2>2. /\ IsFiniteSet(P) /\ Q \in SUBSET P /\ P \ Q = part(B \ {k})
        /\ \A x \in P : f[x] \in Int /\ g[x] \in Int
    BY FS_Subset
  <2>3. SumOver(f, Q) = SumOver(g, Q)
    <3>1. PICK x \in S : k = c[x]
      OBVIOUS
    <3>. QED BY <3>1 DEF Class
  <2>4. SumOver(f, part(B \ {k})) = SumOver(g, part(B \ {k}))
    BY <1>2
  <2>5. B \in T <=> SumOver(f, P) = SumOver(g, P)
    OBVIOUS
  <2> HIDE DEF P, Q, part
  <2>6. /\ SumOver(f, P) = SumOver(f, Q) + SumOver(f, P \ Q)
        /\ SumOver(g, P) = SumOver(g, Q) + SumOver(g, P \ Q)
    BY <2>2, SumSplit
  <2>. QED BY <2>2, <2>3, <2>4, <2>5, <2>6
<1>3. K \in T
  <2>1. IsFiniteSet(K)
    BY ImageFinite
  <2> HIDE DEF T, K
  <2>2. \A B \in SUBSET K : B # {} /\ (\A k \in B : B \ {k} \in T) => B \in T
    BY <1>2
  <2>3. \A B \in SUBSET K : B \in T
    BY <1>1, <2>1, <2>2, SetInduct, Zenon
  <2>. QED BY <2>3
<1>4. part(K) = S
  OBVIOUS
<1>. QED BY <1>3, <1>4

\* A common factor comes out of a sum.
LEMMA SumTimes ==
  ASSUME NEW S, IsFiniteSet(S), NEW c \in Int, NEW f, NEW g,
         \A x \in S : f[x] \in Int /\ g[x] = c * f[x]
  PROVE  SumOver(g, S) = c * SumOver(f, S)
<1> DEFINE T == {A \in SUBSET S : SumOver(g, A) = c * SumOver(f, A)}
<1>1. {} \in T
  <2>1. c * 0 = 0
    OBVIOUS
  <2>. QED BY <2>1, SumEmpty
<1>2. ASSUME NEW A \in SUBSET S, A # {}, \A x \in A : A \ {x} \in T PROVE A \in T
  <2>1. PICK z \in A : TRUE
    BY <1>2
  <2>2. IsFiniteSet(A) /\ IsFiniteSet(A \ {z})
    BY FS_Subset
  <2>3. \A a \in Int : c * a \in Int
    OBVIOUS
  <2>4. \A x \in A : f[x] \in Int /\ g[x] \in Int
    BY <2>3
  <2>5. /\ SumOver(f, A) = f[z] + SumOver(f, A \ {z})
        /\ SumOver(g, A) = g[z] + SumOver(g, A \ {z})
    BY <2>2, <2>4, SumTake
  <2>6. SumOver(g, A \ {z}) = c * SumOver(f, A \ {z}) /\ SumOver(f, A \ {z}) \in Int
    <3>1. \A x \in A \ {z} : f[x] \in Int
      BY <2>4
    <3>. QED BY <1>2, <2>2, <3>1, SumInt
  <2>7. \A a, b \in Int : c * (a + b) = c * a + c * b
    OBVIOUS
  <2>8. SumOver(g, A) = c * SumOver(f, A)
    BY <2>4, <2>5, <2>6, <2>7
  <2>. QED BY <2>8
<1>3. S \in T
  <2> HIDE DEF T
  <2>1. \A A \in SUBSET S : A # {} /\ (\A x \in A : A \ {x} \in T) => A \in T
    BY <1>2
  <2>2. \A A \in SUBSET S : A \in T
    BY <1>1, <2>1, SetInduct, Zenon
  <2>. QED BY <2>2
<1>. QED BY <1>3

-----------------------------------------------------------------------------
(* Ranks in an order *)

\* R, a set of pairs, puts the members of S in one line.
StrictOrder(R, S) ==
  /\ \A x \in S : <<x, x>> \notin R
  /\ \A x, y \in S : x # y => <<x, y>> \in R \/ <<y, x>> \in R
  /\ \A x, y, z \in S : <<x, y>> \in R /\ <<y, z>> \in R => <<x, z>> \in R

Before(R, S, x) == {y \in S : <<y, x>> \in R}

\* A finite set has a last member in such an order.
LEMMA LastOne ==
  ASSUME NEW R, NEW S, IsFiniteSet(S), S # {}, StrictOrder(R, S)
  PROVE  \E z \in S : \A x \in S \ {z} : <<x, z>> \in R
<1> DEFINE T == {A \in SUBSET S : A # {} => \E z \in A : \A x \in A \ {z} : <<x, z>> \in R}
<1>1. {} \in T
  OBVIOUS
<1>2. ASSUME NEW A \in SUBSET S, A # {}, \A x \in A : A \ {x} \in T PROVE A \in T
  <2>1. PICK y \in A : TRUE
    BY <1>2
  <2>2. CASE A = {y}
    BY <2>2
  <2>3. CASE A # {y}
    <3>1. PICK z \in A \ {y} : \A x \in (A \ {y}) \ {z} : <<x, z>> \in R
      BY <1>2, <2>1, <2>3
    <3>2. CASE <<y, z>> \in R
      BY <3>1, <3>2
    <3>3. CASE <<z, y>> \in R
      <4>1. \A x \in A \ {y} : <<x, y>> \in R
        BY <3>1, <3>3 DEF StrictOrder
      <4>. QED BY <2>1, <4>1
    <3>. QED BY <2>1, <3>1, <3>2, <3>3 DEF StrictOrder
  <2>. QED BY <2>2, <2>3
<1>3. S \in T
  <2> HIDE DEF T
  <2>1. \A A \in SUBSET S : A # {} /\ (\A x \in A : A \ {x} \in T) => A \in T
    BY <1>2
  <2>2. \A A \in SUBSET S : A \in T
    BY <1>1, <2>1, SetInduct, Zenon
  <2>. QED BY <2>2
<1>. QED BY <1>3

\* Exactly r members have fewer than r others before them.
LEMMA RankCount ==
  ASSUME NEW R, NEW S, IsFiniteSet(S), StrictOrder(R, S)
  PROVE  \A r \in 0 .. Cardinality(S) :
           Cardinality({x \in S : Cardinality(Before(R, S, x)) < r}) = r
<1>. DEFINE First(A, r) == {x \in A : Cardinality(Before(R, A, x)) < r}
            T == {A \in SUBSET S :
                    \A r \in 0 .. Cardinality(A) : Cardinality(First(A, r)) = r}
<1>1. {} \in T
  <2>1. \A r : First({}, r) = {}
    OBVIOUS
  <2>. HIDE DEF First
  <2>2. \A r \in 0 .. Cardinality({}) : r = 0
    BY FS_EmptySet
  <2>. QED BY <2>1, <2>2, FS_EmptySet
<1>2. ASSUME NEW A \in SUBSET S, A # {}, \A x \in A : A \ {x} \in T PROVE A \in T
  <2>1. IsFiniteSet(A) /\ StrictOrder(R, A)
    BY FS_Subset DEF StrictOrder
  <2>2. PICK z \in A : \A x \in A \ {z} : <<x, z>> \in R
    BY <1>2, <2>1, LastOne
  <2>. DEFINE C == A \ {z}
  <2>3. /\ IsFiniteSet(C) /\ Cardinality(A) \in Nat /\ Cardinality(C) = Cardinality(A) - 1
        /\ Cardinality(C) \in Nat
    BY <2>1, <2>2, FS_RemoveElement, FS_CardinalityType
  <2>4. Before(R, A, z) = C
    BY <2>1, <2>2 DEF Before, StrictOrder
  <2>5. \A x \in C : Before(R, A, x) = Before(R, C, x)
    BY <2>1, <2>2 DEF Before, StrictOrder
  <2>6. \A r \in 0 .. Cardinality(C) : Cardinality(First(C, r)) = r
    BY <1>2, <2>2
  <2>7. \A r \in 0 .. Cardinality(C) : First(A, r) = First(C, r)
    BY <2>2, <2>3, <2>4, <2>5
  <2>8. First(A, Cardinality(A)) = A
    <3>1. ASSUME NEW x \in C PROVE Cardinality(Before(R, A, x)) < Cardinality(A)
      <4>1. Before(R, C, x) \in SUBSET C
        BY DEF Before
      <4>2. Cardinality(Before(R, C, x)) <= Cardinality(C)
            /\ Cardinality(Before(R, C, x)) \in Nat
        BY <2>3, <4>1, FS_Subset, FS_CardinalityType
      <4>3. Before(R, A, x) = Before(R, C, x)
        BY <2>5
      <4>. DEFINE b == Cardinality(Before(R, C, x))
                  c == Cardinality(C)
                  m == Cardinality(A)
      <4>4. b \in Nat /\ c \in Nat /\ m \in Nat /\ b <= c /\ c = m - 1
        BY <2>3, <4>2
      <4>. HIDE DEF b, c, m
      <4>5. b < m
        BY <4>4
      <4>. QED BY <4>3, <4>5 DEF b, m
    <3>2. Cardinality(Before(R, A, z)) < Cardinality(A)
      BY <2>3, <2>4
    <3>3. \A x \in A : Cardinality(Before(R, A, x)) < Cardinality(A)
      BY <3>1, <3>2
    <3>. QED BY <3>3
  <2>. HIDE DEF First, C
  <2>9. \A r \in 0 .. Cardinality(A) : r \in 0 .. Cardinality(C) \/ r = Cardinality(A)
    BY <2>3
  <2>10. \A r \in 0 .. Cardinality(A) : Cardinality(First(A, r)) = r
    BY <2>6, <2>7, <2>8, <2>9
  <2>. QED BY <2>10
<1>3. S \in T
  <2>. HIDE DEF T
  <2>1. \A A \in SUBSET S : A # {} /\ (\A x \in A : A \ {x} \in T) => A \in T
    BY <1>2
  <2>2. \A A \in SUBSET S : A \in T
    BY <1>1, <2>1, SetInduct, Zenon
  <2>. QED BY <2>2
<1>. QED BY <1>3

\* So there is one member for every rank, and who comes before has the lower one.
LEMMA RankOfEach ==
  ASSUME NEW R, NEW S, IsFiniteSet(S), StrictOrder(R, S)
  PROVE  /\ \A x \in S : Cardinality(Before(R, S, x)) \in 0 .. Cardinality(S) - 1
         /\ \A x, y \in S : <<x, y>> \in R
              => Cardinality(Before(R, S, x)) < Cardinality(Before(R, S, y))
         /\ \A k \in 0 .. Cardinality(S) - 1 :
              \E x \in S : Cardinality(Before(R, S, x)) = k
<1>. DEFINE rank(x) == Cardinality(Before(R, S, x))
            First(r) == {x \in S : rank(x) < r}
<1>1. Cardinality(S) \in Nat
  BY FS_CardinalityType
<1>2. ASSUME NEW x \in S PROVE rank(x) \in 0 .. Cardinality(S) - 1
  <2>1. Before(R, S, x) \in SUBSET S /\ Before(R, S, x) # S
    BY DEF Before, StrictOrder
  <2>2. /\ rank(x) \in Nat /\ rank(x) <= Cardinality(S) /\ rank(x) # Cardinality(S)
    BY <2>1, FS_Subset, FS_CardinalityType
  <2>. HIDE DEF rank
  <2>. QED BY <1>1, <2>2
<1>3. ASSUME NEW x \in S, NEW y \in S, <<x, y>> \in R PROVE rank(x) < rank(y)
  <2>1. Before(R, S, x) \in SUBSET Before(R, S, y)
    BY <1>3 DEF Before, StrictOrder
  <2>2. x \in Before(R, S, y) /\ x \notin Before(R, S, x)
    BY <1>3 DEF Before, StrictOrder
  <2>3. IsFiniteSet(Before(R, S, y))
    BY FS_Subset DEF Before
  <2>4. rank(x) <= rank(y) /\ rank(x) # rank(y)
    BY <2>1, <2>2, <2>3, FS_Subset
  <2>5. rank(x) \in Nat /\ rank(y) \in Nat
    BY <1>2
  <2>. HIDE DEF rank
  <2>. QED BY <2>4, <2>5
<1>4. ASSUME NEW k \in 0 .. Cardinality(S) - 1 PROVE \E x \in S : rank(x) = k
  <2>1. k \in Nat /\ k \in 0 .. Cardinality(S) /\ k + 1 \in 0 .. Cardinality(S)
    BY <1>1
  <2>2. Cardinality(First(k)) = k /\ Cardinality(First(k + 1)) = k + 1
    BY <2>1, RankCount
  <2>3. First(k) # First(k + 1)
    <3>1. k # k + 1
      BY <2>1
    <3>. HIDE DEF First
    <3>. QED BY <2>2, <3>1
  <2>4. \A x \in S : rank(x) \in Nat
    BY <1>2
  <2>. HIDE DEF rank
  <2>5. \A x \in S : rank(x) < k + 1 => rank(x) < k \/ rank(x) = k
    BY <2>1, <2>4
  <2>6. \A x \in S : rank(x) < k => rank(x) < k + 1
    BY <2>1, <2>4
  <2>. QED BY <2>3, <2>5, <2>6
<1>. QED BY <1>2, <1>3, <1>4

\* Equal shares of an amount and one more each for the first in the line, as many as are
\* left over, add up to the amount.
LEMMA SharesSum ==
  ASSUME NEW R, NEW W, IsFiniteSet(W), W # {}, StrictOrder(R, W), NEW a \in Nat, NEW f,
         \A x \in W : f[x] = a \div Cardinality(W)
                        + (IF Cardinality(Before(R, W, x)) < a % Cardinality(W) THEN 1 ELSE 0)
  PROVE  SumOver(f, W) = a
<1>. DEFINE n == Cardinality(W)
            odd == {x \in W : Cardinality(Before(R, W, x)) < a % n}
            one == [x \in W |-> 1]
            even == [x \in W |-> a \div n]
            extra == [x \in W |-> IF x \in odd THEN 1 ELSE 0]
<1>1. n \in Nat /\ n > 0
  <2>1. n \in Nat /\ n # 0
    BY FS_CardinalityType, FS_EmptySet
  <2>. QED BY <2>1
<1>2. a \div n \in Nat /\ a % n \in 0 .. n - 1 /\ a = n * (a \div n) + (a % n)
  <2>. HIDE DEF n
  <2>. QED BY <1>1
<1>3. Cardinality(odd) = a % n /\ odd \in SUBSET W /\ IsFiniteSet(odd)
  <2>1. a % n \in 0 .. Cardinality(W)
    BY <1>1, <1>2
  <2>. QED BY <2>1, RankCount, FS_Subset
<1>4. \A x \in W : /\ one[x] = 1 /\ even[x] = a \div n /\ f[x] = even[x] + extra[x]
                   /\ extra[x] = IF x \in odd THEN one[x] ELSE 0
  OBVIOUS
<1>. HIDE DEF n, odd, one, even, extra
<1>5. \A x \in W : one[x] \in Int /\ even[x] \in Int /\ extra[x] \in Int
  BY <1>2, <1>4
<1>6. SumOver(f, W) = SumOver(even, W) + SumOver(extra, W)
  BY <1>4, <1>5, SumPlus
<1>7. SumOver(even, W) = (a \div n) * n
  BY <1>2, <1>4, SumConst DEF n
<1>8. SumOver(extra, W) = 1 * Cardinality(odd)
  <2>1. SumOver(one, odd) = SumOver(extra, W)
    BY <1>3, <1>4, <1>5, SumPart
  <2>2. \A x \in odd : one[x] = 1
    BY <1>3, <1>4
  <2>3. SumOver(one, odd) = 1 * Cardinality(odd)
    BY <1>3, <2>2, SumConst
  <2>. QED BY <2>1, <2>3
<1>9. (a \div n) * n = n * (a \div n)
  BY <1>1, <1>2
<1>. QED BY <1>2, <1>3, <1>6, <1>7, <1>8, <1>9

-----------------------------------------------------------------------------
(* Seat order *)

\* Every seat lies at a positive distance to the left of every other.
LEMMA DistanceType ==
  ASSUME NEW a \in Seats, NEW b \in Seats
  PROVE  Distance(a, b) \in Nat /\ Distance(a, b) > 0
BY NumSeatsAssumption DEF Distance, Seats

LEMMA LowestSeat ==
  ASSUME NEW S \in SUBSET Seats, S # {}
  PROVE  Min(S) \in S /\ \A j \in S : Min(S) <= j
<1>1. S \in SUBSET Nat
  BY DEF Seats
<1>2. \E i \in S : \A j \in S : i <= j
  BY <1>1, LeastNat
<1>. QED BY <1>2 DEF Min

\* A walk that begins at a seat, or before seat 0, finds a member of the set, and none is
\* closer to the left.
LEMMA FirstAfterIsNearest ==
  ASSUME NEW from \in -1 .. NumSeats - 1, NEW S \in SUBSET Seats, S # {}
  PROVE  /\ FirstAfter(from, S) \in S
         /\ \A j \in S : Distance(from, FirstAfter(from, S)) <= Distance(from, j)
<1>. DEFINE left == {i \in S : i > from}
            f == FirstAfter(from, S)
<1>1. S \in SUBSET Nat /\ \A i \in S : i <= NumSeats - 1
  BY NumSeatsAssumption DEF Seats
<1>2. CASE left = {}
  <2>1. f = Min(S)
    BY <1>2 DEF FirstAfter
  <2>. HIDE DEF f
  <2>2. f \in S /\ \A j \in S : f <= j
    BY <2>1, LowestSeat
  <2>3. \A j \in S : ~(j > from)
    BY <1>2
  <2>4. \A j \in S : Distance(from, f) <= Distance(from, j)
    BY <1>1, <2>2, <2>3, NumSeatsAssumption DEF Distance
  <2>. QED BY <2>2, <2>4 DEF f
<1>3. CASE left # {}
  <2>1. f = Min(left)
    BY <1>3 DEF FirstAfter
  <2>. HIDE DEF f
  <2>2. f \in left /\ \A j \in left : f <= j
    <3>. HIDE DEF left
    <3>1. left \in SUBSET Seats
      BY DEF left
    <3>. QED BY <1>3, <2>1, <3>1, LowestSeat
  <2>3. f \in S /\ f > from /\ \A j \in S : j > from => f <= j
    BY <2>2
  <2>. HIDE DEF left
  <2>4. \A j \in S : Distance(from, f) <= Distance(from, j)
    BY <1>1, <2>3, NumSeatsAssumption DEF Distance
  <2>. QED BY <2>3, <2>4 DEF f
<1>. QED BY <1>2, <1>3

LEMMA FirstAfterIsFirst ==
  ASSUME NEW from \in Seats, NEW S \in SUBSET Seats, S # {}
  PROVE  /\ FirstAfter(from, S) \in S
         /\ \A j \in S : Distance(from, FirstAfter(from, S)) <= Distance(from, j)
<1>1. from \in -1 .. NumSeats - 1
  BY NumSeatsAssumption DEF Seats
<1>. QED BY <1>1, FirstAfterIsNearest

-----------------------------------------------------------------------------
(* The operations on a hand *)

\* What holds of the chips of a hand st was dealt with, at every moment of the
\* betting.  SeatAccount and PriorStreetsMatched are conjuncts of it; that no seat
\* is over the bet to match is what the closing of a street needs.
Prior(h, i) == h.totalBet[i] - h.committed[i]

ChipsOK(h, st) ==
  /\ h \in HandState
  /\ \A i \in Seats : h.stack[i] + h.totalBet[i] = st[i]
  /\ \A i \in Seats : h.committed[i] <= h.totalBet[i]
  /\ \A i \in CanAct(h), j \in Seats : Prior(h, i) >= Prior(h, j)

BetsBounded(h) == \A i \in Seats : h.committed[i] <= h.currentBet

\* The clock: after every step the seat to act owes an action.
ClockOK(h) == h.street # "Showdown" => h.toAct \in OwesAction(h)

\* Moving at most a seat's stack into its bet keeps its account and the type of
\* the hand.
LEMMA CommitKeepsChips ==
  ASSUME NEW st \in [Seats -> Nat], NEW h, ChipsOK(h, st),
         NEW i \in Seats, NEW amount \in Nat
  PROVE  /\ ChipsOK(Commit(h, i, amount), st)
         /\ Commit(h, i, amount).committed =
              [h.committed EXCEPT ![i] = @ + Lesser(amount, h.stack[i])]
         /\ \A j \in Seats \ {i} : Commit(h, i, amount).status[j] = h.status[j]
<1>. DEFINE pay == Lesser(amount, h.stack[i])
            c   == Commit(h, i, amount)
<1>1. h \in HandState /\ pay \in Nat /\ pay <= h.stack[i]
  BY DEF ChipsOK, HandState, Lesser
<1>2. c \in HandState
  <2>1. /\ [h.stack EXCEPT ![i] = @ - pay] \in [Seats -> Nat]
        /\ [h.committed EXCEPT ![i] = @ + pay] \in [Seats -> Nat]
        /\ [h.totalBet EXCEPT ![i] = @ + pay] \in [Seats -> Nat]
        /\ h.pot + pay \in Nat
    BY <1>1 DEF HandState
  <2>2. [h.status EXCEPT ![i] = IF h.stack[i] = pay THEN "AllIn" ELSE @]
          \in [Seats -> PlayerStatus]
    BY <1>1 DEF HandState, PlayerStatus
  <2>. QED BY <1>1, <2>1, <2>2 DEF Commit, HandState
<1>3. /\ c.stack = [h.stack EXCEPT ![i] = @ - pay]
      /\ c.totalBet = [h.totalBet EXCEPT ![i] = @ + pay]
      /\ c.committed = [h.committed EXCEPT ![i] = @ + pay]
      /\ \A j \in Seats \ {i} : c.status[j] = h.status[j]
      /\ CanAct(c) \subseteq CanAct(h)
  <2>1. c.status = [h.status EXCEPT ![i] = IF h.stack[i] = pay THEN "AllIn" ELSE @]
    BY <1>1 DEF Commit, HandState
  <2>. QED BY <1>1, <2>1 DEF Commit, HandState, CanAct
<1>4. /\ h.stack \in [Seats -> Nat] /\ h.totalBet \in [Seats -> Nat]
      /\ h.committed \in [Seats -> Nat]
  BY <1>1 DEF HandState
<1>5. \A j \in Seats : Prior(c, j) = Prior(h, j)
  BY <1>1, <1>3, <1>4 DEF Prior
<1>6. \A j \in Seats : /\ c.stack[j] + c.totalBet[j] = st[j]
                       /\ c.committed[j] <= c.totalBet[j]
  BY <1>1, <1>3, <1>4 DEF ChipsOK
<1>7. \A j \in CanAct(c), k \in Seats : Prior(c, j) >= Prior(c, k)
  BY <1>3, <1>5 DEF ChipsOK, CanAct
<1>. QED BY <1>2, <1>3, <1>6, <1>7 DEF ChipsOK

\* With more than one member able to act, somebody is.
LEMMA SomebodyCanAct ==
  ASSUME NEW h, ~(Cardinality(CanAct(h)) <= 1)
  PROVE  CanAct(h) # {}
BY FS_EmptySet

\* Closing a street: all that can act have matched the bet, so the contributions
\* of the closed streets stay equal among them and largest.
LEMMA NextStreetKeepsChips ==
  ASSUME NEW st \in [Seats -> Nat], NEW h, ChipsOK(h, st), BetsBounded(h),
         OwesAction(h) = {}
  PROVE  /\ ChipsOK(NextStreet(h), st)
         /\ BetsBounded(NextStreet(h))
         /\ ClockOK(NextStreet(h))
<1>. DEFINE n == NextStreet(h)
<1>1. h \in HandState
  BY DEF ChipsOK
<1>2. n.street # "Showdown" => n.toAct \in CanAct(h)
  <2>1. ASSUME n.street # "Showdown" PROVE ~(Cardinality(CanAct(h)) <= 1)
    BY <1>1, <2>1 DEF NextStreet, ResetStreet, HandState
  <2>2. ASSUME n.street # "Showdown"
        PROVE  n.toAct = FirstAfter(h.button, CanAct(h))
    BY <1>1, <2>2 DEF NextStreet, ResetStreet, HandState
  <2>3. CanAct(h) \in SUBSET Seats /\ h.button \in Seats
    BY <1>1 DEF CanAct, HandState
  <2>. QED BY <2>1, <2>2, <2>3, SomebodyCanAct, FirstAfterIsFirst
<1>3. /\ n.stack = h.stack /\ n.totalBet = h.totalBet /\ n.status = h.status
      /\ n.committed = [i \in Seats |-> 0] /\ n.acted = [i \in Seats |-> FALSE]
      /\ n.currentBet = 0
  BY <1>1 DEF NextStreet, ResetStreet, HandState
<1>4. n \in HandState
  <2>1. /\ n.street \in Street /\ n.board \in 0 .. 5
    BY <1>1 DEF NextStreet, ResetStreet, HandState, FollowingStreet, BoardOn, Street
  <2>2. n.toAct \in Seats \cup {Nobody}
    <3>1. CASE n.street = "Showdown"
      BY <1>1, <3>1 DEF NextStreet, ResetStreet, HandState
    <3>2. CASE n.street # "Showdown"
      BY <1>2, <3>2 DEF CanAct
    <3>. QED BY <3>1, <3>2
  <2>3. ResetStreet(h) \in HandState
    <3>1. /\ [i \in Seats |-> 0] \in [Seats -> Nat]
          /\ [i \in Seats |-> FALSE] \in [Seats -> BOOLEAN]
          /\ h.bigBlind \in Nat
      BY <1>1 DEF HandState
    <3>. QED BY <1>1, <3>1 DEF ResetStreet, HandState
  <2>4. n = [ResetStreet(h) EXCEPT !.street = n.street, !.board = n.board,
                                   !.toAct = n.toAct]
    BY <2>3 DEF NextStreet, HandState
  <2>. QED BY <2>1, <2>2, <2>3, <2>4 DEF HandState
<1>5. \A i \in CanAct(h) : h.committed[i] = h.currentBet
  BY DEF OwesAction
<1>6. CanAct(n) = CanAct(h)
  BY <1>3 DEF CanAct
<1>7. \A i \in CanAct(n), j \in Seats : Prior(n, i) >= Prior(n, j)
  <2>1. TAKE i \in CanAct(n), j \in Seats
  <2>2. i \in Seats /\ i \in CanAct(h)
    BY <1>6 DEF CanAct
  <2>3. /\ h.totalBet[i] - h.committed[i] >= h.totalBet[j] - h.committed[j]
        /\ h.committed[j] <= h.currentBet /\ h.committed[i] = h.currentBet
    BY <1>5, <2>2 DEF ChipsOK, BetsBounded, Prior
  <2>4. /\ h.totalBet[i] \in Nat /\ h.totalBet[j] \in Nat
        /\ h.committed[i] \in Nat /\ h.committed[j] \in Nat
        /\ h.currentBet \in Nat
    BY <1>1, <2>2 DEF HandState
  <2>5. h.totalBet[i] >= h.totalBet[j]
    BY <2>3, <2>4
  <2>6. Prior(n, i) = h.totalBet[i] /\ Prior(n, j) = h.totalBet[j]
    BY <1>3, <2>2, <2>4 DEF Prior
  <2>. QED BY <2>5, <2>6
<1>8. ChipsOK(n, st)
  BY <1>1, <1>3, <1>4, <1>7 DEF ChipsOK, HandState
<1>9. BetsBounded(n)
  BY <1>3 DEF BetsBounded
<1>10. ClockOK(n)
  BY <1>2, <1>3, <1>6 DEF ClockOK, OwesAction, CanAct
<1>. QED BY <1>8, <1>9, <1>10

\* Moving the action on, whichever of its three ways the code takes.
LEMMA AdvanceKeepsChips ==
  ASSUME NEW st \in [Seats -> Nat], NEW h, ChipsOK(h, st), BetsBounded(h),
         h.toAct \in Seats
  PROVE  /\ ChipsOK(Advance(h), st)
         /\ BetsBounded(Advance(h))
         /\ ClockOK(Advance(h))
<1>. DEFINE one == Cardinality(NonFolded(h)) <= 1
<1>1. h \in HandState
  BY DEF ChipsOK
<1>2. CASE one
  <2>. DEFINE n == [h EXCEPT !.street = "Showdown"]
  <2>1. Advance(h) = n
    BY <1>2 DEF Advance
  <2>2. /\ n \in HandState /\ n.street = "Showdown"
        /\ n.stack = h.stack /\ n.totalBet = h.totalBet /\ n.status = h.status
        /\ n.committed = h.committed /\ n.currentBet = h.currentBet
    BY <1>1 DEF HandState, Street
  <2>. QED BY <2>1, <2>2 DEF ChipsOK, BetsBounded, ClockOK, CanAct, Prior
<1>3. CASE ~one /\ OwesAction(h) # {}
  <2>. DEFINE i == FirstAfter(h.toAct, OwesAction(h))
              n == [h EXCEPT !.toAct = i]
  <2>1. Advance(h) = n
    BY <1>3 DEF Advance
  <2>2. i \in OwesAction(h) /\ i \in Seats
    BY <1>3, FirstAfterIsFirst DEF OwesAction, CanAct
  <2>3. /\ n \in HandState /\ n.toAct = i
        /\ n.stack = h.stack /\ n.totalBet = h.totalBet /\ n.status = h.status
        /\ n.committed = h.committed /\ n.currentBet = h.currentBet
        /\ n.acted = h.acted
    BY <1>1, <2>2 DEF HandState
  <2>4. OwesAction(n) = OwesAction(h) /\ CanAct(n) = CanAct(h)
    BY <2>3 DEF OwesAction, CanAct
  <2>5. \A j \in Seats : Prior(n, j) = Prior(h, j)
    BY <2>3 DEF Prior
  <2>. QED BY <2>1, <2>2, <2>3, <2>4, <2>5 DEF ChipsOK, BetsBounded, ClockOK, CanAct
<1>4. CASE ~one /\ OwesAction(h) = {}
  BY <1>4, NextStreetKeepsChips DEF Advance
<1>. QED BY <1>2, <1>3, <1>4

\* What a step of a seat leaves behind.
StepOK(h, st) == ChipsOK(h, st) /\ BetsBounded(h) /\ ClockOK(h)

\* A fold keeps the accounts, the bounds on the bets and an owed turn.
LEMMA FoldKeepsChips ==
  ASSUME NEW st \in [Seats -> Nat], NEW h, ChipsOK(h, st), BetsBounded(h),
         NEW i \in Seats, MayAct(h, i)
  PROVE  StepOK(FoldBy(h, i), st)
<1>. DEFINE n == [h EXCEPT !.status[i] = "Folded", !.acted[i] = TRUE]
<1>1. h \in HandState /\ h.toAct \in Seats
  BY DEF ChipsOK, MayAct
<1>2. /\ [h.status EXCEPT ![i] = "Folded"] \in [Seats -> PlayerStatus]
      /\ [h.acted EXCEPT ![i] = TRUE] \in [Seats -> BOOLEAN]
  BY <1>1 DEF HandState, PlayerStatus
<1>3. /\ n \in HandState /\ n.toAct = h.toAct
      /\ n.stack = h.stack /\ n.totalBet = h.totalBet
      /\ n.status = [h.status EXCEPT ![i] = "Folded"]
      /\ n.committed = h.committed /\ n.currentBet = h.currentBet
  BY <1>1, <1>2 DEF HandState
<1>4. CanAct(n) \subseteq CanAct(h)
  BY <1>1, <1>3 DEF CanAct, HandState
<1>5. ChipsOK(n, st) /\ BetsBounded(n)
  BY <1>3, <1>4 DEF ChipsOK, BetsBounded, Prior
<1>. QED BY <1>1, <1>3, <1>5, AdvanceKeepsChips DEF FoldBy, StepOK

\* So does a check, which ApplyAction accepts only with nothing to call.
LEMMA CheckKeepsChips ==
  ASSUME NEW st \in [Seats -> Nat], NEW h, ChipsOK(h, st), BetsBounded(h),
         NEW i \in Seats, MayAct(h, i)
  PROVE  StepOK(CheckBy(h, i), st)
<1>. DEFINE n == [h EXCEPT !.acted[i] = TRUE]
<1>1. h \in HandState /\ h.toAct \in Seats
  BY DEF ChipsOK, MayAct
<1>2. [h.acted EXCEPT ![i] = TRUE] \in [Seats -> BOOLEAN]
  BY <1>1 DEF HandState
<1>3. /\ n \in HandState /\ n.toAct = h.toAct
      /\ n.stack = h.stack /\ n.totalBet = h.totalBet /\ n.status = h.status
      /\ n.committed = h.committed /\ n.currentBet = h.currentBet
  BY <1>1, <1>2 DEF HandState
<1>4. ChipsOK(n, st) /\ BetsBounded(n)
  BY <1>3 DEF ChipsOK, BetsBounded, Prior, CanAct
<1>. QED BY <1>1, <1>3, <1>4, AdvanceKeepsChips DEF CheckBy, StepOK

\* So does a call, which pays the stack when it is shorter than the amount owed.
LEMMA CallKeepsChips ==
  ASSUME NEW st \in [Seats -> Nat], NEW h, ChipsOK(h, st), BetsBounded(h),
         NEW i \in Seats, MayAct(h, i)
  PROVE  StepOK(CallBy(h, i), st)
<1>. DEFINE owed == h.currentBet - h.committed[i]
            c    == Commit(h, i, owed)
            n    == [c EXCEPT !.acted[i] = TRUE]
<1>1. h \in HandState /\ h.toAct \in Seats /\ owed \in Nat
  BY DEF ChipsOK, MayAct, BetsBounded, HandState
<1>2. /\ ChipsOK(c, st)
      /\ c.committed = [h.committed EXCEPT ![i] = @ + Lesser(owed, h.stack[i])]
  BY <1>1, CommitKeepsChips
<1>3. c \in HandState /\ c.toAct = h.toAct /\ c.currentBet = h.currentBet
  BY <1>1, <1>2 DEF ChipsOK, Commit, HandState
<1>4. \A j \in Seats : c.committed[j] <= c.currentBet
  <2>1. h.committed \in [Seats -> Nat] /\ h.currentBet \in Nat /\ h.stack \in [Seats -> Nat]
    BY <1>1 DEF HandState
  <2>. QED BY <1>1, <1>2, <1>3, <2>1 DEF BetsBounded, Lesser
<1>5. [c.acted EXCEPT ![i] = TRUE] \in [Seats -> BOOLEAN]
  BY <1>3 DEF HandState
<1>6. /\ n \in HandState /\ n.toAct = c.toAct
      /\ n.stack = c.stack /\ n.totalBet = c.totalBet /\ n.status = c.status
      /\ n.committed = c.committed /\ n.currentBet = c.currentBet
  BY <1>3, <1>5 DEF HandState
<1>7. ChipsOK(n, st) /\ BetsBounded(n)
  BY <1>2, <1>4, <1>6 DEF ChipsOK, BetsBounded, Prior, CanAct
<1>. QED BY <1>1, <1>3, <1>6, <1>7, AdvanceKeepsChips DEF CallBy, StepOK

\* So does a bet or a raise, which reopens the action only when it is a full one.
LEMMA RaiseKeepsChips ==
  ASSUME NEW st \in [Seats -> Nat], NEW h, ChipsOK(h, st), BetsBounded(h),
         NEW i \in Seats, NEW to \in Nat, CanRaise(h, i, to)
  PROVE  StepOK(RaiseBy(h, i, to), st)
<1>. DEFINE more == to - h.committed[i]
            c    == Commit(h, i, more)
            full == IsFullRaise(h, to)
            flag == [j \in Seats |-> j = i \/ (h.acted[j] /\ ~full)]
            n    == [c EXCEPT !.minRaise = IF full THEN to - h.currentBet ELSE @,
                              !.currentBet = to, !.acted = flag]
<1>1. h \in HandState /\ h.toAct \in Seats
  BY DEF ChipsOK, CanRaise, MayAct
<1>2. /\ h.committed \in [Seats -> Nat] /\ h.currentBet \in Nat
      /\ h.stack \in [Seats -> Nat] /\ h.minRaise \in Nat
  BY <1>1 DEF HandState
<1>3. more \in Nat /\ to > h.currentBet
  BY <1>2 DEF CanRaise, BetsBounded
<1>4. /\ ChipsOK(c, st)
      /\ c.committed = [h.committed EXCEPT ![i] = @ + Lesser(more, h.stack[i])]
  BY <1>3, CommitKeepsChips
<1>5. c \in HandState /\ c.toAct = h.toAct
  BY <1>1, <1>4 DEF ChipsOK, Commit, HandState
<1>6. \A j \in Seats : c.committed[j] <= to
  <2>1. h.committed[i] + Lesser(more, h.stack[i]) <= to
    BY <1>2, <1>3 DEF Lesser
  <2>. QED BY <1>2, <1>3, <1>4, <2>1 DEF BetsBounded
<1>7. flag \in [Seats -> BOOLEAN] /\ to - h.currentBet \in Nat
  BY <1>2, <1>3
<1>8. /\ n \in HandState /\ n.toAct = c.toAct
      /\ n.stack = c.stack /\ n.totalBet = c.totalBet /\ n.status = c.status
      /\ n.committed = c.committed /\ n.currentBet = to
  BY <1>5, <1>7 DEF HandState
<1>9. ChipsOK(n, st) /\ BetsBounded(n)
  BY <1>4, <1>6, <1>8 DEF ChipsOK, BetsBounded, Prior, CanAct
<1>10. RaiseBy(h, i, to) = Advance(n)
  BY DEF RaiseBy
<1>. QED BY <1>1, <1>5, <1>8, <1>9, <1>10, AdvanceKeepsChips DEF StepOK

-----------------------------------------------------------------------------
(* What an action pays and whom it leaves in the hand *)

\* The seats that were dealt in.
DealtIn(h) == {i \in Seats : h.status[i] # "SittingOut"}

\* The pot is what the seats put in.
PotOK(h) == h.pot = SumOver(h.totalBet, Seats)

\* From h to n seat i alone has paid, into the pot, and the others stand as they did.
PaysOnly(h, n, i) ==
  /\ DealtIn(n) = DealtIn(h)
  /\ \A j \in Seats \ {i} : /\ n.stack[j] = h.stack[j]
                            /\ n.totalBet[j] = h.totalBet[j]
                            /\ n.status[j] = h.status[j]
  /\ n.pot - h.pot = n.totalBet[i] - h.totalBet[i]

\* Until the showdown two seats are in the hand, somebody always is, and a contested hand
\* has the board of its street.
ContestOK(h) ==
  /\ NonFolded(h) # {}
  /\ h.street # "Showdown" => Cardinality(NonFolded(h)) >= 2
  /\ h.board = BoardOn(h.street) \/ Cardinality(NonFolded(h)) = 1

\* Sets of seats are finite.
LEMMA SeatSets ==
  ASSUME NEW S \in SUBSET Seats
  PROVE  IsFiniteSet(S) /\ Cardinality(S) \in Nat /\ (S = {} <=> Cardinality(S) = 0)
<1>1. IsFiniteSet(Seats)
  BY FS_Interval, NumSeatsAssumption DEF Seats
<1>. QED BY <1>1, FS_Subset, FS_CardinalityType, FS_EmptySet

\* The payment of one seat keeps the pot equal to the contributions.
LEMMA PaysOnlyPot ==
  ASSUME NEW h \in HandState, NEW n \in HandState, NEW i \in Seats,
         PaysOnly(h, n, i), PotOK(h)
  PROVE  PotOK(n)
<1>1. IsFiniteSet(Seats) /\ h.pot \in Nat /\ n.pot \in Nat
  BY SeatSets DEF HandState
<1>2. \A x \in Seats : h.totalBet[x] \in Int /\ n.totalBet[x] \in Int
  BY DEF HandState
<1>3. \A x \in Seats \ {i} : n.totalBet[x] = h.totalBet[x]
  BY DEF PaysOnly
<1>4. SumOver(n.totalBet, Seats) = SumOver(h.totalBet, Seats) + (n.totalBet[i] - h.totalBet[i])
  BY <1>1, <1>2, <1>3, SumChange
<1>5. SumOver(h.totalBet, Seats) = h.pot /\ n.pot - h.pot = n.totalBet[i] - h.totalBet[i]
  BY DEF PotOK, PaysOnly
<1>. QED BY <1>1, <1>2, <1>4, <1>5 DEF PotOK

\* Moving the action on pays nothing, and keeps the hand contested or ends it.
LEMMA AdvanceMoves ==
  ASSUME NEW h \in HandState
  PROVE  LET n == Advance(h)
         IN  /\ n.stack = h.stack /\ n.totalBet = h.totalBet
             /\ n.status = h.status /\ n.pot = h.pot
             /\ NonFolded(h) # {} /\ h.board = BoardOn(h.street) => ContestOK(n)
<1>. DEFINE one == Cardinality(NonFolded(h)) <= 1
            n   == Advance(h)
<1>1. Cardinality(NonFolded(h)) \in Nat /\ (NonFolded(h) # {} => Cardinality(NonFolded(h)) >= 1)
  <2>1. NonFolded(h) \in SUBSET Seats
    BY DEF NonFolded
  <2>. QED BY <2>1, SeatSets
<1>2. CASE one
  <2>1. n = [h EXCEPT !.street = "Showdown"]
    BY <1>2 DEF Advance
  <2>2. /\ n.stack = h.stack /\ n.totalBet = h.totalBet
        /\ n.status = h.status /\ n.pot = h.pot /\ n.street = "Showdown"
    BY <2>1 DEF HandState
  <2>3. NonFolded(n) = NonFolded(h)
    BY <2>2 DEF NonFolded
  <2>. QED BY <1>1, <1>2, <2>2, <2>3 DEF ContestOK
<1>3. CASE ~one /\ OwesAction(h) # {}
  <2>1. n = [h EXCEPT !.toAct = FirstAfter(h.toAct, OwesAction(h))]
    BY <1>3 DEF Advance
  <2>2. /\ n.stack = h.stack /\ n.totalBet = h.totalBet
        /\ n.status = h.status /\ n.pot = h.pot /\ n.street = h.street /\ n.board = h.board
    BY <2>1 DEF HandState
  <2>3. NonFolded(n) = NonFolded(h)
    BY <2>2 DEF NonFolded
  <2>. QED BY <1>1, <1>3, <2>2, <2>3 DEF ContestOK
<1>4. CASE ~one /\ OwesAction(h) = {}
  <2>1. n = NextStreet(h)
    BY <1>4 DEF Advance
  <2>2. /\ n.stack = h.stack /\ n.totalBet = h.totalBet
        /\ n.status = h.status /\ n.pot = h.pot /\ n.board = BoardOn(n.street)
    BY <2>1 DEF NextStreet, ResetStreet, HandState
  <2>3. NonFolded(n) = NonFolded(h)
    BY <2>2 DEF NonFolded
  <2>. QED BY <1>1, <1>4, <2>2, <2>3 DEF ContestOK
<1>. QED BY <1>2, <1>3, <1>4

\* A fold pays nothing and takes one seat out of the contest.
LEMMA FoldMoves ==
  ASSUME NEW h \in HandState, NEW i \in Seats, MayAct(h, i), ContestOK(h)
  PROVE  LET n == FoldBy(h, i)
         IN  /\ n.stack = h.stack /\ n.totalBet = h.totalBet /\ n.pot = h.pot
             /\ n.status = [h.status EXCEPT ![i] = "Folded"]
             /\ ContestOK(n)
<1>. DEFINE m == [h EXCEPT !.status[i] = "Folded", !.acted[i] = TRUE]
<1>1. /\ [h.status EXCEPT ![i] = "Folded"] \in [Seats -> PlayerStatus]
      /\ [h.acted EXCEPT ![i] = TRUE] \in [Seats -> BOOLEAN]
  BY DEF HandState, PlayerStatus
<1>2. /\ m \in HandState /\ m.stack = h.stack /\ m.totalBet = h.totalBet /\ m.pot = h.pot
      /\ m.status = [h.status EXCEPT ![i] = "Folded"]
      /\ m.board = h.board /\ m.street = h.street
  BY <1>1 DEF HandState
<1>3. FoldBy(h, i) = Advance(m)
  BY DEF FoldBy
<1>. HIDE DEF m
<1>4. Cardinality(NonFolded(h)) >= 2 /\ Cardinality(NonFolded(h)) \in Nat
      /\ IsFiniteSet(NonFolded(h)) /\ i \in NonFolded(h)
  <2>1. NonFolded(h) \in SUBSET Seats /\ i \in NonFolded(h)
    BY DEF NonFolded, MayAct
  <2>. QED BY <2>1, SeatSets DEF ContestOK, MayAct
<1>5. NonFolded(m) = NonFolded(h) \ {i}
  BY <1>2 DEF NonFolded, HandState
<1>6. NonFolded(m) # {}
  <2>1. Cardinality(NonFolded(m)) = Cardinality(NonFolded(h)) - 1
    BY <1>4, <1>5, FS_RemoveElement
  <2>. QED BY <1>4, <2>1, FS_EmptySet
<1>7. m.board = BoardOn(m.street)
  BY <1>2, <1>4 DEF ContestOK, MayAct
<1>. QED BY <1>2, <1>3, <1>6, <1>7, AdvanceMoves

\* A check pays nothing.
LEMMA CheckMoves ==
  ASSUME NEW h \in HandState, NEW i \in Seats, MayAct(h, i), ContestOK(h)
  PROVE  LET n == CheckBy(h, i)
         IN  /\ n.stack = h.stack /\ n.totalBet = h.totalBet /\ n.pot = h.pot
             /\ n.status = h.status
             /\ ContestOK(n)
<1>. DEFINE m == [h EXCEPT !.acted[i] = TRUE]
<1>1. [h.acted EXCEPT ![i] = TRUE] \in [Seats -> BOOLEAN]
  BY DEF HandState
<1>2. /\ m \in HandState /\ m.stack = h.stack /\ m.totalBet = h.totalBet /\ m.pot = h.pot
      /\ m.status = h.status /\ m.board = h.board /\ m.street = h.street
  BY <1>1 DEF HandState
<1>3. CheckBy(h, i) = Advance(m)
  BY DEF CheckBy
<1>. HIDE DEF m
<1>4. NonFolded(m) = NonFolded(h)
  BY <1>2 DEF NonFolded
<1>5. Cardinality(NonFolded(h)) >= 2
  BY DEF ContestOK, MayAct
<1>6. NonFolded(m) # {} /\ m.board = BoardOn(m.street)
  BY <1>2, <1>4, <1>5 DEF ContestOK
<1>. QED BY <1>2, <1>3, <1>6, AdvanceMoves

\* What a commitment of chips changes, and what it does not.
LEMMA CommitMoves ==
  ASSUME NEW h \in HandState, NEW i \in Seats, NEW amount \in Nat
  PROVE  LET c == Commit(h, i, amount)
         IN  /\ c \in HandState
             /\ c.street = h.street /\ c.board = h.board /\ c.acted = h.acted
             /\ c.toAct = h.toAct /\ c.button = h.button
             /\ c.currentBet = h.currentBet /\ c.minRaise = h.minRaise
             /\ c.status[i] \in {h.status[i], "AllIn"}
             /\ amount >= h.stack[i] => c.status[i] = "AllIn"
             /\ h.status[i] # "SittingOut" => PaysOnly(h, c, i)
<1>. DEFINE pay == Lesser(amount, h.stack[i])
            c   == Commit(h, i, amount)
<1>1. /\ h.stack \in [Seats -> Nat] /\ h.totalBet \in [Seats -> Nat] /\ h.pot \in Nat
      /\ h.committed \in [Seats -> Nat] /\ h.status \in [Seats -> PlayerStatus]
  BY DEF HandState
<1>2. pay \in Nat /\ pay <= h.stack[i] /\ (amount >= h.stack[i] => pay = h.stack[i])
  BY <1>1 DEF Lesser
<1>3. /\ [h.stack EXCEPT ![i] = @ - pay] \in [Seats -> Nat]
      /\ [h.committed EXCEPT ![i] = @ + pay] \in [Seats -> Nat]
      /\ [h.totalBet EXCEPT ![i] = @ + pay] \in [Seats -> Nat]
      /\ h.pot + pay \in Nat
      /\ [h.status EXCEPT ![i] = IF h.stack[i] = pay THEN "AllIn" ELSE @]
           \in [Seats -> PlayerStatus]
  BY <1>1, <1>2 DEF PlayerStatus
<1>4. c \in HandState
  BY <1>3 DEF Commit, HandState
<1>5. /\ c.stack = [h.stack EXCEPT ![i] = @ - pay]
      /\ c.totalBet = [h.totalBet EXCEPT ![i] = @ + pay]
      /\ c.pot = h.pot + pay
      /\ c.status = [h.status EXCEPT ![i] = IF h.stack[i] = pay THEN "AllIn" ELSE @]
      /\ c.street = h.street /\ c.board = h.board /\ c.acted = h.acted
      /\ c.toAct = h.toAct /\ c.button = h.button
      /\ c.currentBet = h.currentBet /\ c.minRaise = h.minRaise
  BY DEF Commit, HandState
<1>. HIDE DEF c, pay
<1>6. c.status[i] \in {h.status[i], "AllIn"} /\ (amount >= h.stack[i] => c.status[i] = "AllIn")
  BY <1>1, <1>2, <1>5
<1>7. ASSUME h.status[i] # "SittingOut" PROVE PaysOnly(h, c, i)
  <2>1. DealtIn(c) = DealtIn(h)
    BY <1>1, <1>5, <1>7 DEF DealtIn
  <2>2. c.pot - h.pot = pay /\ c.totalBet[i] - h.totalBet[i] = pay
    BY <1>1, <1>2, <1>5
  <2>. QED BY <1>1, <1>5, <2>1, <2>2 DEF PaysOnly
<1>. QED BY <1>4, <1>5, <1>6, <1>7 DEF c

\* A step that pays and then moves the action on.
LEMMA PaidMoves ==
  ASSUME NEW h \in HandState, NEW i \in Seats, MayAct(h, i), ContestOK(h),
         NEW c \in HandState, PaysOnly(h, c, i), c.status[i] \in {"Active", "AllIn"},
         NEW m \in HandState,
         m.stack = c.stack, m.totalBet = c.totalBet, m.pot = c.pot, m.status = c.status,
         m.board = h.board, m.street = h.street
  PROVE  LET n == Advance(m)
         IN  /\ PaysOnly(h, n, i) /\ n.status = c.status
             /\ ContestOK(n)
<1>1. \A j \in Seats : c.status[j] \in {"Active", "AllIn"} <=> h.status[j] \in {"Active", "AllIn"}
  BY DEF PaysOnly, MayAct
<1>2. NonFolded(m) = NonFolded(h)
  BY <1>1 DEF NonFolded
<1>3. Cardinality(NonFolded(h)) >= 2
  BY DEF ContestOK, MayAct
<1>4. NonFolded(m) # {} /\ m.board = BoardOn(m.street)
  BY <1>2, <1>3 DEF ContestOK
<1>5. LET n == Advance(m)
      IN  /\ n.stack = c.stack /\ n.totalBet = c.totalBet /\ n.status = c.status /\ n.pot = c.pot
          /\ ContestOK(n)
  BY <1>4, AdvanceMoves
<1>. QED BY <1>5 DEF PaysOnly, DealtIn

\* A call pays from the caller's stack.
LEMMA CallMoves ==
  ASSUME NEW h \in HandState, NEW i \in Seats, MayAct(h, i), ContestOK(h), BetsBounded(h)
  PROVE  LET n == CallBy(h, i)
         IN  PaysOnly(h, n, i) /\ n.status[i] \in {"Active", "AllIn"} /\ ContestOK(n)
<1>. DEFINE owed == h.currentBet - h.committed[i]
            c    == Commit(h, i, owed)
            m    == [c EXCEPT !.acted[i] = TRUE]
<1>1. owed \in Nat
  BY DEF BetsBounded, HandState
<1>2. /\ c \in HandState /\ PaysOnly(h, c, i) /\ c.status[i] \in {"Active", "AllIn"}
      /\ c.board = h.board /\ c.street = h.street
  <2>1. h.status[i] = "Active"
    BY DEF MayAct
  <2>. QED BY <1>1, <2>1, CommitMoves
<1>3. [c.acted EXCEPT ![i] = TRUE] \in [Seats -> BOOLEAN]
  BY <1>2 DEF HandState
<1>. HIDE DEF c
<1>4. /\ m \in HandState /\ m.stack = c.stack /\ m.totalBet = c.totalBet /\ m.pot = c.pot
      /\ m.status = c.status /\ m.board = h.board /\ m.street = h.street
  BY <1>2, <1>3 DEF HandState
<1>5. CallBy(h, i) = Advance(m)
  BY DEF CallBy, c
<1>. HIDE DEF m
<1>6. LET n == Advance(m)
      IN  PaysOnly(h, n, i) /\ n.status = c.status /\ ContestOK(n)
  BY <1>2, <1>4, PaidMoves
<1>. QED BY <1>2, <1>5, <1>6

\* So does a bet or a raise; with the whole stack it puts the raiser all-in.
LEMMA RaiseMoves ==
  ASSUME NEW h \in HandState, NEW i \in Seats, NEW to \in Nat, CanRaise(h, i, to),
         ContestOK(h), BetsBounded(h)
  PROVE  LET n == RaiseBy(h, i, to)
         IN  /\ PaysOnly(h, n, i) /\ n.status[i] \in {"Active", "AllIn"} /\ ContestOK(n)
             /\ to = h.committed[i] + h.stack[i] => n.status[i] = "AllIn"
<1>. DEFINE more == to - h.committed[i]
            c    == Commit(h, i, more)
            full == IsFullRaise(h, to)
            flag == [j \in Seats |-> j = i \/ (h.acted[j] /\ ~full)]
            m    == [c EXCEPT !.minRaise = IF full THEN to - h.currentBet ELSE @,
                              !.currentBet = to, !.acted = flag]
<1>1. more \in Nat /\ to - h.currentBet \in Nat
  BY DEF BetsBounded, HandState, CanRaise
<1>2. /\ c \in HandState /\ PaysOnly(h, c, i) /\ c.status[i] \in {"Active", "AllIn"}
      /\ c.board = h.board /\ c.street = h.street
      /\ more >= h.stack[i] => c.status[i] = "AllIn"
  <2>1. h.status[i] = "Active"
    BY DEF MayAct, CanRaise
  <2>. QED BY <1>1, <2>1, CommitMoves
<1>3. flag \in [Seats -> BOOLEAN]
  BY DEF HandState
<1>. HIDE DEF c, flag
<1>4. /\ m \in HandState /\ m.stack = c.stack /\ m.totalBet = c.totalBet /\ m.pot = c.pot
      /\ m.status = c.status /\ m.board = h.board /\ m.street = h.street
  BY <1>1, <1>2, <1>3 DEF HandState
<1>5. RaiseBy(h, i, to) = Advance(m)
  BY DEF RaiseBy, c, flag
<1>. HIDE DEF m, full
<1>6. LET n == Advance(m)
      IN  PaysOnly(h, n, i) /\ n.status = c.status /\ ContestOK(n)
  <2>1. MayAct(h, i)
    BY DEF CanRaise
  <2>. QED BY <1>2, <1>4, <2>1, PaidMoves
<1>7. to = h.committed[i] + h.stack[i] => more >= h.stack[i]
  BY DEF HandState
<1>. QED BY <1>2, <1>5, <1>6, <1>7

-----------------------------------------------------------------------------
(* The deal *)

\* With another member in S, the first one after a member is not itself.
LEMMA FirstAfterMoves ==
  ASSUME NEW S \in SUBSET Seats, NEW from \in S, S # {from}
  PROVE  FirstAfter(from, S) \in S \ {from}
<1>1. PICK j \in S : j # from
  OBVIOUS
<1>2. Distance(from, j) < Distance(from, from)
  BY <1>1, NumSeatsAssumption DEF Distance, Seats
<1>. QED BY <1>1, <1>2, FirstAfterIsFirst, DistanceType

\* Two steps around a set of more than two seats do not come back.
LEMMA FirstAfterTwice ==
  ASSUME NEW S \in SUBSET Seats, NEW a \in S, S # {a},
         \A x \in S : S # {a, x}
  PROVE  FirstAfter(FirstAfter(a, S), S) # a
<1>. DEFINE b == FirstAfter(a, S)
<1>1. b \in S \ {a} /\ \A j \in S : Distance(a, b) <= Distance(a, j)
  BY FirstAfterMoves, FirstAfterIsFirst
<1>2. PICK c \in S : c # a /\ c # b
  BY <1>1
<1>3. Distance(a, b) <= Distance(a, c)
  BY <1>1
<1>4. Distance(b, c) < Distance(b, a)
  <2>1. a \in Seats /\ b \in Seats /\ c \in Seats /\ a # b /\ c # a /\ c # b
    BY <1>1, <1>2
  <2>. HIDE DEF b
  <2>. QED BY <1>3, <2>1, NumSeatsAssumption DEF Distance, Seats
<1>5. \A j \in S : Distance(b, FirstAfter(b, S)) <= Distance(b, j)
  BY <1>1, FirstAfterIsFirst
<1>. QED BY <1>1, <1>4, <1>5, DistanceType

\* The blinds are posted by two different seats that were dealt in, and with more
\* than two of them a third one acts first.
LEMMA BlindSeatsDiffer ==
  ASSUME NEW dealt \in SUBSET Seats, NEW button \in dealt,
         Cardinality(dealt) >= 2
  PROVE  LET s == BlindSeats(dealt, button)
         IN  /\ s.sb \in dealt /\ s.bb \in dealt /\ s.first \in dealt
             /\ s.sb # s.bb /\ s.first # s.bb
             /\ Cardinality(dealt) = 2 => s.sb = button /\ s.first = button
             /\ Cardinality(dealt) # 2 => s.first # s.sb
<1>. DEFINE left(i) == FirstAfter(i, dealt)
<1>1. \A i \in dealt : dealt # {i}
  <2>1. ASSUME NEW i \in dealt, dealt = {i} PROVE FALSE
    <3>1. Cardinality({i}) = 1
      BY FS_Singleton
    <3>. QED BY <2>1, <3>1
  <2>. QED BY <2>1
<1>2. \A i \in dealt : left(i) \in dealt /\ left(i) # i
  BY <1>1, FirstAfterMoves
<1>3. CASE Cardinality(dealt) = 2
  BY <1>2, <1>3 DEF BlindSeats
<1>4. CASE Cardinality(dealt) # 2
  <2>1. ASSUME NEW a \in dealt, NEW x \in dealt PROVE dealt # {a, x}
    <3>1. ASSUME dealt = {a, x}, a # x PROVE FALSE
      <4>1. Cardinality({a}) = 1 /\ IsFiniteSet({a})
        BY FS_Singleton
      <4>2. Cardinality({a} \cup {x}) = 2
        BY <4>1, <3>1, FS_AddElement
      <4>. QED BY <4>2, <3>1, <1>4
    <3>. QED BY <1>1, <3>1
  <2>2. \A i \in dealt : left(left(i)) # i
    BY <1>1, <2>1, FirstAfterTwice
  <2>. QED BY <1>2, <1>4, <2>2 DEF BlindSeats
<1>. QED BY <1>3, <1>4

\* A dealt hand: the chips add up, the bet to match is the whole big blind, and
\* unless the heads-up button is all-in with its blind the first seat can act.
LEMMA NewHandOK ==
  ASSUME NEW SmallBlind \in Nat, NEW BigBlind \in Nat,
         0 < SmallBlind, SmallBlind <= BigBlind,
         NEW stacks \in [Seats -> Nat], NEW button \in Seats,
         NEW dealt, dealt = {i \in Seats : stacks[i] > 0},
         Cardinality(dealt) >= 2, button \in dealt
  PROVE  LET n == NewHand(stacks, dealt, button, SmallBlind, BigBlind)
         IN  /\ ChipsOK(n, stacks) /\ BetsBounded(n)
             /\ n.button = button /\ n.street = "Preflop"
             /\ \/ ClockOK(n)
                \/ Cardinality(dealt) = 2 /\ stacks[button] <= SmallBlind
<1>. DEFINE seat == BlindSeats(dealt, button)
            h0   == Dealt(stacks, dealt, button, BigBlind)
            c1   == Commit(h0, seat.sb, SmallBlind)
            c2   == Commit(c1, seat.bb, BigBlind)
            n    == [c2 EXCEPT !.currentBet = BigBlind, !.minRaise = BigBlind,
                               !.toAct = seat.first]
<1>1. NewHand(stacks, dealt, button, SmallBlind, BigBlind) = n
  BY DEF NewHand
<1>2. /\ seat.sb \in dealt /\ seat.bb \in dealt /\ seat.first \in dealt
      /\ seat.sb # seat.bb /\ seat.first # seat.bb
      /\ Cardinality(dealt) = 2 => seat.sb = button /\ seat.first = button
      /\ Cardinality(dealt) # 2 => seat.first # seat.sb
  BY BlindSeatsDiffer
<1>3. dealt \subseteq Seats
  OBVIOUS
<1>4. ChipsOK(h0, stacks)
  <2>1. /\ [i \in Seats |-> 0] \in [Seats -> Nat]
        /\ [i \in Seats |-> FALSE] \in [Seats -> BOOLEAN]
        /\ [i \in Seats |-> IF i \in dealt THEN "Active" ELSE "SittingOut"]
             \in [Seats -> PlayerStatus]
        /\ "Preflop" \in Street /\ 0 \in 0 .. 5 /\ 0 \in Nat /\ BigBlind \in Nat
    BY DEF PlayerStatus, Street
  <2>2. h0 \in HandState
    BY <2>1 DEF Dealt, HandState
  <2>3. /\ h0.stack = stacks /\ h0.totalBet = [i \in Seats |-> 0]
        /\ h0.committed = [i \in Seats |-> 0]
    BY DEF Dealt
  <2>. HIDE DEF h0
  <2>. QED BY <2>2, <2>3 DEF ChipsOK, Prior, CanAct
<1>5. /\ h0.committed = [i \in Seats |-> 0] /\ h0.stack = stacks
      /\ h0.acted = [i \in Seats |-> FALSE] /\ h0.button = button
      /\ \A i \in dealt : h0.status[i] = "Active"
      /\ h0.street = "Preflop"
  BY DEF Dealt
<1>. HIDE DEF h0, seat
<1>6. /\ ChipsOK(c1, stacks)
      /\ c1.committed = [h0.committed EXCEPT ![seat.sb] = @ + Lesser(SmallBlind, h0.stack[seat.sb])]
      /\ \A j \in Seats \ {seat.sb} : c1.status[j] = h0.status[j]
  <2>1. seat.sb \in Seats
    BY <1>2, <1>3
  <2>. QED BY ONLY <1>4, <2>1, CommitKeepsChips, stacks \in [Seats -> Nat], SmallBlind \in Nat
<1>b. /\ c1.acted = h0.acted /\ c1.button = h0.button /\ c1.street = h0.street
      /\ c1.status = [h0.status EXCEPT ![seat.sb] =
                        IF h0.stack[seat.sb] = Lesser(SmallBlind, h0.stack[seat.sb])
                        THEN "AllIn" ELSE @]
  BY <1>4 DEF ChipsOK, Commit, HandState
<1>. HIDE DEF c1
<1>7. /\ ChipsOK(c2, stacks)
      /\ c2.committed = [c1.committed EXCEPT ![seat.bb] = @ + Lesser(BigBlind, c1.stack[seat.bb])]
      /\ \A j \in Seats \ {seat.bb} : c2.status[j] = c1.status[j]
  <2>1. seat.bb \in Seats /\ BigBlind \in Nat /\ ChipsOK(c1, stacks)
    BY <1>2, <1>3, <1>6
  <2>. QED BY ONLY <2>1, CommitKeepsChips, stacks \in [Seats -> Nat]
<1>8. h0 \in HandState /\ c1 \in HandState /\ c2 \in HandState
  BY <1>4, <1>6, <1>7 DEF ChipsOK
<1>9. c2.acted = h0.acted /\ c2.button = h0.button /\ c2.street = h0.street
  BY <1>8, <1>b DEF Commit, HandState
<1>. HIDE DEF c2
<1>10. \A j \in Seats : c2.committed[j] <= BigBlind
  <2>1. stacks[seat.sb] \in Nat /\ c1.stack[seat.bb] \in Nat
    BY <1>2, <1>3, <1>5, <1>8 DEF HandState
  <2>. QED BY <1>2, <1>3, <1>5, <1>6, <1>7, <2>1 DEF Lesser
<1>11. /\ n \in HandState /\ n.toAct = seat.first /\ n.currentBet = BigBlind
       /\ n.stack = c2.stack /\ n.totalBet = c2.totalBet /\ n.status = c2.status
       /\ n.committed = c2.committed /\ n.acted = c2.acted
       /\ n.button = c2.button /\ n.street = c2.street
  BY <1>2, <1>3, <1>8 DEF HandState
<1>12. ChipsOK(n, stacks) /\ BetsBounded(n)
  BY <1>7, <1>10, <1>11 DEF ChipsOK, BetsBounded, Prior, CanAct
<1>13. ASSUME ~(Cardinality(dealt) = 2 /\ stacks[button] <= SmallBlind)
       PROVE  ClockOK(n)
  <2>1. n.status[seat.first] = "Active"
    <3>1. CASE Cardinality(dealt) # 2
      BY <3>1, <1>2, <1>3, <1>5, <1>6, <1>7, <1>11
    <3>2. CASE Cardinality(dealt) = 2
      <4>1. seat.first = button /\ seat.sb = button /\ stacks[button] > SmallBlind
        BY <1>2, <1>13, <3>2
      <4>2. c1.status[button] = h0.status[button]
        BY <1>5, <1>8, <1>b, <4>1 DEF Lesser, HandState
      <4>. QED BY <1>2, <1>3, <1>5, <1>7, <1>11, <4>1, <4>2
    <3>. QED BY <3>1, <3>2
  <2>2. n.acted[seat.first] = FALSE
    BY <1>2, <1>3, <1>5, <1>9, <1>11
  <2>. QED BY <1>2, <1>3, <1>11, <2>1, <2>2 DEF ClockOK, OwesAction, CanAct
<1>. QED BY <1>1, <1>5, <1>9, <1>11, <1>12, <1>13

\* A dealt hand: the pot is the blinds, all that were dealt in are in the hand, and a
\* short heads-up button is all-in and first to act.
LEMMA NewHandMoves ==
  ASSUME NEW SmallBlind \in Nat, NEW BigBlind \in Nat,
         0 < SmallBlind, SmallBlind <= BigBlind,
         NEW stacks \in [Seats -> Nat], NEW button \in Seats,
         NEW dealt, dealt = {i \in Seats : stacks[i] > 0},
         Cardinality(dealt) >= 2, button \in dealt
  PROVE  LET n == NewHand(stacks, dealt, button, SmallBlind, BigBlind)
         IN  /\ n \in HandState /\ PotOK(n) /\ ContestOK(n)
             /\ \A s \in Seats : n.status[s] # "SittingOut" <=> s \in dealt
             /\ Cardinality(dealt) = 2 /\ stacks[button] <= SmallBlind
                  => n.toAct = button /\ n.status[button] = "AllIn"
<1>. DEFINE seat == BlindSeats(dealt, button)
            h0   == Dealt(stacks, dealt, button, BigBlind)
            c1   == Commit(h0, seat.sb, SmallBlind)
            c2   == Commit(c1, seat.bb, BigBlind)
            n    == [c2 EXCEPT !.currentBet = BigBlind, !.minRaise = BigBlind,
                               !.toAct = seat.first]
<1>1. NewHand(stacks, dealt, button, SmallBlind, BigBlind) = n
  BY DEF NewHand
<1>2. /\ seat.sb \in dealt /\ seat.bb \in dealt /\ seat.first \in dealt
      /\ seat.sb # seat.bb /\ dealt \subseteq Seats
      /\ Cardinality(dealt) = 2 => seat.sb = button /\ seat.first = button
  BY BlindSeatsDiffer
<1>3. /\ h0 \in HandState /\ h0.street = "Preflop" /\ h0.board = 0 /\ h0.pot = 0
      /\ h0.totalBet = [i \in Seats |-> 0] /\ h0.stack = stacks
      /\ h0.status = [i \in Seats |-> IF i \in dealt THEN "Active" ELSE "SittingOut"]
  <2>1. /\ [i \in Seats |-> 0] \in [Seats -> Nat]
        /\ [i \in Seats |-> FALSE] \in [Seats -> BOOLEAN]
        /\ [i \in Seats |-> IF i \in dealt THEN "Active" ELSE "SittingOut"]
             \in [Seats -> PlayerStatus]
        /\ "Preflop" \in Street /\ 0 \in 0 .. 5 /\ 0 \in Nat
    BY DEF PlayerStatus, Street
  <2>. QED BY <2>1 DEF Dealt, HandState
<1>. HIDE DEF h0, seat
<1>4. PotOK(h0)
  <2>1. \A x \in Seats : h0.totalBet[x] = 0
    BY <1>3
  <2>2. IsFiniteSet(Seats)
    BY SeatSets
  <2>3. SumOver(h0.totalBet, Seats) = 0
    BY <2>1, <2>2, SumZero
  <2>. QED BY <1>3, <2>3 DEF PotOK
<1>5. seat.sb \in Seats /\ seat.bb \in Seats /\ h0.status[seat.sb] = "Active"
  BY <1>2, <1>3
<1>6. /\ c1 \in HandState /\ PaysOnly(h0, c1, seat.sb)
      /\ c1.street = h0.street /\ c1.board = h0.board
      /\ c1.status[seat.sb] \in {"Active", "AllIn"}
      /\ SmallBlind >= h0.stack[seat.sb] => c1.status[seat.sb] = "AllIn"
  <2>1. h0 \in HandState
    BY <1>3
  <2>. QED BY ONLY ZenonT(60), <1>5, <2>1, CommitMoves, SmallBlind \in Nat
<1>. HIDE DEF c1
<1>7. c1.status[seat.bb] = "Active"
  BY <1>2, <1>3, <1>5, <1>6 DEF PaysOnly
<1>8. /\ c2 \in HandState /\ PaysOnly(c1, c2, seat.bb)
      /\ c2.street = c1.street /\ c2.board = c1.board
      /\ c2.status[seat.bb] \in {"Active", "AllIn"}
  BY ZenonT(60), <1>5, <1>6, <1>7, CommitMoves
<1>. HIDE DEF c2
<1>9. PotOK(c2)
  BY <1>3, <1>4, <1>5, <1>6, <1>8, PaysOnlyPot
<1>10. /\ n \in HandState /\ n.toAct = seat.first /\ n.totalBet = c2.totalBet /\ n.pot = c2.pot
       /\ n.status = c2.status /\ n.street = "Preflop" /\ n.board = 0
  BY <1>2, <1>3, <1>6, <1>8 DEF HandState
<1>11. \A i \in Seats : /\ i \in dealt => n.status[i] \in {"Active", "AllIn"}
                        /\ i \notin dealt => n.status[i] = "SittingOut"
  BY <1>2, <1>3, <1>5, <1>6, <1>8, <1>10 DEF PaysOnly
<1>12. NonFolded(n) = dealt
  BY <1>2, <1>11 DEF NonFolded
<1>13. ContestOK(n)
  BY <1>2, <1>10, <1>12 DEF ContestOK, BoardOn
<1>14. ASSUME Cardinality(dealt) = 2, stacks[button] <= SmallBlind
       PROVE  n.toAct = button /\ n.status[button] = "AllIn"
  <2>1. seat.sb = button /\ seat.first = button /\ SmallBlind >= h0.stack[seat.sb]
    BY <1>2, <1>3, <1>14
  <2>. QED BY <1>2, <1>5, <1>6, <1>8, <1>10, <2>1 DEF PaysOnly
<1>. HIDE DEF n
<1>15. PotOK(n)
  BY <1>9, <1>10 DEF PotOK
<1>. QED BY <1>1, <1>10, <1>11, <1>13, <1>14, <1>15

-----------------------------------------------------------------------------
(* The settlement *)

\* The levels of the contributions, and the layers between them.
LEMMA LevelsOK ==
  ASSUME NEW h \in HandState
  PROVE  /\ IsFiniteSet(Levels(h)) /\ Levels(h) \subseteq Nat \ {0}
         /\ \A l \in Levels(h) : /\ LevelBelow(h, l) \in Nat /\ LevelBelow(h, l) < l
                                 /\ LevelBelow(h, l) \in {0} \cup Levels(h)
                                 /\ \A m \in Levels(h) : m < l => m <= LevelBelow(h, l)
                                 /\ LayerAmount(h, l) \in Nat
<1>1. h.totalBet \in [Seats -> Nat]
  BY DEF HandState
<1>2. IsFiniteSet({h.totalBet[i] : i \in Seats})
  BY SeatSets, ImageFinite
<1>3. Levels(h) \subseteq {h.totalBet[i] : i \in Seats} /\ Levels(h) \subseteq Nat \ {0}
  BY <1>1 DEF Levels
<1>4. IsFiniteSet(Levels(h))
  BY <1>2, <1>3, FS_Subset
<1>5. ASSUME NEW l \in Levels(h)
      PROVE  /\ LevelBelow(h, l) \in Nat /\ LevelBelow(h, l) < l
             /\ LevelBelow(h, l) \in {0} \cup Levels(h)
             /\ \A m \in Levels(h) : m < l => m <= LevelBelow(h, l)
             /\ LayerAmount(h, l) \in Nat
  <2>. DEFINE B == {0} \cup {m \in Levels(h) : m < l}
  <2>1. IsFiniteSet(B) /\ B \in SUBSET Nat /\ B # {}
    <3>1. IsFiniteSet({m \in Levels(h) : m < l})
      BY <1>4, FS_Subset
    <3>2. IsFiniteSet({0})
      BY FS_Singleton
    <3>3. IsFiniteSet(B)
      BY <3>1, <3>2, FS_Union
    <3>. QED BY <1>3, <3>3
  <2>2. Max(B) \in B /\ \A y \in B : y <= Max(B)
    BY <2>1, MaxOfNat
  <2>3. l \in Nat \ {0}
    BY <1>3
  <2>4. /\ Max(B) \in Nat /\ Max(B) < l /\ Max(B) \in {0} \cup Levels(h)
        /\ \A m \in Levels(h) : m < l => m <= Max(B)
    BY <2>1, <2>2, <2>3
  <2>5. Cardinality(Contributors(h, l)) \in Nat
    <3>1. Contributors(h, l) \in SUBSET Seats
      BY DEF Contributors
    <3>. QED BY <3>1, SeatSets
  <2>6. LevelBelow(h, l) = Max(B)
    BY DEF LevelBelow
  <2>. HIDE DEF B
  <2>7. (l - Max(B)) \in Nat
    BY <2>3, <2>4
  <2>8. \A a, b \in Nat : a * b \in Nat
    OBVIOUS
  <2>. QED BY <2>4, <2>5, <2>6, <2>7, <2>8 DEF LayerAmount
<1>. QED BY <1>3, <1>4, <1>5

\* A share of a layer is a number of chips, and nothing to a seat that is not eligible.
LEMMA ShareType ==
  ASSUME NEW h \in HandState, NEW l \in Levels(h), NEW best, NEW i \in Seats
  PROVE  /\ ShareOf(h, l, best, i) \in Nat
         /\ i \notin Eligible(h, l) => ShareOf(h, l, best, i) = 0
<1>. DEFINE W == BestSeats(Eligible(h, l), best)
            n == Cardinality(W)
            k == Cardinality({j \in W : Distance(h.button, j) < Distance(h.button, i)})
            a == LayerAmount(h, l)
<1>1. W \in SUBSET Seats /\ W \subseteq Eligible(h, l)
  BY DEF BestSeats, Eligible, Contributors
<1>2. {j \in W : Distance(h.button, j) < Distance(h.button, i)} \in SUBSET Seats
  BY <1>1
<1>3. n \in Nat /\ k \in Nat /\ a \in Nat /\ (W = {} <=> n = 0)
  BY <1>1, <1>2, SeatSets, LevelsOK
<1>4. ShareOf(h, l, best, i) = IF i \notin W THEN 0
                               ELSE a \div n + (IF k < a % n THEN 1 ELSE 0)
  BY DEF ShareOf
<1>. HIDE DEF W, n, k, a
<1>5. CASE i \notin W
  BY <1>4, <1>5
<1>6. CASE i \in W
  <2>1. n > 0
    BY <1>3, <1>6
  <2>2. a \div n \in Nat
    BY <1>3, <2>1
  <2>. QED BY <1>1, <1>4, <1>6, <2>2
<1>. QED BY <1>5, <1>6

\* The awards are chips, and a seat that folded or put nothing in while not dealt in gets none.
LEMMA AwardsType ==
  ASSUME NEW h \in HandState, NEW best
  PROVE  /\ Awards(h, best) \in [Seats -> Nat]
         /\ \A i \in Seats :
              h.status[i] = "Folded" \/ (h.status[i] = "SittingOut" /\ h.totalBet[i] = 0)
                => Awards(h, best)[i] = 0
<1>. DEFINE Shares(i) == [l \in Pots(h) |-> ShareOf(h, l, best, i)]
<1>1. IsFiniteSet(Pots(h)) /\ Pots(h) \subseteq Levels(h)
  <2>1. Pots(h) \subseteq Levels(h)
    BY DEF Pots
  <2>. QED BY <2>1, LevelsOK, FS_Subset
<1>2. ASSUME NEW i \in Seats PROVE SumOver(Shares(i), Pots(h)) \in Nat
  <2>1. \A l \in Pots(h) : Shares(i)[l] \in Nat
    BY <1>1, ShareType
  <2>. HIDE DEF Shares
  <2>. QED BY <1>1, <2>1, SumNat
<1>3. ASSUME NEW i \in Seats,
             h.status[i] = "Folded" \/ (h.status[i] = "SittingOut" /\ h.totalBet[i] = 0)
      PROVE  SumOver(Shares(i), Pots(h)) = 0 /\ i \notin NonFolded(h)
  <2>1. ASSUME NEW l \in Pots(h) PROVE Shares(i)[l] = 0
    <3>1. l \in Levels(h) /\ l \in Nat \ {0}
      BY <1>1, LevelsOK
    <3>2. i \notin Eligible(h, l)
      BY <1>3, <3>1 DEF Eligible, Contributors
    <3>. QED BY <3>1, <3>2, ShareType
  <2>. HIDE DEF Shares
  <2>. QED BY <1>1, <1>3, <2>1, SumZero DEF NonFolded
<1>4. h.pot \in Nat
  BY DEF HandState
<1>5. CASE Cardinality(NonFolded(h)) = 1
  BY <1>3, <1>4, <1>5 DEF Awards
<1>6. CASE Cardinality(NonFolded(h)) # 1
  BY <1>2, <1>3, <1>6 DEF Awards
<1>. QED BY <1>5, <1>6

\* Seen from one seat, no two seats lie at the same distance.
LEMMA DistanceApart ==
  ASSUME NEW a \in Seats, NEW b \in Seats, NEW c \in Seats, b # c
  PROVE  Distance(a, b) # Distance(a, c)
BY NumSeatsAssumption DEF Distance, Seats

\* The members of A closer to the left of b than seat i is.
Closer(A, b, i) == {j \in A : Distance(b, j) < Distance(b, i)}

\* Of finitely many seats, exactly r have fewer than r others closer to the button's left:
\* as many as there are odd chips to give away.
LEMMA FirstInLine ==
  ASSUME NEW b \in Seats, NEW S \in SUBSET Seats
  PROVE  \A r \in 0 .. Cardinality(S) :
           Cardinality({i \in S : Cardinality(Closer(S, b, i)) < r}) = r
<1>. DEFINE First(A, r) == {i \in A : Cardinality(Closer(A, b, i)) < r}
            T == {A \in SUBSET S :
                    \A r \in 0 .. Cardinality(A) : Cardinality(First(A, r)) = r}
<1>1. {} \in T
  <2>1. \A r : First({}, r) = {}
    OBVIOUS
  <2>. HIDE DEF First
  <2>2. \A r \in 0 .. Cardinality({}) : r = 0
    BY FS_EmptySet
  <2>. QED BY <2>1, <2>2, FS_EmptySet
<1>2. ASSUME NEW A \in SUBSET S, A # {}, \A x \in A : A \ {x} \in T PROVE A \in T
  <2>1. PICK z \in A : \A j \in A : Distance(b, j) <= Distance(b, z)
    <3>. DEFINE D == {Distance(b, j) : j \in A}
    <3>1. D \in SUBSET Nat /\ D # {}
      BY <1>2, DistanceType
    <3>2. IsFiniteSet(D)
      <4>. DEFINE d == [j \in Seats |-> Distance(b, j)]
      <4>1. D = {d[j] : j \in A}
        OBVIOUS
      <4>. HIDE DEF D, d
      <4>2. IsFiniteSet(A)
        BY SeatSets
      <4>. QED BY <4>1, <4>2, ImageFinite
    <3>3. \A y \in D : y <= Max(D)
      BY <3>1, <3>2, MaxOfNat
    <3>4. Max(D) \in D
      BY <3>1, <3>2, MaxOfNat
    <3>. HIDE DEF D
    <3>5. PICK z \in A : Max(D) = Distance(b, z)
      BY <3>4 DEF D
    <3>6. \A j \in A : Distance(b, j) \in D
      BY DEF D
    <3>. QED BY <3>3, <3>5, <3>6
  <2>. DEFINE C == A \ {z}
  <2>2. /\ z \in Seats /\ A \in SUBSET Seats /\ C \in SUBSET Seats
        /\ IsFiniteSet(A) /\ IsFiniteSet(C)
        /\ Cardinality(A) \in Nat /\ Cardinality(C) = Cardinality(A) - 1
        /\ Cardinality(C) \in Nat
    BY <2>1, SeatSets, FS_RemoveElement
  <2>3. \A j \in C : Distance(b, j) < Distance(b, z)
    <3>. TAKE j \in C
    <3>1. j \in Seats /\ j # z /\ Distance(b, j) <= Distance(b, z)
      BY <2>1, <2>2
    <3>2. Distance(b, j) # Distance(b, z)
      BY <2>2, <3>1, DistanceApart
    <3>3. Distance(b, j) \in Nat /\ Distance(b, z) \in Nat
      BY <2>2, <3>1, DistanceType
    <3>. QED BY <3>1, <3>2, <3>3
  <2>4. \A i \in Seats : Distance(b, i) \in Nat
    BY DistanceType
  <2>5. Closer(A, b, z) = C
    BY <2>1, <2>2, <2>3, <2>4 DEF Closer
  <2>6. \A i \in C : Closer(A, b, i) = Closer(C, b, i)
    BY <2>1, <2>2, <2>3, <2>4 DEF Closer
  <2>7. \A r \in 0 .. Cardinality(C) : Cardinality(First(C, r)) = r
    BY <1>2, <2>1
  <2>8. \A r \in 0 .. Cardinality(C) : First(A, r) = First(C, r)
    BY <2>1, <2>2, <2>5, <2>6
  <2>9. First(A, Cardinality(A)) = A
    <3>1. ASSUME NEW i \in C PROVE Cardinality(Closer(A, b, i)) < Cardinality(A)
      <4>1. Closer(C, b, i) \in SUBSET C
        BY DEF Closer
      <4>2. Cardinality(Closer(C, b, i)) <= Cardinality(C)
        BY <2>2, <4>1, FS_Subset
      <4>3. Cardinality(Closer(C, b, i)) \in Nat
        BY <2>2, <4>1, SeatSets
      <4>. QED BY <2>2, <2>6, <4>2, <4>3
    <3>2. Cardinality(Closer(A, b, z)) < Cardinality(A)
      BY <2>2, <2>5
    <3>3. \A i \in A : Cardinality(Closer(A, b, i)) < Cardinality(A)
      BY <3>1, <3>2
    <3>. QED BY <3>3
  <2>. HIDE DEF First, C
  <2>10. \A r \in 0 .. Cardinality(A) : r \in 0 .. Cardinality(C) \/ r = Cardinality(A)
    BY <2>2
  <2>11. \A r \in 0 .. Cardinality(A) : Cardinality(First(A, r)) = r
    BY <2>7, <2>8, <2>9, <2>10
  <2>. QED BY <2>11
<1>3. S \in T
  <2>. HIDE DEF T
  <2>1. \A A \in SUBSET S : A # {} /\ (\A x \in A : A \ {x} \in T) => A \in T
    BY <1>2
  <2>2. IsFiniteSet(S)
    BY SeatSets
  <2>3. \A A \in SUBSET S : A \in T
    BY <1>1, <2>1, <2>2, SetInduct, Zenon
  <2>. QED BY <2>3
<1>. QED BY <1>3

\* A layer is paid out exactly: the equal shares and the odd chips add up to it.
LEMMA SharesAddUp ==
  ASSUME NEW h \in HandState, NEW l \in Levels(h), Eligible(h, l) # {},
         NEW best \in [Seats -> Int]
  PROVE  SumOver([i \in Seats |-> ShareOf(h, l, best, i)], Seats) = LayerAmount(h, l)
<1>. DEFINE W == BestSeats(Eligible(h, l), best)
            n == Cardinality(W)
            a == LayerAmount(h, l)
            line(i) == Cardinality(Closer(W, h.button, i))
            odd == {i \in W : line(i) < a % n}
            even == [i \in Seats |-> IF i \in W THEN a \div n ELSE 0]
            extra == [i \in Seats |-> IF i \in odd THEN 1 ELSE 0]
            share == [i \in Seats |-> ShareOf(h, l, best, i)]
<1>1. W \in SUBSET Seats /\ odd \in SUBSET Seats /\ h.button \in Seats
  BY DEF BestSeats, Eligible, Contributors, HandState
<1>2. W # {}
  <2>. DEFINE E == Eligible(h, l)
              D == {best[i] : i \in E}
              U == {A \in SUBSET E : A # {} => \E i \in A : \A j \in A : best[i] >= best[j]}
  <2>1. E \in SUBSET Seats /\ IsFiniteSet(E) /\ \A i \in E : best[i] \in Int
    <3>1. E \in SUBSET Seats
      BY DEF Eligible, Contributors
    <3>. QED BY <3>1, SeatSets
  <2>. HIDE DEF E
  <2>2. {} \in U
    OBVIOUS
  <2>3. ASSUME NEW A \in SUBSET E, A # {}, \A x \in A : A \ {x} \in U PROVE A \in U
    <3>1. PICK z \in A : TRUE
      BY <2>3
    <3>2. CASE A = {z}
      BY <2>1, <3>2
    <3>3. CASE A # {z}
      <4>1. PICK x \in A \ {z} : \A j \in A \ {z} : best[x] >= best[j]
        BY <2>3, <3>1, <3>3
      <4>2. CASE best[x] >= best[z]
        BY <4>1, <4>2
      <4>3. CASE ~(best[x] >= best[z])
        <5>1. \A j \in A : best[z] >= best[j]
          BY <2>1, <4>1, <4>3
        <5>. QED BY <5>1
      <4>. QED BY <4>2, <4>3
    <3>. QED BY <3>2, <3>3
  <2>. HIDE DEF U
  <2>4. \A A \in SUBSET E : A # {} /\ (\A x \in A : A \ {x} \in U) => A \in U
    BY <2>3
  <2>5. \A A \in SUBSET E : A \in U
    BY <2>1, <2>2, <2>4, SetInduct, Zenon
  <2>6. E \in U
    BY <2>5
  <2>7. PICK i \in E : \A j \in E : best[i] >= best[j]
    BY <2>6 DEF U, E
  <2>. QED BY <2>7 DEF BestSeats, E
<1>3. n \in Nat /\ n > 0 /\ a \in Nat
  BY <1>1, <1>2, SeatSets, LevelsOK
<1>. HIDE DEF W, n, a
<1>4. a \div n \in Nat /\ a % n \in 0 .. n - 1 /\ a = n * (a \div n) + (a % n)
  BY <1>3
<1>5. Cardinality(odd) = a % n
  <2>1. a % n \in 0 .. Cardinality(W)
    BY <1>3, <1>4 DEF n
  <2>. QED BY <1>1, <2>1, FirstInLine
<1>6. \A i \in Seats : share[i] = even[i] + extra[i]
  <2>1. ASSUME NEW i \in Seats
        PROVE  ShareOf(h, l, best, i) =
                 IF i \notin W THEN 0 ELSE a \div n + (IF line(i) < a % n THEN 1 ELSE 0)
    BY DEF ShareOf, Closer, W, n, a
  <2>. QED BY <1>4, <2>1
<1>7. IsFiniteSet(Seats) /\ \A i \in Seats : even[i] \in Int /\ extra[i] \in Int
  BY <1>4, SeatSets
<1>8. SumOver(even, Seats) = n * (a \div n)
  <2>. DEFINE d == [i \in Seats |-> a \div n]
  <2>1. \A i \in Seats : d[i] \in Int /\ even[i] = IF i \in W THEN d[i] ELSE 0
    BY <1>4
  <2>2. \A i \in W : d[i] = a \div n
    BY <1>1
  <2>3. IsFiniteSet(W) /\ a \div n \in Int
    BY <1>1, <1>4, SeatSets
  <2>. HIDE DEF d, even
  <2>4. SumOver(d, W) = SumOver(even, Seats)
    BY <1>1, <1>7, <2>1, SumPart
  <2>5. SumOver(d, W) = (a \div n) * Cardinality(W)
    BY <2>2, <2>3, SumConst
  <2>6. (a \div n) * n = n * (a \div n)
    BY <1>3, <1>4
  <2>. QED BY <2>4, <2>5, <2>6 DEF n
<1>9. SumOver(extra, Seats) = a % n
  <2>. DEFINE d == [i \in Seats |-> 1]
  <2>1. \A i \in Seats : d[i] \in Int /\ extra[i] = IF i \in odd THEN d[i] ELSE 0
    OBVIOUS
  <2>2. \A i \in odd : d[i] = 1
    BY <1>1
  <2>3. IsFiniteSet(odd) /\ 1 \in Int
    BY <1>1, SeatSets
  <2>. HIDE DEF d, extra, odd
  <2>4. SumOver(d, odd) = SumOver(extra, Seats)
    BY <1>1, <1>7, <2>1, SumPart
  <2>5. SumOver(d, odd) = 1 * Cardinality(odd)
    BY <2>2, <2>3, SumConst
  <2>. QED BY <1>4, <1>5, <2>4, <2>5
<1>10. SumOver(share, Seats) = SumOver(even, Seats) + SumOver(extra, Seats)
  <2>. HIDE DEF share, even, extra
  <2>. QED BY <1>6, <1>7, SumPlus
<1>11. SumOver(share, Seats) = a
  BY <1>4, <1>8, <1>9, <1>10
<1>. QED BY <1>11 DEF a

\* What a layer takes from each of its contributors.
LevelRise(h, l) == l - LevelBelow(h, l)

LevelsUpTo(h, m) == {l \in Levels(h) : l <= m}

\* The layers up to a level, laid one on the other, reach exactly that level.
LEMMA GapsAddUp ==
  ASSUME NEW h \in HandState
  PROVE  \A m \in {0} \cup Levels(h) :
           SumOver([l \in Levels(h) |-> LevelRise(h, l)], LevelsUpTo(h, m)) = m
<1>. DEFINE gaps == [l \in Levels(h) |-> LevelRise(h, l)]
            Bad  == {m \in {0} \cup Levels(h) : SumOver(gaps, LevelsUpTo(h, m)) # m}
<1>1. Bad \in SUBSET Nat
  BY LevelsOK
<1>2. \A m : IsFiniteSet(LevelsUpTo(h, m))
  BY LevelsOK, FS_Subset DEF LevelsUpTo
<1>3. \A l \in Levels(h) : gaps[l] = l - LevelBelow(h, l) /\ gaps[l] \in Int
  <2>1. \A l \in Levels(h) : l \in Nat /\ LevelBelow(h, l) \in Nat
    BY LevelsOK
  <2>. QED BY <2>1 DEF LevelRise
<1>. HIDE DEF gaps
<1>4. ASSUME NEW m \in Bad, \A k \in Bad : m <= k PROVE FALSE
  <2>1. CASE m = 0
    <3>1. LevelsUpTo(h, 0) = {}
      BY LevelsOK DEF LevelsUpTo
    <3>. QED BY <1>4, <2>1, <3>1, SumEmpty
  <2>2. CASE m # 0
    <3>. DEFINE b == LevelBelow(h, m)
    <3>1. m \in Levels(h) /\ m \in Nat
      BY <2>2, LevelsOK
    <3>2. /\ b \in Nat /\ b < m /\ b \in {0} \cup Levels(h)
          /\ \A l \in Levels(h) : l < m => l <= b
      BY <3>1, LevelsOK
    <3>3. b \notin Bad
      BY <1>1, <1>4, <3>1, <3>2
    <3>4. SumOver(gaps, LevelsUpTo(h, b)) = b
      BY <3>2, <3>3
    <3>5. LevelsUpTo(h, m) \ {m} = LevelsUpTo(h, b) /\ m \in LevelsUpTo(h, m)
      <4>1. \A l \in Levels(h) : l \in Nat
        BY LevelsOK
      <4>. HIDE DEF b
      <4>2. \A l \in Levels(h) : (l <= m /\ l # m) <=> l <= b
        BY <3>1, <3>2, <4>1
      <4>3. m <= m
        BY <3>1
      <4>. QED BY <3>1, <4>2, <4>3 DEF LevelsUpTo
    <3>6. gaps[m] = m - b
      BY <1>3, <3>1
    <3>. HIDE DEF b
    <3>7. SumOver(gaps, LevelsUpTo(h, m)) = gaps[m] + SumOver(gaps, LevelsUpTo(h, m) \ {m})
      <4>1. \A l \in LevelsUpTo(h, m) : gaps[l] \in Int
        BY <1>3 DEF LevelsUpTo
      <4>2. m \in LevelsUpTo(h, m)
        BY <3>5
      <4>. QED BY <1>2, <4>1, <4>2, SumTake
    <3>8. SumOver(gaps, LevelsUpTo(h, m)) = m
      BY <3>1, <3>2, <3>4, <3>5, <3>6, <3>7
    <3>. QED BY <1>4, <3>8
  <2>. QED BY <2>1, <2>2
<1>5. Bad = {}
  <2>. HIDE DEF Bad
  <2>. QED BY <1>1, <1>4, LeastNat
<1>. QED BY <1>5 DEF gaps

\* The layers up to a level hold what each seat put in up to that level.
LEMMA LayersHoldBets ==
  ASSUME NEW h \in HandState, NEW m \in {0} \cup Levels(h)
  PROVE  SumOver([l \in LevelsUpTo(h, m) |-> LayerAmount(h, l)], LevelsUpTo(h, m))
           = SumOver([j \in Seats |-> Lesser(m, h.totalBet[j])], Seats)
<1>. DEFINE P == LevelsUpTo(h, m)
            gaps == [l \in Levels(h) |-> LevelRise(h, l)]
            F == [j \in Seats |-> [l \in P |-> IF l <= h.totalBet[j] THEN gaps[l] ELSE 0]]
            row == [j \in Seats |-> SumOver(F[j], P)]
            col == [l \in P |-> SumOver([j \in Seats |-> F[j][l]], Seats)]
            bets == [j \in Seats |-> Lesser(m, h.totalBet[j])]
            layers == [l \in P |-> LayerAmount(h, l)]
<1>1. /\ IsFiniteSet(P) /\ IsFiniteSet(Seats) /\ P \subseteq Levels(h)
      /\ \A l \in Levels(h) : l \in Nat \ {0} /\ gaps[l] \in Int /\ gaps[l] = LevelRise(h, l)
      /\ m \in Nat /\ \A j \in Seats : h.totalBet[j] \in Nat
  <2>1. IsFiniteSet(P) /\ P \subseteq Levels(h)
    BY LevelsOK, FS_Subset DEF LevelsUpTo
  <2>2. \A l \in Levels(h) : l \in Nat \ {0} /\ LevelBelow(h, l) \in Nat
    BY LevelsOK
  <2>3. \A l \in Levels(h) : gaps[l] \in Int /\ gaps[l] = LevelRise(h, l)
    BY <2>2 DEF LevelRise
  <2>4. \A j \in Seats : h.totalBet[j] \in Nat
    BY DEF HandState
  <2>. QED BY <2>1, <2>2, <2>3, <2>4, SeatSets
<1>2. F \in [Seats -> [P -> Int]]
  <2>. HIDE DEF P, gaps
  <2>. QED BY <1>1
<1>3. SumOver(row, Seats) = SumOver(col, P)
  <2>. HIDE DEF P, F
  <2>. QED BY <1>1, <1>2, SumSwap
<1>4. ASSUME NEW j \in Seats PROVE row[j] = bets[j]
  <2>. DEFINE f == F[j]
              q == Lesser(m, h.totalBet[j])
              B == {l \in P : l <= h.totalBet[j]}
  <2>1. q \in {0} \cup Levels(h)
    BY <1>1 DEF Lesser, Levels
  <2>2. B = LevelsUpTo(h, q) /\ B \in SUBSET P
    BY <1>1 DEF LevelsUpTo, Lesser
  <2>3. SumOver(gaps, LevelsUpTo(h, q)) = q
    BY <2>1, GapsAddUp
  <2>4. \A l \in P : gaps[l] \in Int /\ f[l] = IF l \in B THEN gaps[l] ELSE 0
    <3>. HIDE DEF P, gaps
    <3>. QED BY <1>1
  <2>5. row[j] = SumOver(f, P) /\ bets[j] = q
    OBVIOUS
  <2>. HIDE DEF P, F, B, f, gaps, q, row, bets
  <2>6. SumOver(gaps, B) = SumOver(f, P)
    BY <1>1, <2>2, <2>4, SumPart
  <2>. QED BY <2>2, <2>3, <2>5, <2>6
<1>5. ASSUME NEW l \in P PROVE col[l] = layers[l]
  <2>. DEFINE f == [j \in Seats |-> F[j][l]]
              g == [j \in Seats |-> gaps[l]]
              B == Contributors(h, l)
  <2>1. B \in SUBSET Seats /\ IsFiniteSet(B) /\ Cardinality(B) \in Nat
    <3>1. B \in SUBSET Seats
      BY DEF Contributors
    <3>. QED BY <3>1, SeatSets
  <2>2. l \in Levels(h) /\ l \in Nat /\ gaps[l] \in Int /\ gaps[l] = LevelRise(h, l)
    <3>. HIDE DEF P, gaps
    <3>. QED BY <1>1
  <2>3. \A j \in Seats : g[j] \in Int /\ f[j] = IF j \in B THEN g[j] ELSE 0
    <3>. HIDE DEF P, gaps
    <3>. QED BY <1>1, <2>2 DEF Contributors
  <2>4. \A j \in B : g[j] = gaps[l]
    BY <2>1
  <2>5. col[l] = SumOver(f, Seats) /\ layers[l] = LayerAmount(h, l)
    OBVIOUS
  <2>. HIDE DEF P, F, B, f, g, gaps, col, layers
  <2>6. SumOver(g, B) = SumOver(f, Seats)
    BY <1>1, <2>1, <2>3, SumPart
  <2>7. SumOver(g, B) = gaps[l] * Cardinality(B)
    BY <2>1, <2>2, <2>4, SumConst
  <2>8. LayerAmount(h, l) = gaps[l] * Cardinality(B)
    BY <2>2 DEF LayerAmount, LevelRise, B
  <2>. QED BY <2>5, <2>6, <2>7, <2>8
<1>. HIDE DEF P, row, col, bets, layers
<1>6. SumOver(row, Seats) = SumOver(bets, Seats)
  BY <1>1, <1>4, SumSame
<1>7. SumOver(col, P) = SumOver(layers, P)
  BY <1>1, <1>5, SumSame
<1>8. SumOver(layers, P) = SumOver(bets, Seats)
  BY <1>3, <1>6, <1>7
<1>. QED BY <1>8 DEF layers, bets, P

\* No share of a layer is larger than the layer.
LEMMA ShareAtMost ==
  ASSUME NEW h \in HandState, NEW l \in Levels(h), NEW best, NEW i \in Seats
  PROVE  ShareOf(h, l, best, i) <= LayerAmount(h, l)
<1>. DEFINE W == BestSeats(Eligible(h, l), best)
            n == Cardinality(W)
            k == Cardinality(Closer(W, h.button, i))
            a == LayerAmount(h, l)
<1>1. W \in SUBSET Seats /\ Closer(W, h.button, i) \in SUBSET Seats
  BY DEF BestSeats, Eligible, Contributors, Closer
<1>2. n \in Nat /\ k \in Nat /\ a \in Nat /\ (W = {} <=> n = 0)
  BY <1>1, SeatSets, LevelsOK
<1>3. ShareOf(h, l, best, i) = IF i \notin W THEN 0
                               ELSE a \div n + (IF k < a % n THEN 1 ELSE 0)
  BY DEF ShareOf, Closer
<1>. HIDE DEF W, n, k, a
<1>4. CASE i \notin W
  BY <1>2, <1>3, <1>4 DEF a
<1>5. CASE i \in W
  <2>1. n > 0
    BY <1>2, <1>5
  <2>2. a \div n \in Nat /\ a % n \in 0 .. n - 1 /\ a = n * (a \div n) + (a % n)
    BY <1>2, <2>1
  <2>3. \A q \in Nat, m \in Nat : m > 0 => m * q >= q
    OBVIOUS
  <2>4. n * (a \div n) \in Nat /\ n * (a \div n) >= a \div n
    BY <1>2, <2>1, <2>2, <2>3
  <2>5. k < a % n => a % n >= 1
    BY <1>2, <2>2
  <2>. DEFINE q == a \div n
              r == a % n
              p == n * q
  <2>6. q \in Nat /\ r \in Nat /\ p \in Nat /\ p >= q /\ a = p + r /\ (k < r => r >= 1)
    BY <2>2, <2>4, <2>5
  <2>7. ShareOf(h, l, best, i) = q + (IF k < r THEN 1 ELSE 0)
    BY <1>3, <1>5
  <2>. HIDE DEF q, r, p
  <2>8. ShareOf(h, l, best, i) <= a
    BY <2>6, <2>7
  <2>. QED BY <2>8 DEF a
<1>. QED BY <1>4, <1>5

\* A seat that was not dealt in has put nothing in.
SatOutOK(h) == \A s \in Seats : h.status[s] = "SittingOut" => h.totalBet[s] = 0

\* The largest contribution of a seat still in the hand.
Most(h) == Max({0} \cup {h.totalBet[i] : i \in NonFolded(h)})

\* The pots are the layers up to that contribution: only folded seats reach above it.
LEMMA PotsUpToMost ==
  ASSUME NEW h \in HandState, SatOutOK(h)
  PROVE  /\ Most(h) \in {0} \cup Levels(h)
         /\ \A i \in NonFolded(h) : h.totalBet[i] <= Most(h)
         /\ Pots(h) = LevelsUpTo(h, Most(h))
<1>. DEFINE B == {0} \cup {h.totalBet[i] : i \in NonFolded(h)}
<1>1. B \in SUBSET Nat /\ B # {} /\ B \subseteq {0} \cup Levels(h)
  BY DEF NonFolded, HandState, Levels
<1>2. IsFiniteSet(B)
  <2>1. IsFiniteSet({0} \cup Levels(h))
    <3>1. IsFiniteSet(Levels(h))
      BY LevelsOK
    <3>2. IsFiniteSet({0})
      BY FS_Singleton
    <3>. QED BY <3>1, <3>2, FS_Union
  <2>. QED BY <1>1, <2>1, FS_Subset
<1>3. Most(h) \in B /\ \A y \in B : y <= Most(h)
  <2>1. Most(h) = Max(B)
    BY DEF Most
  <2>. HIDE DEF B
  <2>. QED BY <1>1, <1>2, <2>1, MaxOfNat
<1>4. Most(h) \in Nat /\ \A l \in Levels(h) : l \in Nat \ {0}
  BY <1>1, <1>3, LevelsOK
<1>5. ASSUME NEW l \in Levels(h) PROVE Eligible(h, l) # {} <=> l <= Most(h)
  <2>1. ASSUME Eligible(h, l) # {} PROVE l <= Most(h)
    <3>1. PICK i \in Seats : h.totalBet[i] >= l /\ h.status[i] # "Folded"
      BY <2>1 DEF Eligible, Contributors
    <3>2. h.totalBet[i] \in Nat /\ h.status[i] \in PlayerStatus /\ h.totalBet[i] # 0
      BY <1>4, <3>1 DEF HandState
    <3>3. i \in NonFolded(h)
      BY <3>1, <3>2 DEF SatOutOK, PlayerStatus, NonFolded
    <3>4. h.totalBet[i] <= Most(h)
      BY <1>3, <3>3
    <3>. QED BY <1>4, <3>1, <3>2, <3>4
  <2>2. ASSUME l <= Most(h) PROVE Eligible(h, l) # {}
    <3>1. Most(h) # 0
      BY <1>4, <2>2
    <3>2. PICK i \in NonFolded(h) : Most(h) = h.totalBet[i]
      BY <1>3, <3>1
    <3>3. h.totalBet[i] >= l
      BY <1>4, <2>2, <3>2
    <3>. QED BY <3>2, <3>3 DEF Eligible, Contributors, NonFolded
  <2>. QED BY <2>1, <2>2
<1>. QED BY <1>1, <1>3, <1>5 DEF Pots, LevelsUpTo

\* In a contested hand the awards add up to what each seat put in up to the largest
\* contribution still in the hand; a seat left alone takes the pot.
LEMMA AwardsAddUp ==
  ASSUME NEW h \in HandState, NEW best \in [Seats -> Int], SatOutOK(h)
  PROVE  SumOver(Awards(h, best), Seats)
           = IF Cardinality(NonFolded(h)) = 1 THEN h.pot
             ELSE SumOver([j \in Seats |-> Lesser(Most(h), h.totalBet[j])], Seats)
<1>1. CASE Cardinality(NonFolded(h)) = 1
  <2>. DEFINE none == [i \in Seats |-> 0]
              a == Awards(h, best)
  <2>1. NonFolded(h) \in SUBSET Seats /\ IsFiniteSet(NonFolded(h)) /\ IsFiniteSet(Seats)
    <3>1. NonFolded(h) \in SUBSET Seats
      BY DEF NonFolded
    <3>. QED BY <3>1, SeatSets
  <2>2. PICK w : NonFolded(h) = {w}
    BY <1>1, <2>1, FS_Singleton
  <2>3. w \in Seats /\ h.pot \in Nat
    BY <2>1, <2>2 DEF HandState
  <2>4. \A i \in Seats : a[i] = (IF i = w THEN h.pot ELSE 0) /\ none[i] = 0
    BY <1>1, <2>2 DEF Awards
  <2>. HIDE DEF a, none
  <2>5. SumOver(a, Seats) = SumOver(none, Seats) + (a[w] - none[w])
    <3>1. \A i \in Seats : none[i] \in Int /\ a[i] \in Int
      BY <2>3, <2>4
    <3>2. \A i \in Seats \ {w} : a[i] = none[i]
      BY <2>4
    <3>. QED BY <2>1, <2>3, <3>1, <3>2, SumChange
  <2>6. SumOver(none, Seats) = 0
    BY <2>1, <2>4, SumZero
  <2>. QED BY <1>1, <2>3, <2>4, <2>5, <2>6 DEF a
<1>2. CASE Cardinality(NonFolded(h)) # 1
  <2>. DEFINE P == Pots(h)
              F == [i \in Seats |-> [l \in P |-> ShareOf(h, l, best, i)]]
              row == [i \in Seats |-> SumOver(F[i], P)]
              col == [l \in P |-> SumOver([i \in Seats |-> F[i][l]], Seats)]
              layers == [l \in P |-> LayerAmount(h, l)]
              bets == [j \in Seats |-> Lesser(Most(h), h.totalBet[j])]
  <2>1. IsFiniteSet(P) /\ P \subseteq Levels(h) /\ IsFiniteSet(Seats)
    <3>1. P \subseteq Levels(h)
      BY DEF Pots
    <3>. QED BY <3>1, LevelsOK, FS_Subset, SeatSets
  <2>2. F \in [Seats -> [P -> Int]]
    <3>1. \A i \in Seats, l \in P : ShareOf(h, l, best, i) \in Int
      BY <2>1, ShareType
    <3>. HIDE DEF P
    <3>. QED BY <3>1
  <2>3. Awards(h, best) = row
    BY <1>2 DEF Awards
  <2>4. SumOver(row, Seats) = SumOver(col, P)
    <3>. HIDE DEF P, F
    <3>. QED BY <2>1, <2>2, SumSwap
  <2>5. ASSUME NEW l \in P PROVE col[l] = layers[l]
    <3>1. [i \in Seats |-> F[i][l]] = [i \in Seats |-> ShareOf(h, l, best, i)]
      BY <2>5
    <3>2. l \in Levels(h) /\ Eligible(h, l) # {}
      BY <2>5 DEF Pots
    <3>3. SumOver([i \in Seats |-> ShareOf(h, l, best, i)], Seats) = LayerAmount(h, l)
      BY <3>2, SharesAddUp
    <3>4. col[l] = SumOver([i \in Seats |-> F[i][l]], Seats) /\ layers[l] = LayerAmount(h, l)
      OBVIOUS
    <3>. QED BY ONLY <3>1, <3>3, <3>4
  <2>6. SumOver(col, P) = SumOver(layers, P)
    <3>. HIDE DEF P, col, layers
    <3>. QED BY <2>1, <2>5, SumSame
  <2>7. SumOver(layers, P) = SumOver(bets, Seats)
    <3>1. P = LevelsUpTo(h, Most(h)) /\ Most(h) \in {0} \cup Levels(h)
      BY PotsUpToMost
    <3>2. SumOver([l \in LevelsUpTo(h, Most(h)) |-> LayerAmount(h, l)], LevelsUpTo(h, Most(h)))
            = SumOver(bets, Seats)
      BY <3>1, LayersHoldBets
    <3>. QED BY ONLY <3>1, <3>2
  <2>8. SumOver(Awards(h, best), Seats) = SumOver(bets, Seats)
    BY ONLY <2>3, <2>4, <2>6, <2>7
  <2>. QED BY <1>2, <2>8
<1>. QED BY <1>1, <1>2

\* Nobody wins more from a seat than both have put in.
LEMMA AwardsBounded ==
  ASSUME NEW h \in HandState, NEW best, NEW i \in Seats, Cardinality(NonFolded(h)) # 1
  PROVE  Awards(h, best)[i]
           <= SumOver([j \in Seats |-> Lesser(h.totalBet[i], h.totalBet[j])], Seats)
<1>. DEFINE P == Pots(h)
            m == h.totalBet[i]
            Q == LevelsUpTo(h, m)
            f == [l \in P |-> ShareOf(h, l, best, i)]
            g == [l \in P |-> IF l <= m THEN LayerAmount(h, l) ELSE 0]
            layers == [l \in Q |-> LayerAmount(h, l)]
            taken == [l \in Q |-> IF l \in P THEN LayerAmount(h, l) ELSE 0]
<1>1. /\ IsFiniteSet(P) /\ P \subseteq Levels(h) /\ IsFiniteSet(Q) /\ Q \subseteq Levels(h)
      /\ \A l \in Levels(h) : LayerAmount(h, l) \in Nat /\ l \in Nat
      /\ m \in Nat /\ m \in {0} \cup Levels(h)
  <2>1. P \subseteq Levels(h) /\ Q \subseteq Levels(h)
    BY DEF Pots, LevelsUpTo
  <2>2. IsFiniteSet(P) /\ IsFiniteSet(Q)
    BY <2>1, LevelsOK, FS_Subset
  <2>3. m \in Nat /\ m \in {0} \cup Levels(h)
    BY DEF HandState, Levels
  <2>4. \A l \in Levels(h) : LayerAmount(h, l) \in Nat /\ l \in Nat
    BY LevelsOK
  <2>. QED BY <2>1, <2>2, <2>3, <2>4
<1>2. Awards(h, best)[i] = SumOver(f, P)
  BY DEF Awards
<1>3. \A l \in P : f[l] \in Int /\ g[l] \in Int /\ f[l] <= g[l]
  <2>. SUFFICES ASSUME NEW l \in P PROVE f[l] \in Int /\ g[l] \in Int /\ f[l] <= g[l]
    OBVIOUS
  <2>1. f[l] = ShareOf(h, l, best, i) /\ g[l] = IF l <= m THEN LayerAmount(h, l) ELSE 0
    OBVIOUS
  <2>2. l \in Levels(h) /\ l \in Nat /\ LayerAmount(h, l) \in Nat
    BY <1>1
  <2>3. ShareOf(h, l, best, i) \in Nat
        /\ (i \notin Eligible(h, l) => ShareOf(h, l, best, i) = 0)
    BY <2>2, ShareType
  <2>4. ~(l <= m) => i \notin Eligible(h, l)
    BY <1>1, <2>2 DEF Eligible, Contributors
  <2>5. ShareOf(h, l, best, i) <= LayerAmount(h, l)
    BY <2>2, ShareAtMost
  <2>. QED BY <2>1, <2>2, <2>3, <2>4, <2>5
<1>. HIDE DEF f, P, Q
<1>4. SumOver(f, P) <= SumOver(g, P)
  <2>. HIDE DEF g
  <2>. QED BY <1>1, <1>3, SumLE
<1>5. SumOver(g, P) = SumOver(taken, Q)
  <2>. DEFINE all == [l \in Levels(h) |-> LayerAmount(h, l)]
  <2>1. /\ \A l \in P : all[l] \in Int /\ g[l] = IF l \in P \cap Q THEN all[l] ELSE 0
        /\ \A l \in Q : all[l] \in Int /\ taken[l] = IF l \in P \cap Q THEN all[l] ELSE 0
    BY <1>1 DEF Q, LevelsUpTo
  <2>2. P \cap Q \in SUBSET P /\ P \cap Q \in SUBSET Q
    OBVIOUS
  <2>. HIDE DEF g, taken, all
  <2>3. SumOver(all, P \cap Q) = SumOver(g, P)
    BY <1>1, <2>1, <2>2, SumPart
  <2>4. SumOver(all, P \cap Q) = SumOver(taken, Q)
    BY <1>1, <2>1, <2>2, SumPart
  <2>. QED BY <2>3, <2>4
<1>6. \A l \in Q : taken[l] \in Int /\ layers[l] \in Int /\ taken[l] <= layers[l]
  BY <1>1
<1>7. SumOver(taken, Q) <= SumOver(layers, Q)
  <2>. HIDE DEF taken, layers
  <2>. QED BY <1>1, <1>6, SumLE
<1>8. SumOver(layers, Q) = SumOver([j \in Seats |-> Lesser(m, h.totalBet[j])], Seats)
  BY <1>1, LayersHoldBets DEF Q
<1>9. /\ SumOver(f, P) \in Int /\ SumOver(g, P) \in Int /\ SumOver(layers, Q) \in Int
  <2>. HIDE DEF g, taken, layers
  <2>. QED BY <1>1, <1>3, <1>6, SumInt
<1>10. SumOver(f, P) <= SumOver(layers, Q)
  BY <1>4, <1>5, <1>7, <1>9
<1>. QED BY <1>2, <1>8, <1>10

\* What a seat put in above everybody else makes a layer of its own, and comes back.
LEMMA LayerAlone ==
  ASSUME NEW h \in HandState, NEW best \in [Seats -> Int], NEW i \in NonFolded(h), NEW m \in Nat,
         h.totalBet[i] > m, \A j \in Seats \ {i} : h.totalBet[j] <= m,
         Cardinality(NonFolded(h)) # 1
  PROVE  Awards(h, best)[i] >= h.totalBet[i] - m
<1>. DEFINE P == Pots(h)
            l == h.totalBet[i]
            f == [k \in P |-> ShareOf(h, k, best, i)]
            below == LevelBelow(h, l)
<1>1. i \in Seats /\ l \in Nat /\ l > m /\ l \in Levels(h) /\ \A j \in Seats : h.totalBet[j] \in Nat
  BY DEF NonFolded, HandState, Levels
<1>2. /\ Contributors(h, l) = {i} /\ Eligible(h, l) = {i}
      /\ BestSeats(Eligible(h, l), best) = {i}
  <2>1. Contributors(h, l) = {i}
    BY <1>1 DEF Contributors
  <2>2. Eligible(h, l) = {i}
    BY <2>1 DEF Eligible, NonFolded
  <2>3. best[i] \in Int
    BY <1>1
  <2>. QED BY <2>1, <2>2, <2>3 DEF BestSeats
<1>3. l \in P
  BY <1>1, <1>2 DEF Pots
<1>4. below \in Nat /\ below <= m
  <2>1. below \in Nat /\ below < l /\ below \in {0} \cup Levels(h)
    BY <1>1, LevelsOK
  <2>2. CASE below = 0
    BY <2>1, <2>2
  <2>3. CASE below # 0
    <3>1. PICK j \in Seats : below = h.totalBet[j]
      BY <2>1, <2>3 DEF Levels
    <3>2. j # i
      BY <1>1, <2>1, <3>1
    <3>. QED BY <2>1, <3>1, <3>2
  <2>. QED BY <2>2, <2>3
<1>5. ShareOf(h, l, best, i) = l - below
  <2>1. Cardinality({i}) = 1
    BY FS_Singleton
  <2>2. LayerAmount(h, l) = (l - below) * 1
    BY <1>2, <2>1 DEF LayerAmount
  <2>3. ShareOf(h, l, best, i)
          = LayerAmount(h, l) \div 1
              + (IF Cardinality(Closer({i}, h.button, i)) < LayerAmount(h, l) % 1 THEN 1 ELSE 0)
    BY <1>2, <2>1 DEF ShareOf, Closer
  <2>. DEFINE a == l - below
  <2>4. a \in Nat /\ LayerAmount(h, l) = a
    BY <1>1, <1>4, <2>2
  <2>. HIDE DEF a
  <2>5. a \div 1 = a /\ a % 1 = 0
    BY <2>4
  <2>6. Cardinality(Closer({i}, h.button, i)) \in Nat
    <3>1. Closer({i}, h.button, i) \in SUBSET Seats
      BY <1>1 DEF Closer
    <3>. QED BY <3>1, SeatSets
  <2>7. ShareOf(h, l, best, i) = a
    BY <2>3, <2>4, <2>5, <2>6
  <2>. QED BY <2>7 DEF a
<1>6. IsFiniteSet(P) /\ \A k \in P : f[k] \in Nat
  <2>1. P \subseteq Levels(h)
    BY DEF Pots
  <2>2. \A k \in P : ShareOf(h, k, best, i) \in Nat
    BY <1>1, <2>1, ShareType
  <2>. QED BY <2>1, <2>2, LevelsOK, FS_Subset
<1>7. Awards(h, best)[i] = SumOver(f, P) /\ f[l] = ShareOf(h, l, best, i)
  BY <1>1, <1>3 DEF Awards
<1>. HIDE DEF P, f, l, below
<1>8. f[l] <= SumOver(f, P) /\ SumOver(f, P) \in Nat
  BY <1>3, <1>6, SumMember, SumNat
<1>9. Awards(h, best)[i] >= l - m
  BY <1>1, <1>4, <1>5, <1>7, <1>8
<1>. QED BY <1>9 DEF l

=============================================================================
