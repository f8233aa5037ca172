----------------------------- MODULE FoldProofs -----------------------------
(***************************************************************************)
(* What the folds of the community modules compute.  The models add up     *)
(* with SumFunction and SumFunctionOnSet, whose definition chooses the     *)
(* order of the elements; the lemmas say that the order does not matter    *)
(* and how a sum changes with one element.                                 *)
(*                                                                         *)
(* The arguments are by induction on the size of a set.  The induction     *)
(* theorems of the library take the formula as an operator, which the      *)
(* provers cannot instantiate; instead, a set of counterexamples is shown  *)
(* to have no smallest member (WFMin).                                     *)
(***************************************************************************)
EXTENDS Integers, Functions, FiniteSetsExt, FiniteSetTheorems, WellFoundedInduction, TLAPS

\* Numbers that are natural have a least one among them.
LEMMA SmallestMember ==
    ASSUME NEW T, T \subseteq Nat, T # {}
    PROVE  \E m \in T : \A k \in T : m <= k
  <1> DEFINE R == OpToRel(<, Nat)
  <1>1. IsWellFoundedOn(R, Nat)
    BY NatLessThanWellFounded
  <1>2. \A x, y \in Nat : <<x, y>> \in R <=> x < y
    BY DEF OpToRel
  <1> HIDE DEF R
  <1>3. PICK m \in T : \A k \in T : ~(<<k, m>> \in R)
    BY <1>1, WFMin
  <1>4. m \in Nat /\ \A k \in T : k \in Nat
    OBVIOUS
  <1>5. \A k \in T : ~(k < m)
    BY <1>2, <1>3, <1>4
  <1> QED
    BY <1>4, <1>5

\* A set of numbers that holds the successor of each of its members, and 0, holds
\* every number.
LEMMA EveryNumber ==
    ASSUME NEW G, 0 \in G, \A n \in Nat : n \in G => n + 1 \in G
    PROVE  Nat \subseteq G
  <1> SUFFICES ASSUME Nat \ G # {} PROVE FALSE
    OBVIOUS
  <1>1. PICK m \in Nat \ G : \A k \in Nat \ G : m <= k
    <2> DEFINE T == Nat \ G
    <2>1. T \subseteq Nat /\ T # {}
      OBVIOUS
    <2> HIDE DEF T
    <2>2. \E m \in T : \A k \in T : m <= k
      BY <2>1, SmallestMember
    <2> QED
      BY <2>2 DEF T
  <1>2. m # 0 /\ m - 1 \in Nat /\ m - 1 < m /\ m - 1 + 1 = m
    BY <1>1
  <1>3. m - 1 \in G
    BY <1>1, <1>2
  <1> QED
    BY <1>1, <1>2, <1>3

\* Of finite sets one contains none of the others.
LEMMA MinimalSet ==
    ASSUME NEW U, IsFiniteSet(U), NEW F, F \subseteq SUBSET U, F # {}
    PROVE  \E s \in F : \A t \in F : t \subseteq s => t = s
  <1>1. \A s \in F : IsFiniteSet(s) /\ Cardinality(s) \in Nat
    BY FS_Subset, FS_CardinalityType
  <1> DEFINE sizes == {Cardinality(s) : s \in F}
  <1>2. sizes \subseteq Nat /\ sizes # {}
    BY <1>1
  <1> HIDE DEF sizes
  <1>3. PICK m \in sizes : \A k \in sizes : m <= k
    BY <1>2, SmallestMember
  <1>4. PICK s \in F : Cardinality(s) = m
    BY <1>3 DEF sizes
  <1>5. \A t \in F : Cardinality(s) <= Cardinality(t)
    BY <1>3, <1>4 DEF sizes
  <1>6. ASSUME NEW t \in F, t \subseteq s PROVE t = s
    <2>1. Cardinality(t) <= Cardinality(s) /\ (Cardinality(s) = Cardinality(t) => s = t)
      BY <1>1, <1>6, FS_Subset
    <2>2. Cardinality(t) \in Nat /\ Cardinality(s) \in Nat
      BY <1>1
    <2> QED
      BY <1>5, <2>1, <2>2
  <1> QED
    BY <1>6

-----------------------------------------------------------------------------
(* Sums.                                                                   *)

\* The member of a set that the sum takes first.
Pick(s) == CHOOSE x \in s : TRUE

\* "it" is the sum over each subset of S.
Adds(f, S, it) ==
    it = [s \in SUBSET S |-> IF s = {} THEN 0 ELSE f[Pick(s)] + it[s \ {Pick(s)}]]

LEMMA PickIn == ASSUME NEW s, s # {} PROVE Pick(s) \in s
  BY DEF Pick

\* What SumFunctionOnSet is.
LEMMA SumUnfold ==
    ASSUME NEW f, NEW S
    PROVE  SumFunctionOnSet(f, S) = (CHOOSE it : Adds(f, S, it))[S]
  BY DEF SumFunctionOnSet, FoldFunctionOnSet, MapThenFoldSet, Adds, Pick

\* There is such a function over the subsets of a finite set.
LEMMA AddsExists ==
    ASSUME NEW f, NEW S, IsFiniteSet(S)
    PROVE  \E it : Adds(f, S, it)
  <1> DEFINE Low(n) == {s \in SUBSET S : Cardinality(s) <= n}
             Sums(n, it) == it = [s \in Low(n) |->
                               IF s = {} THEN 0 ELSE f[Pick(s)] + it[s \ {Pick(s)}]]
             G == {n \in Nat : \E it : Sums(n, it)}
  <1>1. \A s \in SUBSET S : IsFiniteSet(s) /\ Cardinality(s) \in Nat
    BY FS_Subset, FS_CardinalityType
  <1>2. \A s \in SUBSET S : s # {} =>
            /\ s \ {Pick(s)} \in SUBSET S
            /\ Cardinality(s \ {Pick(s)}) = Cardinality(s) - 1
    BY <1>1, FS_RemoveElement, PickIn
  <1>3. 0 \in G
    <2> DEFINE it == [s \in Low(0) |-> 0]
    <2>1. \A s \in Low(0) : s = {}
      BY <1>1, FS_EmptySet
    <2>2. Sums(0, it)
      BY <2>1
    <2> QED
      BY <2>2
  <1>4. ASSUME NEW n \in Nat, n \in G PROVE n + 1 \in G
    <2>1. PICK it : Sums(n, it)
      BY <1>4
    <2> DEFINE next == [s \in Low(n + 1) |->
                          IF s = {} THEN 0
                          ELSE f[Pick(s)] + it[s \ {Pick(s)}]]
    <2>2. \A s \in Low(n) : it[s] = IF s = {} THEN 0 ELSE f[Pick(s)] + it[s \ {Pick(s)}]
      BY <2>1
    <2>3. \A s \in Low(n) : s \in Low(n + 1)
      BY <1>1
    <2>4. \A s \in Low(n + 1) : s # {} => s \ {Pick(s)} \in Low(n)
      BY <1>1, <1>2
    <2>5. \A s \in Low(n) : next[s] = it[s]
      BY <2>2, <2>3
    <2>6. \A s \in Low(n + 1) :
              next[s] = IF s = {} THEN 0 ELSE f[Pick(s)] + next[s \ {Pick(s)}]
      BY <2>4, <2>5
    <2>7. next = [s \in Low(n + 1) |->
                     IF s = {} THEN 0 ELSE f[Pick(s)] + next[s \ {Pick(s)}]]
      BY <2>6
    <2> HIDE DEF next, Low
    <2>8. Sums(n + 1, next)
      BY <2>7
    <2>9. \E i : Sums(n + 1, i)
      BY <2>8
    <2> HIDE DEF Sums
    <2> QED
      BY <2>9
  <1>5. Nat \subseteq G
    <2> HIDE DEF G
    <2> QED
      BY <1>3, <1>4, EveryNumber
  <1>6. Cardinality(S) \in Nat /\ \A s \in SUBSET S : Cardinality(s) <= Cardinality(S)
    BY <1>1, FS_Subset
  <1>7. Low(Cardinality(S)) = SUBSET S
    BY <1>6
  <1>8. PICK it : Sums(Cardinality(S), it)
    BY <1>5, <1>6
  <1>9. Adds(f, S, it)
    <2> HIDE DEF Low
    <2> QED
      BY <1>7, <1>8 DEF Adds
  <1> QED
    BY <1>9

\* It is the same for functions that agree on the set, and for a larger set.
LEMMA AddsAgree ==
    ASSUME NEW f, NEW g, NEW S, NEW T, S \subseteq T, IsFiniteSet(S),
           \A x \in S : f[x] = g[x],
           NEW a, Adds(f, S, a), NEW b, Adds(g, T, b)
    PROVE  a[S] = b[S]
  <1> DEFINE bad == {s \in SUBSET S : a[s] # b[s]}
  <1> SUFFICES ASSUME bad # {} PROVE FALSE
    OBVIOUS
  <1>1. PICK s \in bad : \A t \in bad : t \subseteq s => t = s
    <2>1. bad \subseteq SUBSET S
      OBVIOUS
    <2> HIDE DEF bad
    <2> QED
      BY <2>1, MinimalSet
  <1>2. /\ a[s] = IF s = {} THEN 0 ELSE f[Pick(s)] + a[s \ {Pick(s)}]
        /\ b[s] = IF s = {} THEN 0 ELSE g[Pick(s)] + b[s \ {Pick(s)}]
    BY DEF Adds
  <1>3. s # {} /\ Pick(s) \in s
    BY <1>2, PickIn
  <1>4. a[s \ {Pick(s)}] = b[s \ {Pick(s)}]
    BY <1>1, <1>3
  <1> QED
    BY <1>2, <1>3, <1>4

\* The sum over nothing is 0; the sum over a finite set takes one member first.
LEMMA SumStep ==
    ASSUME NEW f, NEW S, IsFiniteSet(S)
    PROVE  SumFunctionOnSet(f, S) =
               IF S = {} THEN 0
               ELSE f[Pick(S)] + SumFunctionOnSet(f, S \ {Pick(S)})
  <1> DEFINE it == CHOOSE i : Adds(f, S, i)
             R == S \ {Pick(S)}
             jt == CHOOSE i : Adds(f, R, i)
  <1>1. IsFiniteSet(R) /\ R \subseteq S
    BY FS_RemoveElement
  <1>2. Adds(f, S, it) /\ Adds(f, R, jt)
    <2> HIDE DEF R
    <2> QED
      BY <1>1, AddsExists
  <1>3. SumFunctionOnSet(f, S) = it[S] /\ SumFunctionOnSet(f, R) = jt[R]
    BY SumUnfold
  <1> HIDE DEF it, jt
  <1>4. jt[R] = it[R]
    BY <1>1, <1>2, AddsAgree
  <1>5. it[S] = IF S = {} THEN 0 ELSE f[Pick(S)] + it[R]
    BY <1>2 DEF Adds
  <1> QED
    BY <1>3, <1>4, <1>5

\* Functions that agree on a set have the same sum over it.
LEMMA SumSame ==
    ASSUME NEW f, NEW g, NEW S, IsFiniteSet(S), \A x \in S : f[x] = g[x]
    PROVE  SumFunctionOnSet(f, S) = SumFunctionOnSet(g, S)
  <1> DEFINE a == CHOOSE i : Adds(f, S, i)
             b == CHOOSE i : Adds(g, S, i)
  <1>1. Adds(f, S, a) /\ Adds(g, S, b)
    BY AddsExists
  <1>2. SumFunctionOnSet(f, S) = a[S] /\ SumFunctionOnSet(g, S) = b[S]
    BY SumUnfold
  <1> HIDE DEF a, b
  <1> QED
    BY <1>1, <1>2, AddsAgree

\* A sum of numbers is a number.
LEMMA SumType ==
    ASSUME NEW f, NEW S, IsFiniteSet(S), \A x \in S : f[x] \in Int
    PROVE  /\ SumFunctionOnSet(f, S) \in Int
           /\ (\A x \in S : f[x] >= 0) => SumFunctionOnSet(f, S) >= 0
  <1> DEFINE good(s) == /\ SumFunctionOnSet(f, s) \in Int
                        /\ (\A x \in S : f[x] >= 0) => SumFunctionOnSet(f, s) >= 0
             bad == {s \in SUBSET S : ~good(s)}
  <1> SUFFICES ASSUME bad # {} PROVE FALSE
    OBVIOUS
  <1>1. PICK s \in bad : \A t \in bad : t \subseteq s => t = s
    <2>1. bad \subseteq SUBSET S
      OBVIOUS
    <2> HIDE DEF bad
    <2> QED
      BY <2>1, MinimalSet
  <1>2. IsFiniteSet(s)
    BY FS_Subset
  <1>3. SumFunctionOnSet(f, s) =
            IF s = {} THEN 0 ELSE f[Pick(s)] + SumFunctionOnSet(f, s \ {Pick(s)})
    BY <1>2, SumStep
  <1>4. s # {} /\ Pick(s) \in s
    BY <1>3, PickIn
  <1>5. good(s \ {Pick(s)})
    BY <1>1, <1>4
  <1>6. f[Pick(s)] \in Int
    BY <1>4
  <1>7. good(s)
    BY <1>3, <1>4, <1>5, <1>6
  <1> QED
    BY <1>7

\* The sum over a set is any one of its members and the sum over the others.
LEMMA SumMember ==
    ASSUME NEW f, NEW S, IsFiniteSet(S), \A x \in S : f[x] \in Int, NEW x \in S
    PROVE  SumFunctionOnSet(f, S) = f[x] + SumFunctionOnSet(f, S \ {x})
  <1> DEFINE good(s) == \A y \in s : SumFunctionOnSet(f, s) =
                                        f[y] + SumFunctionOnSet(f, s \ {y})
             bad == {s \in SUBSET S : ~good(s)}
  <1> SUFFICES ASSUME bad # {} PROVE FALSE
    OBVIOUS
  <1>1. PICK s \in bad : \A t \in bad : t \subseteq s => t = s
    <2>1. bad \subseteq SUBSET S
      OBVIOUS
    <2> HIDE DEF bad
    <2> QED
      BY <2>1, MinimalSet
  <1>2. PICK y \in s : SumFunctionOnSet(f, s) # f[y] + SumFunctionOnSet(f, s \ {y})
    OBVIOUS
  <1> DEFINE c == Pick(s)
             r == s \ {c}
             q == s \ {y}
             both == s \ {c, y}
  <1>3. IsFiniteSet(s) /\ IsFiniteSet(r) /\ IsFiniteSet(q) /\ IsFiniteSet(both)
    BY FS_Subset
  <1>4. c \in s /\ SumFunctionOnSet(f, s) = f[c] + SumFunctionOnSet(f, r)
    BY <1>3, SumStep, PickIn
  <1>5. c # y
    BY <1>2, <1>4
  <1>6. good(r) /\ good(q)
    BY <1>1, <1>4, <1>5
  <1>7. r \ {y} = both /\ q \ {c} = both
    OBVIOUS
  <1>8. /\ SumFunctionOnSet(f, r) = f[y] + SumFunctionOnSet(f, both)
        /\ SumFunctionOnSet(f, q) = f[c] + SumFunctionOnSet(f, both)
    <2>1. y \in r /\ c \in q
      BY <1>4, <1>5
    <2> HIDE DEF both, r, q
    <2> QED
      BY <1>6, <1>7, <2>1
  <1>9. SumFunctionOnSet(f, both) \in Int
    BY <1>3, SumType
  <1>10. f[c] \in Int /\ f[y] \in Int
    BY <1>4
  <1> HIDE DEF c, both, r, q
  <1> QED
    BY <1>2, <1>4, <1>8, <1>9, <1>10 DEF q

\* How a sum changes with one of its members.
LEMMA SumChange ==
    ASSUME NEW f, NEW g, NEW S, IsFiniteSet(S), NEW x \in S,
           \A y \in S : f[y] \in Int /\ g[y] \in Int,
           \A y \in S \ {x} : f[y] = g[y]
    PROVE  SumFunctionOnSet(g, S) = SumFunctionOnSet(f, S) - f[x] + g[x]
  <1> DEFINE R == S \ {x}
  <1>1. IsFiniteSet(R)
    BY FS_RemoveElement
  <1>2. /\ SumFunctionOnSet(f, S) = f[x] + SumFunctionOnSet(f, R)
        /\ SumFunctionOnSet(g, S) = g[x] + SumFunctionOnSet(g, R)
    BY SumMember
  <1>3. SumFunctionOnSet(f, R) = SumFunctionOnSet(g, R)
    BY <1>1, SumSame
  <1>4. SumFunctionOnSet(f, R) \in Int
    BY <1>1, SumType
  <1> HIDE DEF R
  <1> QED
    BY <1>2, <1>3, <1>4

\* A member is added to the set.
LEMMA SumAdd ==
    ASSUME NEW f, NEW S, IsFiniteSet(S), NEW x, x \notin S,
           f[x] \in Int, \A y \in S : f[y] \in Int
    PROVE  SumFunctionOnSet(f, S \cup {x}) = SumFunctionOnSet(f, S) + f[x]
  <1> DEFINE T == S \cup {x}
  <1>1. IsFiniteSet(T) /\ x \in T /\ T \ {x} = S /\ \A y \in T : f[y] \in Int
    BY FS_AddElement
  <1> HIDE DEF T
  <1>2. SumFunctionOnSet(f, T) = f[x] + SumFunctionOnSet(f, S)
    BY <1>1, SumMember
  <1>3. SumFunctionOnSet(f, S) \in Int
    BY SumType
  <1> QED
    BY <1>2, <1>3 DEF T

\* The sum of a function whose value at x grows by d.
LEMMA SumMoves ==
    ASSUME NEW S, IsFiniteSet(S), NEW f \in [S -> Int], NEW g \in [S -> Int],
           NEW x \in S, NEW d \in Int, g[x] = f[x] + d,
           \A y \in S : y # x => g[y] = f[y]
    PROVE  SumFunction(f) \in Int /\ SumFunction(g) = SumFunction(f) + d
  <1>1. /\ SumFunction(f) = SumFunctionOnSet(f, S) /\ SumFunction(g) = SumFunctionOnSet(g, S)
        /\ \A y \in S : f[y] \in Int /\ g[y] \in Int
    BY DEF SumFunction
  <1>2. SumFunctionOnSet(f, S) \in Int
    BY <1>1, SumType
  <1>3. SumFunctionOnSet(g, S) = SumFunctionOnSet(f, S) - f[x] + g[x]
    BY <1>1, SumChange
  <1>4. f[x] \in Int /\ g[x] \in Int
    BY <1>1
  <1> QED
    BY <1>1, <1>2, <1>3, <1>4

\* The sum of a function that is 0 everywhere.
LEMMA SumZero ==
    ASSUME NEW S, IsFiniteSet(S), NEW f, DOMAIN f = S, \A y \in S : f[y] = 0
    PROVE  SumFunction(f) = 0
  <1> DEFINE bad == {s \in SUBSET S : SumFunctionOnSet(f, s) # 0}
  <1>1. SumFunction(f) = SumFunctionOnSet(f, S)
    BY DEF SumFunction
  <1> SUFFICES ASSUME bad # {} PROVE FALSE
    BY <1>1
  <1>2. PICK s \in bad : \A t \in bad : t \subseteq s => t = s
    <2>1. bad \subseteq SUBSET S
      OBVIOUS
    <2> HIDE DEF bad
    <2> QED
      BY <2>1, MinimalSet
  <1>3. IsFiniteSet(s)
    BY FS_Subset
  <1>4. SumFunctionOnSet(f, s) =
            IF s = {} THEN 0 ELSE f[Pick(s)] + SumFunctionOnSet(f, s \ {Pick(s)})
    BY <1>3, SumStep
  <1>5. s # {} /\ Pick(s) \in s
    BY <1>4, PickIn, <1>2
  <1>6. SumFunctionOnSet(f, s \ {Pick(s)}) = 0
    BY <1>2, <1>5
  <1> QED
    BY <1>2, <1>4, <1>5, <1>6

\* Pointwise smaller numbers have a smaller sum.
LEMMA SumLeq ==
    ASSUME NEW S, IsFiniteSet(S), NEW f, NEW g, DOMAIN f = S, DOMAIN g = S,
           \A x \in S : f[x] \in Int /\ g[x] \in Int /\ f[x] <= g[x]
    PROVE  SumFunction(f) <= SumFunction(g)
  <1> DEFINE bad == {s \in SUBSET S : ~(SumFunctionOnSet(f, s) <= SumFunctionOnSet(g, s))}
  <1>1. SumFunction(f) = SumFunctionOnSet(f, S) /\ SumFunction(g) = SumFunctionOnSet(g, S)
    BY DEF SumFunction
  <1> SUFFICES ASSUME bad # {} PROVE FALSE
    BY <1>1
  <1>2. PICK s \in bad : \A t \in bad : t \subseteq s => t = s
    <2> DEFINE some == bad
    <2>1. some \subseteq SUBSET S /\ some # {}
      OBVIOUS
    <2> HIDE DEF some
    <2>2. \E s \in some : \A t \in some : t \subseteq s => t = s
      BY <2>1, MinimalSet
    <2> QED
      BY <2>2 DEF some
  <1>3. IsFiniteSet(s) /\ s \subseteq S /\ ~(SumFunctionOnSet(f, s) <= SumFunctionOnSet(g, s))
    BY <1>2, FS_Subset
  <1>4. CASE s = {}
    <2>1. SumFunctionOnSet(f, s) = 0 /\ SumFunctionOnSet(g, s) = 0
      BY <1>3, <1>4, SumStep
    <2> QED
      BY <1>3, <2>1
  <1>5. CASE s # {}
    <2>1. PICK x \in s : TRUE
      BY <1>5
    <2> DEFINE R == s \ {x}
    <2>2. R \subseteq S /\ R \notin bad /\ IsFiniteSet(R)
      BY <1>2, <1>3, <2>1, FS_Subset
    <2>3. SumFunctionOnSet(f, R) <= SumFunctionOnSet(g, R)
      BY <2>2
    <2>4. SumFunctionOnSet(f, s) = f[x] + SumFunctionOnSet(f, R)
      BY <1>3, <2>1, SumMember
    <2>5. SumFunctionOnSet(g, s) = g[x] + SumFunctionOnSet(g, R)
      BY <1>3, <2>1, SumMember
    <2>6. SumFunctionOnSet(f, R) \in Int /\ SumFunctionOnSet(g, R) \in Int
      BY <2>2, SumType
    <2>7. f[x] \in Int /\ g[x] \in Int /\ f[x] <= g[x]
      BY <1>3, <2>1
    <2> HIDE DEF R
    <2> QED
      BY <1>3, <2>3, <2>4, <2>5, <2>6, <2>7
  <1> QED
    BY <1>4, <1>5

\* A finite set of numbers with a member has a greatest one.
LEMMA GreatestMember ==
    ASSUME NEW S, IsFiniteSet(S), S \subseteq Nat, S # {}
    PROVE  \E x \in S : \A y \in S : x >= y
  <1> DEFINE bad == {t \in SUBSET S : t # {} /\ ~\E x \in t : \A y \in t : x >= y}
  <1>1. bad = {}
    <2> SUFFICES ASSUME bad # {} PROVE FALSE
      OBVIOUS
    <2>1. PICK t \in bad : \A u \in bad : u \subseteq t => u = t
      <3> DEFINE some == bad
      <3>1. some \subseteq SUBSET S /\ some # {}
        OBVIOUS
      <3> HIDE DEF some
      <3>2. IsFiniteSet(S)
        OBVIOUS
      <3>3. \E t \in some : \A u \in some : u \subseteq t => u = t
        BY ONLY <3>1, <3>2, MinimalSet
      <3> QED
        BY <3>3 DEF some
    <2>2. PICK x \in t : TRUE
      OBVIOUS
    <2>3. t \ {x} \notin bad /\ t \ {x} \subseteq S
      BY <2>1, <2>2
    <2>4. CASE t \ {x} = {}
      BY <2>1, <2>4
    <2>5. CASE t \ {x} # {}
      <3>1. PICK z \in t \ {x} : \A y \in t \ {x} : z >= y
        BY <2>3, <2>5
      <3>2. x \in Nat /\ z \in Nat /\ t \subseteq Nat
        BY <2>1, <2>2, <3>1
      <3>3. CASE z >= x
        BY <3>1, <3>2, <3>3
      <3>4. CASE ~(z >= x)
        <4>1. \A y \in t : x >= y
          BY <3>1, <3>2, <3>4
        <4> QED
          BY <2>2, <4>1
      <3> QED
        BY <3>3, <3>4
    <2> QED
      BY <2>4, <2>5
  <1> QED
    BY <1>1

LEMMA MaxIn ==
    ASSUME NEW s, IsFiniteSet(s), s \subseteq Nat, s # {}
    PROVE  Max(s) \in s /\ \A y \in s : Max(s) >= y
<1>1. \E x \in s : \A y \in s : x >= y
  BY GreatestMember
<1>. QED
  BY <1>1 DEF Max

\* A function that is the sum of two has the sum of their sums.
LEMMA SumSplit ==
    ASSUME NEW S, IsFiniteSet(S), NEW f, NEW g, NEW h, DOMAIN f = S, DOMAIN g = S, DOMAIN h = S,
           \A x \in S : g[x] \in Int /\ h[x] \in Int /\ f[x] = g[x] + h[x]
    PROVE  /\ SumFunction(f) = SumFunction(g) + SumFunction(h)
           /\ SumFunction(g) \in Int /\ SumFunction(h) \in Int
  <1> DEFINE bad == {s \in SUBSET S : SumFunctionOnSet(f, s) #
                                      SumFunctionOnSet(g, s) + SumFunctionOnSet(h, s)}
  <1>1. /\ SumFunction(f) = SumFunctionOnSet(f, S) /\ SumFunction(g) = SumFunctionOnSet(g, S)
        /\ SumFunction(h) = SumFunctionOnSet(h, S)
    BY DEF SumFunction
  <1>2. SumFunctionOnSet(g, S) \in Int /\ SumFunctionOnSet(h, S) \in Int
    BY SumType
  <1> SUFFICES ASSUME bad # {} PROVE FALSE
    BY <1>1, <1>2
  <1>3. PICK s \in bad : \A t \in bad : t \subseteq s => t = s
    <2> DEFINE some == bad
    <2>1. some \subseteq SUBSET S /\ some # {}
      OBVIOUS
    <2> HIDE DEF some
    <2>2. \E s \in some : \A t \in some : t \subseteq s => t = s
      BY <2>1, MinimalSet
    <2> QED
      BY <2>2 DEF some
  <1>4. /\ IsFiniteSet(s) /\ s \subseteq S
        /\ SumFunctionOnSet(f, s) # SumFunctionOnSet(g, s) + SumFunctionOnSet(h, s)
    BY <1>3, FS_Subset
  <1>5. CASE s = {}
    <2>1. SumFunctionOnSet(f, s) = 0 /\ SumFunctionOnSet(g, s) = 0 /\ SumFunctionOnSet(h, s) = 0
      BY <1>4, <1>5, SumStep
    <2> QED
      BY <1>4, <2>1
  <1>6. CASE s # {}
    <2>1. PICK x \in s : TRUE
      BY <1>6
    <2> DEFINE R == s \ {x}
    <2>2. R \subseteq S /\ R \notin bad /\ IsFiniteSet(R)
      BY <1>3, <1>4, <2>1, FS_Subset
    <2>3. SumFunctionOnSet(f, R) = SumFunctionOnSet(g, R) + SumFunctionOnSet(h, R)
      BY <2>2
    <2>4. \A y \in s : f[y] \in Int /\ g[y] \in Int /\ h[y] \in Int
      BY <1>4
    <2>5. SumFunctionOnSet(f, s) = f[x] + SumFunctionOnSet(f, R)
      BY <1>4, <2>1, <2>4, SumMember
    <2>6. SumFunctionOnSet(g, s) = g[x] + SumFunctionOnSet(g, R)
      BY <1>4, <2>1, <2>4, SumMember
    <2>7. SumFunctionOnSet(h, s) = h[x] + SumFunctionOnSet(h, R)
      BY <1>4, <2>1, <2>4, SumMember
    <2>8. SumFunctionOnSet(g, R) \in Int /\ SumFunctionOnSet(h, R) \in Int
      BY <2>2, SumType
    <2>9. g[x] \in Int /\ h[x] \in Int /\ f[x] = g[x] + h[x]
      BY <1>4, <2>1
    <2> HIDE DEF R
    <2> QED
      BY <1>4, <2>3, <2>5, <2>6, <2>7, <2>8, <2>9
  <1> QED
    BY <1>5, <1>6
=============================================================================
