------------------------------ MODULE Folding ------------------------------
(***************************************************************************)
(* Induction over data, stated with sets and functions in place of the     *)
(* operators that the library's induction theorems take: induction over    *)
(* the naturals, and that a fold of the community modules, which is a      *)
(* function on the subsets of what is folded, is what its equation says.   *)
(***************************************************************************)
EXTENDS FiniteSetsExt, SequencesExt, FiniteSetTheorems, WellFoundedInduction, TLAPS

(* A set that has 0, and n + 1 whenever it has n, has every number.        *)
LEMMA NatSets ==
    ASSUME NEW S, 0 \in S, \A n \in Nat : n \in S => n + 1 \in S
    PROVE  Nat \subseteq S
<1> DEFINE T == Nat \ S
           R == OpToRel(<, Nat)
<1>1. SUFFICES ASSUME T # {} PROVE FALSE
    OBVIOUS
<1>2. PICK x \in T : \A y \in T : ~ (<<y, x>> \in R)
    BY <1>1, WFMin, NatLessThanWellFounded, Zenon
<1>3. x \in Nat /\ x # 0
    OBVIOUS
<1>4. x - 1 \in Nat /\ x - 1 < x
    BY <1>3
<1>5. <<x - 1, x>> \in R
    BY <1>3, <1>4 DEF OpToRel
<1>6. x - 1 \notin T
    BY <1>2, <1>5
<1> QED
    BY <1>3, <1>4, <1>6

(* The same up to a bound.                                                 *)
LEMMA RangeSets ==
    ASSUME NEW S, NEW m \in Nat, 0 \in S, \A n \in 1..m : n - 1 \in S => n \in S
    PROVE  0..m \subseteq S
<1> DEFINE T == {n \in Nat : n <= m => n \in S}
<1>1. 0 \in T
    OBVIOUS
<1>2. ASSUME NEW n \in Nat, n \in T PROVE n + 1 \in T
  <2>1. CASE n + 1 <= m
    <3>1. n + 1 \in 1..m /\ (n + 1) - 1 = n /\ n \in S
        BY <1>2, <2>1
    <3> QED
        BY <3>1
  <2>2. CASE ~ (n + 1 <= m)
    BY <2>2
  <2> QED
    BY <2>1, <2>2
<1>3. Nat \subseteq T
  <2> HIDE DEF T
  <2> QED
    BY <1>1, <1>2, NatSets
<1> QED
    BY <1>3

(* A fold that takes up pick[s] first of a set s, and goes from a to       *)
(* step[x][a] with the element x, exists.                                  *)
FoldsBy(g, D, base, pick, step) ==
    g = [s \in SUBSET D |-> IF s = {} THEN base ELSE step[pick[s]][g[s \ {pick[s]}]]]

FoldsUpTo(g, k, D, A, base, pick, step) ==
    /\ g \in [SUBSET D -> A]
    /\ \A s \in SUBSET D : Cardinality(s) <= k =>
          g[s] = IF s = {} THEN base ELSE step[pick[s]][g[s \ {pick[s]}]]

LEMMA FoldExists ==
    ASSUME NEW D, IsFiniteSet(D), NEW A, NEW base \in A,
           NEW pick, \A s \in SUBSET D : s # {} => pick[s] \in s,
           NEW step, \A x \in D, a \in A : step[x][a] \in A
    PROVE  \E g \in [SUBSET D -> A] : FoldsBy(g, D, base, pick, step)
<1> DEFINE T == {k \in Nat : \E g : FoldsUpTo(g, k, D, A, base, pick, step)}
<1>1. \A s \in SUBSET D : IsFiniteSet(s) /\ Cardinality(s) \in Nat /\ (Cardinality(s) = 0 <=> s = {})
    BY FS_Subset, FS_CardinalityType, FS_EmptySet
<1>2. 0 \in T
  <2> DEFINE g0 == [s \in SUBSET D |-> base]
  <2>1. FoldsUpTo(g0, 0, D, A, base, pick, step)
      BY <1>1 DEF FoldsUpTo
  <2> QED
      BY <2>1
<1>3. ASSUME NEW k \in Nat, k \in T PROVE k + 1 \in T
  <2>1. PICK g : FoldsUpTo(g, k, D, A, base, pick, step)
      BY <1>3
  <2> DEFINE Ext(s) == IF s = {} THEN base ELSE step[pick[s]][g[s \ {pick[s]}]]
             h == [s \in SUBSET D |-> Ext(s)]
  <2>2. \A s \in SUBSET D : Ext(s) \in A
      BY <2>1 DEF FoldsUpTo
  <2>3. h \in [SUBSET D -> A]
      BY <2>2
  <2>4. \A s \in SUBSET D : Cardinality(s) <= k => g[s] = h[s]
      BY <2>1 DEF FoldsUpTo
  <2>5. ASSUME NEW s \in SUBSET D, s # {}, Cardinality(s) <= k + 1
        PROVE  h[s] = step[pick[s]][h[s \ {pick[s]}]]
    <3>1. Cardinality(s \ {pick[s]}) = Cardinality(s) - 1
        BY <1>1, <2>5, FS_RemoveElement
    <3>2. g[s \ {pick[s]}] = h[s \ {pick[s]}]
      <4>1. s \ {pick[s]} \in SUBSET D /\ Cardinality(s \ {pick[s]}) <= k
          BY <1>1, <2>5, <3>1
      <4> QED
          BY <4>1, <2>4
    <3>3. h[s] = step[pick[s]][g[s \ {pick[s]}]]
        BY <2>5
    <3> QED
        BY <3>2, <3>3
  <2>6. h[{}] = base
      OBVIOUS
  <2>7. FoldsUpTo(h, k + 1, D, A, base, pick, step)
    <3> HIDE DEF h
    <3> QED
      BY <2>3, <2>5, <2>6 DEF FoldsUpTo
  <2> QED
      BY <2>7
<1>4. Nat \subseteq T
  <2> HIDE DEF T
  <2> QED
      BY <1>2, <1>3, NatSets
<1>5. Cardinality(D) \in Nat /\ \A s \in SUBSET D : Cardinality(s) <= Cardinality(D)
    BY FS_CardinalityType, FS_Subset
<1>6. PICK g : FoldsUpTo(g, Cardinality(D), D, A, base, pick, step)
    BY <1>4, <1>5
<1>7. g = [s \in SUBSET D |-> g[s]]
    BY <1>6 DEF FoldsUpTo
<1>8. FoldsBy(g, D, base, pick, step)
    BY <1>5, <1>6, <1>7 DEF FoldsUpTo, FoldsBy
<1> QED
    BY <1>6, <1>8 DEF FoldsUpTo

(* The greatest of the first i numbers is i.                               *)
LEMMA MaxOfFirst ==
    ASSUME NEW i \in Nat \ {0}
    PROVE  Max(1..i) = i /\ (1..i) \ {i} = 1..(i - 1)
BY DEF Max

LEMMA MaxIsElement ==
    ASSUME NEW n \in Nat, NEW s \in SUBSET (1..n), s # {}
    PROVE  Max(s) \in s
<1>1. \E x \in s : \A y \in s : x >= y
  <2> DEFINE T == {n - x : x \in s}
             R == OpToRel(<, Nat)
  <2>1. T # {} /\ T \subseteq Nat
    <3>1. PICK x \in s : TRUE
        OBVIOUS
    <3>2. n - x \in T
        OBVIOUS
    <3> QED
        BY <3>2
  <2>2. PICK d \in T : \A y \in T : ~ (<<y, d>> \in R)
      BY <2>1, WFMin, NatLessThanWellFounded, Zenon
  <2>3. PICK x \in s : d = n - x
      OBVIOUS
  <2>4. ASSUME NEW y \in s PROVE x >= y
    <3>1. n - y \in T /\ n - y \in Nat /\ d \in Nat
        BY <2>1
    <3>2. ~ (n - y < d)
        BY <2>2, <3>1 DEF OpToRel
    <3> QED
        BY <2>3, <3>1, <3>2
  <2> QED
      BY <2>4
<1> QED
    BY <1>1 DEF Max

(* A fold over a sequence of n elements, from left to right: the last of   *)
(* those that are left is taken up last.                                   *)
LastOf(n) == [s \in SUBSET (1..n) |-> Max(s)]

LEMMA LeftFoldExists ==
    ASSUME NEW n \in Nat, NEW A, NEW base \in A,
           NEW step, \A i \in 1..n, a \in A : step[i][a] \in A
    PROVE  \E g \in [SUBSET (1..n) -> A] : FoldsBy(g, 1..n, base, LastOf(n), step)
<1>1. IsFiniteSet(1..n)
  <2>1. 1 \in Int /\ n \in Int
      OBVIOUS
  <2> QED
      BY <2>1, FS_Interval
<1>2. \A s \in SUBSET (1..n) : s # {} => LastOf(n)[s] \in s
    BY MaxIsElement DEF LastOf
<1> QED
    BY <1>1, <1>2, FoldExists
=============================================================================
