--------------------------- MODULE ClosestProofs ---------------------------
(***************************************************************************)
(* What the operators of Closest return, for every finite set of naturals. *)
(* The library states induction with an operator parameter, which no       *)
(* installed prover can instantiate; an induction is done here by taking   *)
(* the smallest counterexample (LeastElement).                             *)
(***************************************************************************)
EXTENDS Closest, FiniteSetTheorems, WellFoundedInduction, TLAPS

\* A non-empty set of naturals has a least element: the initial segments of
\* S are finite and strict inclusion is well-founded on them.
LEMMA LeastElement ==
  ASSUME NEW S \in SUBSET Nat, S # {}
  PROVE  \E x \in S : \A y \in S : x <= y
<1>. DEFINE Segs == {Before(S, x) : x \in S}
<1>1. \A x \in S : Before(S, x) \in SUBSET Nat /\ \A y \in Before(S, x) : y <= x
  <2>. SUFFICES ASSUME NEW x \in S
                PROVE  Before(S, x) \in SUBSET Nat /\ \A y \in Before(S, x) : y <= x
    OBVIOUS
  <2>1. \A y \in Before(S, x) : y \in Nat /\ y <= x  BY DEF Before
  <2>. QED  BY <2>1
<1>2. Segs \subseteq FiniteSubsetsOf(S)
  <2>. SUFFICES ASSUME NEW x \in S
                PROVE  Before(S, x) \in SUBSET S /\ IsFiniteSet(Before(S, x))
    BY DEF FiniteSubsetsOf
  <2>1. Before(S, x) \in SUBSET S  BY DEF Before
  <2>. QED  BY <1>1, <2>1, FS_BoundedSetOfNaturals
<1>3. Segs # {}
  OBVIOUS
<1>4. PICK t \in Segs : \A u \in Segs : <<u, t>> \notin StrictSubsetOrdering(S)
  <2>. HIDE DEF Segs
  <2>. QED  BY <1>2, <1>3, FS_StrictSubsetOrderingWellFounded, WFMin
<1>5. PICK x \in S : t = Before(S, x)
  OBVIOUS
<1>6. ASSUME NEW y \in S, y < x  PROVE FALSE
  <2>1. Before(S, y) \in SUBSET Before(S, x)
    <3>1. \A z \in S : z < y => z < x  BY <1>6
    <3>. QED  BY <3>1 DEF Before
  <2>2. y \in Before(S, x) /\ y \notin Before(S, y)  BY <1>6 DEF Before
  <2>3. Before(S, x) \in SUBSET S  BY DEF Before
  <2>4. <<Before(S, y), Before(S, x)>> \in StrictSubsetOrdering(S)
    BY <2>1, <2>2, <2>3 DEF StrictSubsetOrdering
  <2>. QED  BY <2>4, <1>4, <1>5
<1>. QED  BY <1>6

\* A non-empty finite set of naturals has a greatest element.
LEMMA FarthestExists ==
  ASSUME NEW S \in SUBSET Nat, IsFiniteSet(S), S # {}
  PROVE  /\ Farthest(S) \in S
         /\ \A y \in S : y <= Farthest(S)
<1>. DEFINE Above(x) == {y \in S : y > x}
            Counts   == {n \in Nat : \E x \in S : n = Cardinality(Above(x))}
<1>1. \A x \in S : IsFiniteSet(Above(x)) /\ Cardinality(Above(x)) \in Nat
  <2>. TAKE x \in S
  <2>1. Above(x) \in SUBSET S  OBVIOUS
  <2>. QED  BY <2>1, FS_Subset, FS_CardinalityType
<1>2. PICK n \in Counts : \A m \in Counts : n <= m
  <2>1. Counts # {}  BY <1>1
  <2>2. Counts \in SUBSET Nat  OBVIOUS
  <2>. HIDE DEF Counts
  <2>. QED  BY <2>1, <2>2, LeastElement
<1>3. PICK x \in S : n = Cardinality(Above(x))
  OBVIOUS
<1>4. \A y \in S : y <= x
  <2>1. SUFFICES ASSUME NEW y \in S, y > x  PROVE FALSE
    OBVIOUS
  <2>2. Above(y) \in SUBSET Above(x)
    <3>1. \A z \in Nat : z > y => z > x  BY <2>1
    <3>. QED  BY <3>1
  <2>3. y \in Above(x) /\ y \notin Above(y)
    BY <2>1
  <2>4. Cardinality(Above(y)) # Cardinality(Above(x))
    BY <2>2, <2>3, <1>1, FS_Subset
  <2>5. Cardinality(Above(y)) <= Cardinality(Above(x))
    BY <2>2, <1>1, FS_Subset
  <2>6. n <= Cardinality(Above(y))
    BY <1>1, <1>2
  <2>. QED  BY <2>4, <2>5, <2>6, <1>1, <1>3
<1>. QED  BY <1>4 DEF Farthest

\* Before(S, x) is a finite set that excludes x and is monotonic.
LEMMA BeforeFinite ==
  ASSUME NEW S \in SUBSET Nat, IsFiniteSet(S), NEW x \in Nat
  PROVE  /\ Before(S, x) \in SUBSET S
         /\ IsFiniteSet(Before(S, x))
         /\ Cardinality(Before(S, x)) \in Nat
<1>1. Before(S, x) \in SUBSET S  BY DEF Before
<1>. QED  BY <1>1, FS_Subset, FS_CardinalityType

\* More elements, or a later one, leave at least as many before it.
LEMMA BeforeMonotonic ==
  ASSUME NEW S \in SUBSET Nat, IsFiniteSet(S), NEW T \in SUBSET S,
         NEW x \in Nat, NEW y \in Nat, x <= y
  PROVE  /\ Before(T, x) \in SUBSET Before(S, y)
         /\ Cardinality(Before(T, x)) <= Cardinality(Before(S, y))
<1>1. ASSUME NEW z \in Before(T, x)  PROVE z \in Before(S, y)
  <2>1. z \in T /\ z \in S /\ z \in Nat /\ z < x  BY DEF Before
  <2>2. z < y  BY <2>1
  <2>. QED  BY <2>1, <2>2 DEF Before
<1>2. Before(T, x) \in SUBSET Before(S, y)  BY <1>1
<1>. QED  BY <1>2, BeforeFinite, FS_Subset

\* The closest c elements are a finite part of S, closed downwards.
LEMMA ClosestBasics ==
  ASSUME NEW S \in SUBSET Nat, IsFiniteSet(S), NEW c \in Nat
  PROVE  /\ ClosestIn(S, c) \in SUBSET S
         /\ IsFiniteSet(ClosestIn(S, c))
         /\ Cardinality(ClosestIn(S, c)) \in Nat
         /\ \A x \in ClosestIn(S, c), y \in S : y <= x => y \in ClosestIn(S, c)
         /\ \A x \in ClosestIn(S, c), y \in S \ ClosestIn(S, c) : x < y
<1>1. ClosestIn(S, c) \in SUBSET S  BY DEF ClosestIn
<1>2. \A x \in ClosestIn(S, c), y \in S : y <= x => y \in ClosestIn(S, c)
  <2>. SUFFICES ASSUME NEW x \in ClosestIn(S, c), NEW y \in S, y <= x
                PROVE  Cardinality(Before(S, y)) < c
    BY DEF ClosestIn
  <2>1. x \in S /\ Cardinality(Before(S, x)) < c  BY DEF ClosestIn
  <2>2. Cardinality(Before(S, y)) <= Cardinality(Before(S, x))
    BY <2>1, BeforeMonotonic
  <2>. QED  BY <2>1, <2>2, BeforeFinite
<1>3. \A x \in ClosestIn(S, c), y \in S \ ClosestIn(S, c) : x < y
  <2>. TAKE x \in ClosestIn(S, c), y \in S \ ClosestIn(S, c)
  <2>1. x \in Nat /\ y \in Nat /\ ~ (y <= x)  BY <1>1, <1>2
  <2>. QED  BY <2>1
<1>. QED  BY <1>1, <1>2, <1>3, FS_Subset, FS_CardinalityType

\* S has c closest elements, or it has fewer than c elements and they are all.
LEMMA ClosestCardinality ==
  ASSUME NEW S \in SUBSET Nat, IsFiniteSet(S), NEW c \in Nat
  PROVE  /\ Cardinality(ClosestIn(S, c)) <= c
         /\ ClosestIn(S, c) # S => Cardinality(ClosestIn(S, c)) = c
<1>. DEFINE Holds(n) == /\ Cardinality(ClosestIn(S, n)) <= n
                        /\ ClosestIn(S, n) # S => Cardinality(ClosestIn(S, n)) = n
            Bad      == {n \in Nat : ~ Holds(n)}
<1>1. Holds(0)
  <2>1. \A x \in S : Cardinality(Before(S, x)) \in Nat  BY BeforeFinite
  <2>2. ASSUME NEW x \in ClosestIn(S, 0)  PROVE FALSE
    <3>1. x \in S /\ Cardinality(Before(S, x)) < 0  BY DEF ClosestIn
    <3>. QED  BY <3>1, <2>1
  <2>3. ClosestIn(S, 0) = {}  BY <2>2
  <2>. QED  BY <2>3, FS_EmptySet
<1>2. ASSUME NEW n \in Nat, Holds(n)  PROVE Holds(n + 1)
  <2>. DEFINE C == ClosestIn(S, n)
              D == ClosestIn(S, n + 1)
  <2>1. C \in SUBSET S /\ IsFiniteSet(C) /\ Cardinality(C) \in Nat
    BY ClosestBasics
  <2>2. \A x \in S : Cardinality(Before(S, x)) \in Nat  BY BeforeFinite
  <2>3. C \subseteq D
    <3>. SUFFICES ASSUME NEW x \in C  PROVE x \in D
      OBVIOUS
    <3>1. x \in S /\ Cardinality(Before(S, x)) < n  BY DEF ClosestIn
    <3>2. Cardinality(Before(S, x)) < n + 1  BY <3>1, <2>2
    <3>. QED  BY <3>1, <3>2 DEF ClosestIn
  <2>4. CASE C = S
    <3>1. D \in SUBSET S  BY ClosestBasics, n + 1 \in Nat
    <3>2. D = S  BY <2>3, <2>4, <3>1
    <3>. QED  BY <3>2, <2>4, <1>2, <2>1
  <2>5. CASE C # S
    <3>1. Cardinality(C) = n  BY <1>2, <2>5
    <3>2. PICK x \in S \ C : \A y \in S \ C : x <= y
      <4>1. S \ C # {} /\ S \ C \in SUBSET Nat  BY <2>1, <2>5
      <4>. QED  BY <4>1, LeastElement
    <3>3. \A y \in C : y < x  BY ClosestBasics
    <3>4. Before(S, x) = C
      <4>1. \A y \in S : y < x => y \in C
        <5>. SUFFICES ASSUME NEW y \in S, y < x, y \notin C  PROVE FALSE
          OBVIOUS
        <5>1. x <= y  BY <3>2
        <5>. QED  BY <5>1
      <4>. QED  BY <4>1, <3>3, <2>1 DEF Before
    <3>5. x \in D
      BY <3>1, <3>4 DEF ClosestIn
    <3>6. ASSUME NEW y \in D  PROVE y \in C \cup {x}
      <4>. SUFFICES ASSUME y \notin C, y # x  PROVE FALSE
        OBVIOUS
      <4>1. y \in S /\ Cardinality(Before(S, y)) < n + 1  BY DEF ClosestIn
      <4>2. x < y  BY <4>1, <3>2
      <4>3. \A z \in C : z < y
        BY <4>1, <4>2, <3>3, <2>1
      <4>4. C \cup {x} \in SUBSET Before(S, y)
        BY <4>2, <4>3, <2>1, <3>2 DEF Before
      <4>5. Cardinality(C \cup {x}) = n + 1
        <5>. HIDE DEF C
        <5>. QED  BY <2>1, <3>1, <3>2, FS_AddElement
      <4>6. Cardinality(C \cup {x}) <= Cardinality(Before(S, y))
        BY <4>1, <4>4, BeforeFinite, FS_Subset
      <4>. QED  BY <4>1, <4>5, <4>6, <2>2
    <3>7. D = C \cup {x}  BY <3>5, <3>6, <2>3
    <3>8. Cardinality(D) = n + 1
      BY <3>7, <2>1, <3>1, <3>2, FS_AddElement
    <3>. QED  BY <3>8
  <2>. QED  BY <2>4, <2>5
<1>3. Bad = {}
  <2>. SUFFICES ASSUME Bad # {}  PROVE FALSE
    OBVIOUS
  <2>1. PICK n \in Bad : \A m \in Bad : n <= m
    <3>1. Bad \in SUBSET Nat  OBVIOUS
    <3>. HIDE DEF Bad
    <3>. QED  BY <3>1, LeastElement
  <2>2. n \in Nat /\ n # 0  BY <1>1
  <2>. HIDE DEF Holds
  <2>3. n - 1 \in Nat /\ n - 1 \notin Bad  BY <2>1, <2>2
  <2>4. Holds(n - 1)  BY <2>3
  <2>5. Holds((n - 1) + 1)  BY <2>3, <2>4, <1>2
  <2>. QED  BY <2>5, <2>1, <2>2
<1>. QED  BY <1>3

\* Keeping only the c closest of S before T arrives loses nothing.
LEMMA ClosestUnion ==
  ASSUME NEW S \in SUBSET Nat, IsFiniteSet(S), NEW T \in SUBSET Nat, IsFiniteSet(T),
         NEW c \in Nat
  PROVE  ClosestIn(ClosestIn(S, c) \cup T, c) = ClosestIn(S \cup T, c)
<1>. DEFINE C == ClosestIn(S, c)
            U == C \cup T
            V == S \cup T
<1>1. /\ C \in SUBSET S /\ IsFiniteSet(C) /\ Cardinality(C) \in Nat
      /\ \A x \in C, y \in S \ C : x < y
  BY ClosestBasics
<1>2. V \in SUBSET Nat /\ IsFiniteSet(V) /\ U \in SUBSET V
  BY <1>1, FS_Union
<1>2a. IsFiniteSet(U)  BY <1>2, FS_Subset
<1>3. ASSUME NEW x \in ClosestIn(V, c)  PROVE x \in ClosestIn(U, c)
  <2>1. x \in V /\ x \in Nat /\ Cardinality(Before(V, x)) < c
    BY <1>2 DEF ClosestIn
  <2>2. Cardinality(Before(U, x)) <= Cardinality(Before(V, x))
    BY <1>2, <2>1, BeforeMonotonic
  <2>3. x \in U
    <3>. SUFFICES ASSUME x \in S  PROVE x \in C
      BY <2>1
    <3>1. Cardinality(Before(S, x)) <= Cardinality(Before(V, x))
      BY <1>2, <2>1, BeforeMonotonic
    <3>. QED  BY <3>1, <2>1, <1>2, BeforeFinite DEF ClosestIn
  <2>. QED  BY <2>1, <2>2, <2>3, <1>2, <1>2a, BeforeFinite DEF ClosestIn
<1>4. ASSUME NEW x \in ClosestIn(U, c)  PROVE x \in ClosestIn(V, c)
  <2>1. x \in U /\ x \in V /\ x \in Nat /\ Cardinality(Before(U, x)) < c
    BY <1>2 DEF ClosestIn
  <2>2. CASE \E y \in S \ C : y < x
    <3>1. PICK y \in S \ C : y < x  BY <2>2
    <3>2. Cardinality(C) = c  BY <3>1, ClosestCardinality
    <3>3. ASSUME NEW z \in C  PROVE z \in Before(U, x)
      <4>1. z \in Nat /\ y \in Nat /\ z < y  BY <1>1, <3>1
      <4>. QED  BY <4>1, <3>1, <2>1 DEF Before
    <3>4. C \in SUBSET Before(U, x)  BY <3>3
    <3>5. Cardinality(C) <= Cardinality(Before(U, x))
      BY <3>4, <1>2, <1>2a, <2>1, BeforeFinite, FS_Subset
    <3>. QED  BY <3>2, <3>5, <2>1, <1>2, <1>2a, BeforeFinite
  <2>3. CASE ~ \E y \in S \ C : y < x
    <3>1. Before(V, x) = Before(U, x)
      BY <2>3, <1>1 DEF Before
    <3>. QED  BY <3>1, <2>1 DEF ClosestIn
  <2>. QED  BY <2>2, <2>3
<1>. QED  BY <1>3, <1>4

\* A node dropped from the closest c never comes back.
LEMMA ClosestAntitone ==
  ASSUME NEW S \in SUBSET Nat, IsFiniteSet(S), NEW T \in SUBSET S, NEW c \in Nat,
         NEW x \in T, x \in ClosestIn(S, c)
  PROVE  x \in ClosestIn(T, c)
<1>1. Cardinality(Before(S, x)) < c  BY DEF ClosestIn
<1>2. Cardinality(Before(T, x)) <= Cardinality(Before(S, x))
  BY BeforeMonotonic
<1>3. IsFiniteSet(T)  BY FS_Subset
<1>. QED  BY <1>1, <1>2, <1>3, BeforeFinite DEF ClosestIn

\* A set of at most c elements is its own c closest.
LEMMA ClosestOfSmall ==
  ASSUME NEW S \in SUBSET Nat, IsFiniteSet(S), NEW c \in Nat, Cardinality(S) <= c
  PROVE  ClosestIn(S, c) = S
<1>. SUFFICES ASSUME ClosestIn(S, c) # S  PROVE FALSE
  OBVIOUS
<1>1. Cardinality(ClosestIn(S, c)) = c /\ ClosestIn(S, c) \in SUBSET S
  BY ClosestCardinality, ClosestBasics
<1>. QED  BY <1>1, FS_Subset, FS_CardinalityType

\* Inserting into a full list and dropping its last node keeps the c closest.
LEMMA InsertIsClosest ==
  ASSUME NEW S \in SUBSET Nat, IsFiniteSet(S), NEW c \in Nat \ {0},
         Cardinality(S) = c, NEW n \in Nat \ S
  PROVE  /\ n < Farthest(S) => ClosestIn(S \cup {n}, c) = (S \cup {n}) \ {Farthest(S)}
         /\ ~ (n < Farthest(S)) => ClosestIn(S \cup {n}, c) = S
<1>. DEFINE T == S \cup {n}
            C == ClosestIn(T, c)
            f == Farthest(S)
<1>1. S # {}  BY FS_EmptySet
<1>2. f \in S /\ \A y \in S : y <= f  BY <1>1, FarthestExists
<1>3. T \in SUBSET Nat /\ IsFiniteSet(T) /\ Cardinality(T) = c + 1
  BY FS_AddElement
<1>. HIDE DEF f
<1>4. /\ C \in SUBSET T /\ IsFiniteSet(C) /\ Cardinality(C) = c
      /\ \A x \in C, y \in T : y <= x => y \in C
  <2>1. Cardinality(C) <= c  BY <1>3, ClosestCardinality
  <2>2. C # T  BY <2>1, <1>3
  <2>. QED  BY <1>3, <2>2, ClosestCardinality, ClosestBasics
<1>5. \A x \in T : C \subseteq T \ {x} => C = T \ {x}
  <2>. TAKE x \in T
  <2>1. IsFiniteSet(T \ {x}) /\ Cardinality(T \ {x}) = c
    BY <1>3, FS_RemoveElement
  <2>. QED  BY <2>1, <1>4, FS_Subset
<1>6. \A g \in T : (\A y \in T : y <= g) => C = T \ {g}
  <2>. SUFFICES ASSUME NEW g \in T, \A y \in T : y <= g, g \in C  PROVE FALSE
    BY <1>5, <1>4
  <2>1. C = T  BY <1>4
  <2>. HIDE DEF C, T
  <2>. QED  BY <2>1, <1>3, <1>4
<1>7. CASE n < f
  <2>1. \A y \in T : y <= f  BY <1>2, <1>7
  <2>. QED  BY <2>1, <1>2, <1>6, <1>7 DEF f
<1>8. CASE ~ (n < f)
  <2>1. \A y \in S : y <= n  BY <1>2, <1>8
  <2>2. C = T \ {n}  BY <2>1, <1>6
  <2>. QED  BY <2>2, <1>8 DEF f
<1>. QED  BY <1>7, <1>8
=============================================================================
