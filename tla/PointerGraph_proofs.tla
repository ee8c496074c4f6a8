------------------------- MODULE PointerGraph_proofs -------------------------
(***************************************************************************)
(* Proofs about graphs of objects that count the pointers to them, of any  *)
(* finite size: what is reached is the least set closed under pointers,    *)
(* and when a node goes, the counts free what only it could reach.         *)
(***************************************************************************)
EXTENDS PointerGraph, FiniteSetTheorems, TLAPS

(* Both recursive functions of PointerGraph grow a set by a monotone step  *)
(* until that adds nothing.                                                *)

Monotone(X, step) == /\ step \in [SUBSET X -> SUBSET X]
                     /\ \A A, B \in SUBSET X : A \subseteq B => step[A] \subseteq step[B]

\* The least set with F that the step adds nothing to.
LeastClosed(X, step, F) ==
  {x \in X : \A C \in SUBSET X : F \subseteq C /\ step[C] \subseteq C => x \in C}

Grows(X, step, w) ==
  w = [F \in SUBSET X |-> IF step[F] \subseteq F THEN F ELSE w[F \union step[F]]]

\* The closure holds F, is closed, and is contained in everything else that is.
LEMMA ClosureIsLeast ==
  ASSUME NEW X, NEW step, Monotone(X, step), NEW F \in SUBSET X
  PROVE  /\ LeastClosed(X, step, F) \in SUBSET X
         /\ F \subseteq LeastClosed(X, step, F)
         /\ step[LeastClosed(X, step, F)] \subseteq LeastClosed(X, step, F)
         /\ \A C \in SUBSET X : F \subseteq C /\ step[C] \subseteq C => LeastClosed(X, step, F) \subseteq C
  <1> DEFINE Cl == LeastClosed(X, step, F)
  <1>1. Cl \in SUBSET X /\ F \subseteq Cl
    BY DEF LeastClosed
  <1>2. \A C \in SUBSET X : F \subseteq C /\ step[C] \subseteq C => Cl \subseteq C
    BY DEF LeastClosed
  <1>3. step[Cl] \subseteq Cl
    <2>1. SUFFICES ASSUME NEW x \in step[Cl], NEW C \in SUBSET X, F \subseteq C, step[C] \subseteq C
                   PROVE  x \in X /\ x \in C
      BY <1>1 DEF LeastClosed, Monotone
    <2>2. step[Cl] \subseteq step[C]
      BY <1>1, <1>2, <2>1 DEF Monotone
    <2>3. QED BY <2>1, <2>2
  <1>4. QED BY <1>1, <1>2, <1>3

\* The closure of a set is that of the set after a step.
LEMMA ClosureStep ==
  ASSUME NEW X, NEW step, Monotone(X, step), NEW F \in SUBSET X, NEW H, H = F \union step[F]
  PROVE  /\ step[F] \subseteq F => LeastClosed(X, step, F) = F
         /\ ~(step[F] \subseteq F) => LeastClosed(X, step, F) = LeastClosed(X, step, H)
  <1>1. H \in SUBSET X
    BY DEF Monotone
  <1>2. CASE step[F] \subseteq F
    BY <1>2, ClosureIsLeast
  <1>3. CASE ~(step[F] \subseteq F)
    <2>1. LeastClosed(X, step, F) \subseteq LeastClosed(X, step, H)
      BY <1>1, ClosureIsLeast
    <2>2. step[F] \subseteq step[LeastClosed(X, step, F)]
      BY ClosureIsLeast DEF Monotone
    <2>3. H \subseteq LeastClosed(X, step, F)
      BY <2>2, ClosureIsLeast
    <2>4. LeastClosed(X, step, H) \subseteq LeastClosed(X, step, F)
      BY <1>1, <2>3, ClosureIsLeast
    <2>5. QED BY <1>3, <2>1, <2>4
  <1>4. QED BY <1>2, <1>3

\* The equation of such a function has a solution.
LEMMA GrowingExists ==
  ASSUME NEW X, NEW step, Monotone(X, step)
  PROVE  \E w : Grows(X, step, w)
  <1> DEFINE w == [F \in SUBSET X |-> LeastClosed(X, step, F)]
  <1>1. ASSUME NEW F \in SUBSET X
        PROVE  w[F] = IF step[F] \subseteq F THEN F ELSE w[F \union step[F]]
    <2> DEFINE H == F \union step[F]
    <2>1. H \in SUBSET X
      BY DEF Monotone
    <2>2. /\ step[F] \subseteq F => LeastClosed(X, step, F) = F
          /\ ~(step[F] \subseteq F) => LeastClosed(X, step, F) = LeastClosed(X, step, H)
      BY ClosureStep
    <2>3. QED BY <2>1, <2>2
  <1>2. Grows(X, step, w)
    BY <1>1 DEF Grows
  <1>3. QED BY <1>2

\* In a finite family of sets one is contained in no other.
LEMMA LargestSet ==
  ASSUME NEW X, IsFiniteSet(X), NEW W \in SUBSET (SUBSET X), W # {}
  PROVE  \E A \in W : \A B \in W : A \subseteq B => B = A
  <1> DEFINE V == {X \ A : A \in W}
  <1>1. V \subseteq FiniteSubsetsOf(X)
    <2>1. SUFFICES ASSUME NEW A \in W
                   PROVE  X \ A \in FiniteSubsetsOf(X)
      OBVIOUS
    <2>2. IsFiniteSet(X \ A)
      BY FS_Difference
    <2>3. QED BY <2>2 DEF FiniteSubsetsOf
  <1>2. PICK D \in V : \A E \in V : <<E, D>> \notin StrictSubsetOrdering(X)
    <2>1. V # {}
      <3>1. PICK A \in W : TRUE
        OBVIOUS
      <3>2. X \ A \in V
        OBVIOUS
      <3>3. QED BY <3>2
    <2> HIDE DEF V
    <2>2. IsWellFoundedOn(StrictSubsetOrdering(X), FiniteSubsetsOf(X))
      BY FS_StrictSubsetOrderingWellFounded
    <2>3. \E D \in V : \A E \in V : <<E, D>> \notin StrictSubsetOrdering(X)
      BY <1>1, <2>1, <2>2, WFMin
    <2>4. QED BY <2>3
  <1>3. PICK A \in W : D = X \ A
    OBVIOUS
  <1>4. ASSUME NEW B \in W, A \subseteq B
        PROVE  B = A
    <2>1. <<X \ B, D>> \notin StrictSubsetOrdering(X)
      BY <1>2
    <2>2. ~(X \ B \subseteq X \ A /\ X \ B # X \ A)
      BY <1>3, <2>1 DEF StrictSubsetOrdering
    <2>3. QED BY <1>4, <2>2
  <1>5. QED BY <1>4

\* On finite sets every solution ends with the closure.
LEMMA GrowsToClosure ==
  ASSUME NEW X, IsFiniteSet(X), NEW step, Monotone(X, step),
         NEW w, Grows(X, step, w), NEW F \in SUBSET X
  PROVE  w[F] = LeastClosed(X, step, F)
  <1> DEFINE W == {A \in SUBSET X : w[A] # LeastClosed(X, step, A)}
  <1>1. SUFFICES ASSUME W # {}
                 PROVE  FALSE
    OBVIOUS
  <1>2. PICK A \in W : \A B \in W : A \subseteq B => B = A
    <2>1. W \in SUBSET (SUBSET X)
      OBVIOUS
    <2> HIDE DEF W
    <2>2. \E A \in W : \A B \in W : A \subseteq B => B = A
      BY <1>1, <2>1, LargestSet
    <2>3. QED BY <2>2
  <1> DEFINE H == A \union step[A]
  <1>3. A \in SUBSET X /\ H \in SUBSET X
    BY DEF Monotone
  <1>4. w[A] = IF step[A] \subseteq A THEN A ELSE w[H]
    BY Zenon DEF Grows
  <1>5. /\ step[A] \subseteq A => LeastClosed(X, step, A) = A
        /\ ~(step[A] \subseteq A) => LeastClosed(X, step, A) = LeastClosed(X, step, H)
    BY <1>3, ClosureStep
  <1>6. H # A => w[H] = LeastClosed(X, step, H)
    BY <1>2, <1>3
  <1>7. QED BY <1>2, <1>3, <1>4, <1>5, <1>6
-----------------------------------------------------------------------------
(* What is reached.                                                        *)

IsGraph(G) == /\ IsFiniteSet(DOMAIN G)
              /\ \A x \in DOMAIN G : G[x] \subseteq DOMAIN G

\* Every set of objects has one that no other of the set points to.
Acyclic(G) == \A S \in SUBSET DOMAIN G : S # {} => \E x \in S : \A y \in S : x \notin G[y]

\* What is reached is the least set that holds what the objects of S point to and is
\* closed under pointers.
LEMMA ReachedIsLeast ==
  ASSUME NEW G, IsGraph(G), NEW S
  PROVE  /\ ReachedFrom(G, S) \subseteq DOMAIN G
         /\ \A x \in S \intersect DOMAIN G : G[x] \subseteq ReachedFrom(G, S)
         /\ \A x \in ReachedFrom(G, S) : G[x] \subseteq ReachedFrom(G, S)
         /\ \A C : (/\ \A x \in S \intersect DOMAIN G : G[x] \subseteq C
                    /\ \A x \in C \intersect DOMAIN G : G[x] \subseteq C)
                   => ReachedFrom(G, S) \subseteq C
  <1> DEFINE X == PointedTo(G, DOMAIN G)
             step == [F \in SUBSET X |-> PointedTo(G, F)]
             Walk == CHOOSE w : w = [F \in SUBSET X |-> IF PointedTo(G, F) \subseteq F THEN F
                                                        ELSE w[F \union PointedTo(G, F)]]
             S1 == PointedTo(G, S)
  <1>1. X \subseteq DOMAIN G /\ IsFiniteSet(X)
    <2>1. X \subseteq DOMAIN G
      BY DEF PointedTo, IsGraph
    <2>2. QED BY <2>1, FS_Subset DEF IsGraph
  <1>2. \A F : PointedTo(G, F) \in SUBSET X
    BY DEF PointedTo
  <1>3. Monotone(X, step)
    <2>1. step \in [SUBSET X -> SUBSET X]
      BY <1>2
    <2>2. ASSUME NEW A \in SUBSET X, NEW B \in SUBSET X, A \subseteq B
          PROVE  PointedTo(G, A) \subseteq PointedTo(G, B)
      BY <2>2 DEF PointedTo
    <2>3. QED BY <2>1, <2>2 DEF Monotone
  <1>4. \A w : Grows(X, step, w) <=> w = [F \in SUBSET X |-> IF PointedTo(G, F) \subseteq F THEN F
                                                        ELSE w[F \union PointedTo(G, F)]]
    <2>1. ASSUME NEW w
          PROVE  [F \in SUBSET X |-> IF step[F] \subseteq F THEN F ELSE w[F \union step[F]]]
                 = [F \in SUBSET X |-> IF PointedTo(G, F) \subseteq F THEN F
                                                        ELSE w[F \union PointedTo(G, F)]]
      OBVIOUS
    <2>2. QED BY <2>1 DEF Grows
  <1>5. Grows(X, step, Walk)
    <2>1. \E w : w = [F \in SUBSET X |-> IF PointedTo(G, F) \subseteq F THEN F
                                                        ELSE w[F \union PointedTo(G, F)]]
      BY <1>3, <1>4, GrowingExists
    <2>2. Walk = [F \in SUBSET X |-> IF PointedTo(G, F) \subseteq F THEN F
                                                        ELSE Walk[F \union PointedTo(G, F)]]
      BY <2>1
    <2>3. QED BY <2>2, <1>4
  <1>6. ReachedFrom(G, S) = Walk[S1]
    BY DEF ReachedFrom
  <1> HIDE DEF Walk, step, X, S1
  <1>7. S1 \in SUBSET X
    BY <1>2 DEF S1
  <1>8. ReachedFrom(G, S) = LeastClosed(X, step, S1)
    BY <1>1, <1>3, <1>5, <1>6, <1>7, GrowsToClosure
  <1> DEFINE R == ReachedFrom(G, S)
  <1>9. /\ R \in SUBSET X /\ S1 \subseteq R /\ step[R] \subseteq R
        /\ \A C \in SUBSET X : S1 \subseteq C /\ step[C] \subseteq C => R \subseteq C
    BY <1>3, <1>7, <1>8, ClosureIsLeast
  <1>10. \A F \in SUBSET X : step[F] = PointedTo(G, F)
    BY DEF step
  <1>11. \A x \in S \intersect DOMAIN G : G[x] \subseteq R
    BY <1>9 DEF S1, PointedTo
  <1>12. \A x \in R : G[x] \subseteq R
    <2>1. PointedTo(G, R) \subseteq R
      BY <1>9, <1>10
    <2>2. QED BY <2>1, <1>1, <1>9 DEF PointedTo
  <1>13. ASSUME NEW C, \A x \in S \intersect DOMAIN G : G[x] \subseteq C,
                \A x \in C \intersect DOMAIN G : G[x] \subseteq C
         PROVE  R \subseteq C
    <2> DEFINE D == C \intersect X
    <2>1. S1 \subseteq D
      BY <1>7, <1>13 DEF S1, PointedTo
    <2>2. PointedTo(G, D) \subseteq D
      BY <1>2, <1>13 DEF PointedTo
    <2>3. D \in SUBSET X
      OBVIOUS
    <2>4. R \subseteq D
      BY <1>9, <1>10, <2>1, <2>2, <2>3
    <2>5. QED BY <2>4
  <1>14. QED BY <1>1, <1>9, <1>11, <1>12, <1>13

\* More is reached from more, and what is reached leads to nothing else.
LEMMA ReachedMonotone ==
  ASSUME NEW G, IsGraph(G), NEW S, NEW T,
         \A x \in S \intersect DOMAIN G : x \in T \/ x \in ReachedFrom(G, T)
  PROVE  ReachedFrom(G, S) \subseteq ReachedFrom(G, T)
  <1> DEFINE C == ReachedFrom(G, T)
  <1>1. \A x \in S \intersect DOMAIN G : G[x] \subseteq C
    BY ReachedIsLeast
  <1>2. \A x \in C \intersect DOMAIN G : G[x] \subseteq C
    BY ReachedIsLeast
  <1> HIDE DEF C
  <1>3. ReachedFrom(G, S) \subseteq C
    BY <1>1, <1>2, ReachedIsLeast
  <1>4. QED BY <1>3 DEF C

\* Whatever is reached is pointed to by an object of S or another one that is reached.
LEMMA ReachedHasPred ==
  ASSUME NEW G, IsGraph(G), NEW S, NEW z \in ReachedFrom(G, S)
  PROVE  \E x \in DOMAIN G : (x \in S \/ x \in ReachedFrom(G, S)) /\ z \in G[x]
  <1> DEFINE R == ReachedFrom(G, S)
             C == {y \in R : \E x \in DOMAIN G : (x \in S \/ x \in R) /\ y \in G[x]}
  <1>1. R \subseteq DOMAIN G /\ (\A x \in S \intersect DOMAIN G : G[x] \subseteq R)
        /\ (\A x \in R : G[x] \subseteq R)
    BY ReachedIsLeast
  <1>2. \A x \in S \intersect DOMAIN G : G[x] \subseteq C
    BY <1>1
  <1>3. \A x \in C \intersect DOMAIN G : G[x] \subseteq C
    BY <1>1
  <1>4. R \subseteq C
    <2> HIDE DEF C, R
    <2>1. ReachedFrom(G, S) \subseteq C
      BY <1>2, <1>3, ReachedIsLeast
    <2>2. QED BY <2>1 DEF R
  <1>5. QED BY <1>4

\* What only differs elsewhere reaches the same.
LEMMA ReachedSame ==
  ASSUME NEW G, IsGraph(G), NEW H, IsGraph(H), NEW C,
         \A x \in C : x \in DOMAIN G /\ x \in DOMAIN H /\ G[x] = H[x] /\ G[x] \subseteq C,
         NEW S, S \subseteq C
  PROVE  ReachedFrom(G, S) = ReachedFrom(H, S) /\ ReachedFrom(G, S) \subseteq C
  <1>1. ASSUME NEW A, IsGraph(A), NEW B, IsGraph(B),
               \A x \in C : x \in DOMAIN A /\ x \in DOMAIN B /\ A[x] = B[x] /\ A[x] \subseteq C
        PROVE  /\ ReachedFrom(A, S) \subseteq C
               /\ ReachedFrom(A, S) \subseteq ReachedFrom(B, S)
    <2>1. ReachedFrom(A, S) \subseteq C
      BY <1>1, ReachedIsLeast
    <2> DEFINE D == ReachedFrom(B, S) \intersect C
    <2>2. \A x \in S \intersect DOMAIN A : A[x] \subseteq D
      BY <1>1, ReachedIsLeast
    <2>3. \A x \in D \intersect DOMAIN A : A[x] \subseteq D
      BY <1>1, ReachedIsLeast
    <2>4. ReachedFrom(A, S) \subseteq D
      <3> HIDE DEF D
      <3>1. QED BY <1>1, <2>2, <2>3, ReachedIsLeast
    <2>5. QED BY <2>1, <2>4
  <1>2. /\ ReachedFrom(G, S) \subseteq C
        /\ ReachedFrom(G, S) \subseteq ReachedFrom(H, S)
    BY <1>1
  <1>3. ReachedFrom(H, S) \subseteq ReachedFrom(G, S)
    BY <1>1
  <1>4. QED BY <1>2, <1>3

\* No object of an acyclic graph reaches itself.
LEMMA NoCycles ==
  ASSUME NEW G, IsGraph(G), Acyclic(G), NEW x \in DOMAIN G
  PROVE  x \notin ReachedFrom(G, {x})
  <1> DEFINE C == {y \in DOMAIN G : y \in ReachedFrom(G, {x}) /\ x \in ReachedFrom(G, {y})}
  <1>1. SUFFICES ASSUME x \in ReachedFrom(G, {x})
                 PROVE  FALSE
    OBVIOUS
  <1>2. PICK y \in C : \A p \in C : y \notin G[p]
    <2>1. x \in C
      BY <1>1
    <2>2. QED BY <2>1 DEF Acyclic
  <1>3. PICK p \in DOMAIN G : (p \in {x} \/ p \in ReachedFrom(G, {x})) /\ y \in G[p]
    BY ReachedHasPred
  <1>4. p \in ReachedFrom(G, {x})
    BY <1>1, <1>3
  <1>5. y \in ReachedFrom(G, {p})
    BY <1>3, ReachedIsLeast
  <1>6. ReachedFrom(G, {y}) \subseteq ReachedFrom(G, {p})
    BY <1>5, ReachedMonotone
  <1>7. p \in C
    BY <1>4, <1>6
  <1>8. QED BY <1>2, <1>3, <1>7

\* Every set of objects of an acyclic graph has one that points to no other of the set.
LEMMA AcyclicSinks ==
  ASSUME NEW G, IsGraph(G), Acyclic(G), NEW S \in SUBSET DOMAIN G, S # {}
  PROVE  \E x \in S : G[x] \intersect S = {}
  <1> DEFINE Rest(x) == DOMAIN G \ ReachedFrom(G, {x})
             W == {Rest(x) : x \in S}
  <1>1. PICK A \in W : \A B \in W : A \subseteq B => B = A
    <2>1. W \in SUBSET (SUBSET DOMAIN G) /\ W # {}
      <3>1. PICK x \in S : TRUE
        OBVIOUS
      <3>2. Rest(x) \in W
        OBVIOUS
      <3>3. QED BY <3>2
    <2>2. IsFiniteSet(DOMAIN G)
      BY DEF IsGraph
    <2> HIDE DEF W
    <2>3. QED BY <2>1, <2>2, LargestSet
  <1>2. PICK x \in S : A = Rest(x)
    OBVIOUS
  <1>3. ASSUME NEW y \in G[x] \intersect S
        PROVE  FALSE
    <2>1. y \in ReachedFrom(G, {x})
      BY ReachedIsLeast
    <2>2. ReachedFrom(G, {y}) \subseteq ReachedFrom(G, {x})
      BY <2>1, ReachedMonotone
    <2>3. Rest(y) = Rest(x)
      <3>1. Rest(y) \in W /\ A \subseteq Rest(y)
        BY <1>2, <2>2
      <3>2. Rest(y) = A
        BY <3>1, <1>1
      <3>3. QED BY <3>2, <1>2
    <2>4. y \in ReachedFrom(G, {y})
      BY <2>1, <2>3, ReachedIsLeast
    <2>5. QED BY <2>4, NoCycles
  <1>4. QED BY <1>3

\* A set that is closed under pointers is reached from its members that T is to hold: those
\* that none of the set points to.
LEMMA ReachedFromSources ==
  ASSUME NEW G, IsGraph(G), Acyclic(G), NEW N \in SUBSET DOMAIN G, NEW T \in SUBSET N,
         \A x \in N : G[x] \subseteq N,
         \A x \in N \ T : \E p \in N : x \in G[p]
  PROVE  N = T \union ReachedFrom(G, T)
  <1> DEFINE R == ReachedFrom(G, T)
             U == N \ (T \union R)
  <1>1. R \subseteq N
    BY ReachedIsLeast
  <1>2. U = {}
    <2>1. SUFFICES ASSUME U # {}
                   PROVE  FALSE
      OBVIOUS
    <2>2. PICK x \in U : \A y \in U : x \notin G[y]
      BY <2>1 DEF Acyclic
    <2>3. PICK p \in N : x \in G[p]
      OBVIOUS
    <2>4. p \in T \/ p \in R
      BY <2>2, <2>3
    <2>5. x \in R
      BY <2>3, <2>4, ReachedIsLeast
    <2>6. QED BY <2>5
  <1>3. QED BY <1>1, <1>2
-----------------------------------------------------------------------------
(* Counts.  A node n has pointers to the objects of roots[n].              *)

Pointing(G, x) == {y \in DOMAIN G : x \in G[y]}
Holding(roots, x) == {n \in DOMAIN roots : x \in roots[n]}

\* Every object counts the pointers to it, and there are some.
Shared(G, count, roots) ==
  /\ IsGraph(G) /\ Acyclic(G)
  /\ IsFiniteSet(DOMAIN roots)
  /\ \A n \in DOMAIN roots : roots[n] \subseteq DOMAIN G
  /\ \A x \in DOMAIN G : /\ count[x] = Cardinality(Holding(roots, x)) + Cardinality(Pointing(G, x))
                         /\ count[x] # 0

\* Every object is pointed to from finitely many places, so that it can be counted.
LEMMA CountsAreFinite ==
  ASSUME NEW G, NEW count, NEW roots, Shared(G, count, roots), NEW x
  PROVE  /\ IsFiniteSet(Holding(roots, x)) /\ Cardinality(Holding(roots, x)) \in Nat
         /\ IsFiniteSet(Pointing(G, x)) /\ Cardinality(Pointing(G, x)) \in Nat
  <1>1. Holding(roots, x) \subseteq DOMAIN roots /\ Pointing(G, x) \subseteq DOMAIN G
    BY DEF Holding, Pointing
  <1>2. IsFiniteSet(Holding(roots, x)) /\ IsFiniteSet(Pointing(G, x))
    BY <1>1, FS_Subset DEF Shared, IsGraph
  <1>3. QED BY <1>2, FS_CardinalityType

\* All that is allocated is what the nodes reach.
JustReached(G, roots) ==
  DOMAIN G = UNION {roots[n] \union ReachedFrom(G, roots[n]) : n \in DOMAIN roots}

\* Where counts are exact, nothing is allocated that no node reaches.
LEMMA AllIsReached ==
  ASSUME NEW G, NEW count, NEW roots, Shared(G, count, roots)
  PROVE  JustReached(G, roots)
  <1> DEFINE All == UNION {roots[n] \union ReachedFrom(G, roots[n]) : n \in DOMAIN roots}
             T == UNION {roots[n] : n \in DOMAIN roots}
  <1>1. IsGraph(G) /\ Acyclic(G)
    BY DEF Shared
  <1>2. All \subseteq DOMAIN G
    BY <1>1, ReachedIsLeast DEF Shared
  <1>3. \A x \in DOMAIN G \ T : \E p \in DOMAIN G : x \in G[p]
    <2>1. SUFFICES ASSUME NEW x \in DOMAIN G \ T, \A p \in DOMAIN G : x \notin G[p]
                   PROVE  FALSE
      OBVIOUS
    <2>2. Holding(roots, x) = {} /\ Pointing(G, x) = {}
      BY <2>1 DEF Holding, Pointing
    <2>3. count[x] = 0 + 0
      BY <2>2, FS_EmptySet DEF Shared
    <2>4. QED BY <2>3 DEF Shared
  <1>4. T \in SUBSET DOMAIN G
    BY DEF Shared
  <1>5. DOMAIN G = T \union ReachedFrom(G, T)
    <2> HIDE DEF T
    <2>1. \A x \in DOMAIN G : G[x] \subseteq DOMAIN G
      BY <1>1 DEF IsGraph
    <2>2. QED BY <1>1, <1>3, <1>4, <2>1, ReachedFromSources
  <1>6. ReachedFrom(G, T) \subseteq All
    <2>1. \A x \in T \intersect DOMAIN G : G[x] \subseteq All
      <3>1. SUFFICES ASSUME NEW n \in DOMAIN roots, NEW x \in roots[n]
                     PROVE  G[x] \subseteq All
        OBVIOUS
      <3>2. x \in roots[n] \intersect DOMAIN G
        BY DEF Shared
      <3>3. G[x] \subseteq ReachedFrom(G, roots[n])
        BY <1>1, <3>2, ReachedIsLeast
      <3>4. QED BY <3>3
    <2>2. \A x \in All \intersect DOMAIN G : G[x] \subseteq All
      <3>1. SUFFICES ASSUME NEW n \in DOMAIN roots, NEW x \in roots[n] \union ReachedFrom(G, roots[n])
                     PROVE  G[x] \subseteq All
        OBVIOUS
      <3>2. roots[n] \subseteq DOMAIN G
        BY DEF Shared
      <3>3. G[x] \subseteq ReachedFrom(G, roots[n])
        BY <1>1, <3>2, ReachedIsLeast
      <3>4. QED BY <3>3
    <2> HIDE DEF T, All
    <2>3. QED BY <1>1, <2>1, <2>2, ReachedIsLeast
  <1>7. T \subseteq All
    OBVIOUS
  <1>8. QED BY <1>2, <1>5, <1>6, <1>7 DEF JustReached

\* No more pointers can be lost than there are.
LEMMA LostIsBounded ==
  ASSUME NEW G, NEW count, NEW roots, Shared(G, count, roots), NEW n \in DOMAIN roots,
         NEW A \in SUBSET DOMAIN G, NEW B \in SUBSET DOMAIN G, A \subseteq B, NEW x \in DOMAIN G
  PROVE  /\ PointersLost(G, roots[n], A, x) \in Nat
         /\ PointersLost(G, roots[n], A, x) <= PointersLost(G, roots[n], B, x)
         /\ PointersLost(G, roots[n], B, x) <= count[x]
  <1> DEFINE P(F) == {f \in F : x \in G[f]}
  <1>1. P(A) \subseteq P(B) /\ P(B) \subseteq Pointing(G, x)
    BY DEF Pointing
  <1>2. /\ IsFiniteSet(Holding(roots, x)) /\ Cardinality(Holding(roots, x)) \in Nat
        /\ IsFiniteSet(Pointing(G, x)) /\ Cardinality(Pointing(G, x)) \in Nat
    BY CountsAreFinite
  <1>3. IsFiniteSet(P(B)) /\ Cardinality(P(B)) <= Cardinality(Pointing(G, x))
    BY <1>1, <1>2, FS_Subset
  <1>4. IsFiniteSet(P(A)) /\ Cardinality(P(A)) <= Cardinality(P(B))
    BY <1>1, <1>3, FS_Subset
  <1>5. Cardinality(P(A)) \in Nat /\ Cardinality(P(B)) \in Nat
    BY <1>3, <1>4, FS_CardinalityType
  <1>6. x \in roots[n] => Cardinality(Holding(roots, x)) >= 1
    <2>1. SUFFICES ASSUME x \in roots[n]
                   PROVE  Cardinality(Holding(roots, x)) # 0
      BY <1>2
    <2>2. Holding(roots, x) # {}
      BY <2>1 DEF Holding
    <2>3. QED BY <1>2, <2>2, FS_EmptySet
  <1>7. count[x] = Cardinality(Holding(roots, x)) + Cardinality(Pointing(G, x))
    BY DEF Shared
  <1>8. /\ PointersLost(G, roots[n], A, x) = (IF x \in roots[n] THEN 1 ELSE 0) + Cardinality(P(A))
        /\ PointersLost(G, roots[n], B, x) = (IF x \in roots[n] THEN 1 ELSE 0) + Cardinality(P(B))
    BY DEF PointersLost
  <1> HIDE DEF P
  <1>9. QED BY <1>2, <1>3, <1>4, <1>5, <1>6, <1>7, <1>8

\* Exactly those are freed that lose all pointers to them.
LEMMA FreedAreAtZero ==
  ASSUME NEW G, NEW count, NEW roots, Shared(G, count, roots), NEW n \in DOMAIN roots
  PROVE  /\ Freed(G, count, roots[n]) \subseteq DOMAIN G
         /\ AtZero(G, count, roots[n], Freed(G, count, roots[n])) = Freed(G, count, roots[n])
  <1> DEFINE X == DOMAIN G
             S == roots[n]
             step == [F \in SUBSET X |-> AtZero(G, count, S, F)]
             Walk == CHOOSE w : w = [F \in SUBSET X |-> IF AtZero(G, count, S, F) \subseteq F THEN F
                                                        ELSE w[F \union AtZero(G, count, S, F)]]
  <1>1. IsFiniteSet(X)
    BY DEF Shared, IsGraph
  <1>2. \A F : AtZero(G, count, S, F) \in SUBSET X
    BY DEF AtZero
  <1>3. Monotone(X, step)
    <2>1. step \in [SUBSET X -> SUBSET X]
      BY <1>2
    <2>2. ASSUME NEW A \in SUBSET X, NEW B \in SUBSET X, A \subseteq B
          PROVE  AtZero(G, count, S, A) \subseteq AtZero(G, count, S, B)
      <3>1. SUFFICES ASSUME NEW x \in X, PointersLost(G, S, A, x) > 0, count[x] = PointersLost(G, S, A, x)
                     PROVE  PointersLost(G, S, B, x) > 0 /\ count[x] = PointersLost(G, S, B, x)
        BY DEF AtZero
      <3>2. /\ PointersLost(G, S, A, x) \in Nat
            /\ PointersLost(G, S, B, x) \in Nat
            /\ PointersLost(G, S, A, x) <= PointersLost(G, S, B, x)
            /\ PointersLost(G, S, B, x) <= count[x]
        BY <2>2, LostIsBounded
      <3>3. QED BY <3>1, <3>2
    <2>3. QED BY <2>1, <2>2 DEF Monotone
  <1>4. \A w : Grows(X, step, w) <=> w = [F \in SUBSET X |-> IF AtZero(G, count, S, F) \subseteq F THEN F
                                                        ELSE w[F \union AtZero(G, count, S, F)]]
    <2>1. ASSUME NEW w
          PROVE  [F \in SUBSET X |-> IF step[F] \subseteq F THEN F ELSE w[F \union step[F]]]
                 = [F \in SUBSET X |-> IF AtZero(G, count, S, F) \subseteq F THEN F
                                                        ELSE w[F \union AtZero(G, count, S, F)]]
      OBVIOUS
    <2>2. QED BY <2>1 DEF Grows
  <1>5. Grows(X, step, Walk)
    <2>0. PICK w : Grows(X, step, w)
      <3> HIDE DEF step, Walk, S
      <3>1. QED BY <1>3, GrowingExists
    <2>1. w = [F \in SUBSET X |-> IF AtZero(G, count, S, F) \subseteq F THEN F
                                                        ELSE w[F \union AtZero(G, count, S, F)]]
      BY <1>4, <2>0
    <2>2. Walk = [F \in SUBSET X |-> IF AtZero(G, count, S, F) \subseteq F THEN F
                                                        ELSE Walk[F \union AtZero(G, count, S, F)]]
      BY <2>1
    <2>3. QED BY <2>2, <1>4
  <1>6. Freed(G, count, S) = Walk[{}]
    BY DEF Freed
  <1> DEFINE C == LeastClosed(X, step, {})
             Z == step[C]
  <1> HIDE DEF Walk, step
  <1>7. Freed(G, count, S) = C
    BY <1>1, <1>3, <1>5, <1>6, GrowsToClosure
  <1>8. /\ C \in SUBSET X /\ step[C] \subseteq C
        /\ \A D \in SUBSET X : step[D] \subseteq D => C \subseteq D
    BY <1>3, ClosureIsLeast
  <1>9. Z \in SUBSET X /\ step[Z] \subseteq Z
    <2> HIDE DEF C
    <2>1. QED BY <1>3, <1>8 DEF Monotone
  <1>10. Z = C
    <2> HIDE DEF C, Z
    <2>1. C \subseteq Z
      BY <1>8, <1>9
    <2>2. Z \subseteq C
      BY <1>8 DEF Z
    <2>3. QED BY <2>1, <2>2
  <1>11. Z = AtZero(G, count, S, C)
    BY <1>8 DEF step
  <1>12. QED BY <1>7, <1>8, <1>10, <1>11

Dropped(f, S) == [x \in DOMAIN f \ S |-> f[x]]

CountsAfter(G, count, S) ==
  [x \in DOMAIN G \ Freed(G, count, S) |-> count[x] - PointersLost(G, S, Freed(G, count, S), x)]

\* When the node n goes and what the counts say is freed, the counts of what stays are exact.
LEMMA SharedAfterDrop ==
  ASSUME NEW G, NEW count, NEW roots, Shared(G, count, roots), NEW n \in DOMAIN roots
  PROVE  /\ Freed(G, count, roots[n]) \subseteq DOMAIN G
         /\ \A x \in DOMAIN G \ Freed(G, count, roots[n]) :
              CountsAfter(G, count, roots[n])[x] \in Nat \ {0}
         /\ Shared(Dropped(G, Freed(G, count, roots[n])), CountsAfter(G, count, roots[n]),
                   Dropped(roots, {n}))
  <1> DEFINE F == Freed(G, count, roots[n])
             after == CountsAfter(G, count, roots[n])
  <1>0. F = Freed(G, count, roots[n])
        /\ after = [x \in DOMAIN G \ F |-> count[x] - PointersLost(G, roots[n], F, x)]
    BY DEF CountsAfter
  <1> HIDE DEF F, after
  <1> USE <1>0
  <1> DEFINE H == Dropped(G, F)
             rest == Dropped(roots, {n})
             S == roots[n]
             lost(x) == PointersLost(G, S, F, x)
  <1>1. F \subseteq DOMAIN G /\ AtZero(G, count, S, F) = F
    BY FreedAreAtZero
  <1>2. DOMAIN H = DOMAIN G \ F /\ (\A x \in DOMAIN H : H[x] = G[x])
    BY DEF Dropped
  <1>3. DOMAIN rest = DOMAIN roots \ {n} /\ (\A m \in DOMAIN rest : rest[m] = roots[m])
    BY DEF Dropped
  <1>4. \A x \in DOMAIN G : /\ count[x] = Cardinality(Holding(roots, x)) + Cardinality(Pointing(G, x))
                            /\ count[x] # 0
    BY DEF Shared
  <1>5. ASSUME NEW x \in DOMAIN G
        PROVE  /\ lost(x) \in Nat /\ lost(x) <= count[x] /\ count[x] \in Nat
               /\ x \in F <=> lost(x) > 0 /\ count[x] = lost(x)
               /\ Cardinality(Holding(rest, x)) + Cardinality(Pointing(H, x)) = count[x] - lost(x)
    <2>1. lost(x) \in Nat /\ lost(x) <= count[x]
      BY <1>1, LostIsBounded
    <2>2. /\ IsFiniteSet(Holding(roots, x)) /\ Cardinality(Holding(roots, x)) \in Nat
          /\ IsFiniteSet(Pointing(G, x)) /\ Cardinality(Pointing(G, x)) \in Nat
      BY CountsAreFinite
    <2>3. count[x] \in Nat
      BY <1>4, <2>2
    <2>4. x \in F <=> lost(x) > 0 /\ count[x] = lost(x)
      BY <1>1 DEF AtZero
    <2>5. Cardinality(Holding(rest, x)) = Cardinality(Holding(roots, x)) - (IF x \in S THEN 1 ELSE 0)
      <3>1. Holding(rest, x) = Holding(roots, x) \ {n}
        BY <1>3 DEF Holding
      <3>2. n \in Holding(roots, x) <=> x \in S
        BY DEF Holding
      <3>3. Cardinality(Holding(roots, x) \ {n})
              = IF n \in Holding(roots, x) THEN Cardinality(Holding(roots, x)) - 1
                                           ELSE Cardinality(Holding(roots, x))
        BY <2>2, FS_RemoveElement
      <3> HIDE DEF rest
      <3>4. QED BY <2>2, <3>1, <3>2, <3>3
    <2> DEFINE P == {f \in F : x \in G[f]}
    <2>6. Cardinality(Pointing(H, x)) = Cardinality(Pointing(G, x)) - Cardinality(P)
      <3>1. Pointing(H, x) = Pointing(G, x) \ P /\ Pointing(G, x) \intersect P = P
        BY <1>1, <1>2 DEF Pointing
      <3>2. Cardinality(Pointing(G, x) \ P) = Cardinality(Pointing(G, x)) - Cardinality(Pointing(G, x) \intersect P)
        BY <2>2, FS_Difference
      <3>3. QED BY <3>1, <3>2
    <2>7. Cardinality(P) \in Nat
      <3>1. P \subseteq Pointing(G, x)
        BY <1>1 DEF Pointing
      <3>2. IsFiniteSet(P)
        BY <2>2, <3>1, FS_Subset
      <3>3. QED BY <3>2, FS_CardinalityType
    <2>8. lost(x) = (IF x \in S THEN 1 ELSE 0) + Cardinality(P)
      BY DEF PointersLost
    <2>9. Cardinality(Holding(rest, x)) + Cardinality(Pointing(H, x)) = count[x] - lost(x)
      <3> HIDE DEF P, lost, rest, H, S
      <3>1. QED BY <1>4, <2>2, <2>5, <2>6, <2>7, <2>8
    <2>10. QED BY <2>1, <2>3, <2>4, <2>9
  <1>6. ASSUME NEW x \in DOMAIN H
        PROVE  /\ after[x] = Cardinality(Holding(rest, x)) + Cardinality(Pointing(H, x))
               /\ after[x] \in Nat \ {0}
    <2>1. after[x] = count[x] - lost(x) /\ x \in DOMAIN G /\ x \notin F
      BY <1>2
    <2>2. count[x] # 0
      BY <1>4, <2>1
    <2>3. /\ lost(x) \in Nat /\ lost(x) <= count[x] /\ count[x] \in Nat
          /\ x \in F <=> lost(x) > 0 /\ count[x] = lost(x)
          /\ Cardinality(Holding(rest, x)) + Cardinality(Pointing(H, x)) = count[x] - lost(x)
      BY <1>5, <2>1
    <2> HIDE DEF lost, H, rest
    <2>4. QED BY <2>1, <2>2, <2>3
  \* What stays is not pointed at by nobody, and points to nothing that is freed: a pointer
  \* from outside of F is one that is not lost.
  <1>7. ASSUME NEW x \in F
        PROVE  Holding(rest, x) = {} /\ Pointing(H, x) = {}
    <2>1. x \in DOMAIN G
      BY <1>1
    <2>2. Cardinality(Holding(rest, x)) + Cardinality(Pointing(H, x)) = 0
      <3> HIDE DEF lost
      <3>1. QED BY <1>5, <2>1
    <2>3. IsFiniteSet(Holding(rest, x)) /\ IsFiniteSet(Pointing(H, x))
      <3>1. Holding(rest, x) \subseteq DOMAIN roots /\ Pointing(H, x) \subseteq DOMAIN G
        BY <1>2, <1>3 DEF Holding, Pointing
      <3>2. QED BY <3>1, FS_Subset DEF Shared, IsGraph
    <2>4. Cardinality(Holding(rest, x)) \in Nat /\ Cardinality(Pointing(H, x)) \in Nat
      BY <2>3, FS_CardinalityType
    <2>5. Cardinality(Holding(rest, x)) = 0 /\ Cardinality(Pointing(H, x)) = 0
      BY <2>2, <2>4
    <2>6. QED BY <2>3, <2>5, FS_EmptySet
  <1>8. IsGraph(H)
    <2>1. IsFiniteSet(DOMAIN H)
      <3>1. IsFiniteSet(DOMAIN G) /\ DOMAIN H \subseteq DOMAIN G
        BY <1>2 DEF Shared, IsGraph
      <3>2. QED BY <3>1, FS_Subset
    <2>2. ASSUME NEW x \in DOMAIN H, NEW y \in H[x]
          PROVE  y \in DOMAIN H
      <3>1. y \in DOMAIN G
        BY <1>2, <2>2 DEF Shared, IsGraph
      <3>2. x \in Pointing(H, y)
        BY <2>2 DEF Pointing
      <3>3. QED BY <1>2, <1>7, <3>1, <3>2
    <2>3. QED BY <2>1, <2>2 DEF IsGraph
  <1>9. Acyclic(H)
    BY <1>2 DEF Acyclic, Shared
  <1>10. \A m \in DOMAIN rest : rest[m] \subseteq DOMAIN H
    <2>1. SUFFICES ASSUME NEW m \in DOMAIN rest, NEW x \in rest[m]
                   PROVE  x \in DOMAIN H
      OBVIOUS
    <2>2. x \in DOMAIN G
      BY <1>3, <2>1 DEF Shared
    <2>3. m \in Holding(rest, x)
      BY <2>1 DEF Holding
    <2>4. QED BY <1>2, <1>7, <2>2, <2>3
  <1>11. IsFiniteSet(DOMAIN rest)
    BY <1>3, FS_RemoveElement DEF Shared
  <1>12. Shared(H, after, rest)
    <2> HIDE DEF H, rest
    <2>1. QED BY <1>6, <1>8, <1>9, <1>10, <1>11 DEF Shared
  <1>13. QED BY <1>1, <1>2, <1>6, <1>12 DEF F, after

\* A new node c with pointers to the objects of S, and new objects N that point to any others.
Widened(G, H, N, roots, more, c, S) ==
  /\ IsFiniteSet(N) /\ N \intersect DOMAIN G = {}
  /\ DOMAIN H = DOMAIN G \union N
  /\ \A x \in DOMAIN G : H[x] = G[x]
  /\ \A x \in N : H[x] \subseteq DOMAIN H
  /\ c \notin DOMAIN roots /\ S \subseteq DOMAIN H
  /\ DOMAIN more = DOMAIN roots \union {c} /\ more[c] = S
  /\ \A n \in DOMAIN roots : more[n] = roots[n]

\* The counts grow by their pointers.
CountsGrow(G, H, N, S, count, after) ==
  /\ \A x \in DOMAIN G :
       after[x] = count[x] + (IF x \in S THEN 1 ELSE 0) + Cardinality({y \in N : x \in H[y]})
  /\ \A x \in N :
       after[x] = (IF x \in S THEN 1 ELSE 0) + Cardinality({y \in N : x \in H[y]}) /\ after[x] # 0

\* New objects at the front, and roots that hold them, leave a graph shared if the counts are raised.
LEMMA SharedAfterGrowth ==
  ASSUME NEW G, NEW count, NEW roots, Shared(G, count, roots), NEW H, Acyclic(H),
         NEW N, NEW more, NEW c, NEW S, Widened(G, H, N, roots, more, c, S),
         NEW after, CountsGrow(G, H, N, S, count, after)
  PROVE  Shared(H, after, more)
  <1> USE DEF Widened, CountsGrow
  <1>1. IsGraph(G) /\ IsFiniteSet(DOMAIN roots) /\ (\A n \in DOMAIN roots : roots[n] \subseteq DOMAIN G)
        /\ (\A x \in DOMAIN G : /\ count[x] = Cardinality(Holding(roots, x)) + Cardinality(Pointing(G, x))
                                /\ count[x] # 0)
    BY DEF Shared
  <1>2. IsGraph(H)
    <2>1. IsFiniteSet(DOMAIN H)
      <3>1. IsFiniteSet(DOMAIN G)
        BY <1>1 DEF IsGraph
      <3>2. IsFiniteSet(DOMAIN G \union N)
        BY <3>1, FS_Union
      <3>3. QED BY <3>2
    <2>2. QED BY <1>1, <2>1 DEF IsGraph
  <1>3. IsFiniteSet(DOMAIN more)
    BY <1>1, FS_AddElement
  <1>4. \A n \in DOMAIN more : more[n] \subseteq DOMAIN H
    BY <1>1
  <1>5. ASSUME NEW x \in DOMAIN H
        PROVE  after[x] = Cardinality(Holding(more, x)) + Cardinality(Pointing(H, x)) /\ after[x] # 0
    <2> DEFINE P == {y \in N : x \in H[y]}
    <2>1. /\ IsFiniteSet(Holding(roots, x)) /\ Cardinality(Holding(roots, x)) \in Nat
          /\ IsFiniteSet(Pointing(G, x)) /\ Cardinality(Pointing(G, x)) \in Nat
      BY CountsAreFinite
    <2>2. IsFiniteSet(P) /\ Cardinality(P) \in Nat
      <3>1. IsFiniteSet(P)
        BY FS_Subset
      <3>2. QED BY <3>1, FS_CardinalityType
    <2>3. Cardinality(Holding(more, x)) = Cardinality(Holding(roots, x)) + (IF x \in S THEN 1 ELSE 0)
      <3>1. Holding(more, x) = IF x \in S THEN Holding(roots, x) \union {c} ELSE Holding(roots, x)
        BY DEF Holding
      <3>2. c \notin Holding(roots, x)
        BY DEF Holding
      <3>3. Cardinality(Holding(roots, x) \union {c}) = Cardinality(Holding(roots, x)) + 1
        BY <2>1, <3>2, FS_AddElement
      <3>4. QED BY <2>1, <3>1, <3>3
    <2>4. Cardinality(Pointing(H, x)) = Cardinality(Pointing(G, x)) + Cardinality(P)
      <3>1. Pointing(H, x) = Pointing(G, x) \union P
        BY DEF Pointing
      <3>2. Pointing(G, x) \intersect P = {}
        BY DEF Pointing
      <3>3. Cardinality(Pointing(G, x) \union P)
              = Cardinality(Pointing(G, x)) + Cardinality(P) - Cardinality(Pointing(G, x) \intersect P)
        BY <2>1, <2>2, FS_Union
      <3>4. Cardinality(Pointing(G, x) \intersect P) = 0
        BY <3>2, FS_EmptySet
      <3> HIDE DEF P
      <3>5. QED BY <2>1, <2>2, <3>1, <3>3, <3>4
    <2>5. CASE x \in DOMAIN G
      <3>1. after[x] = count[x] + (IF x \in S THEN 1 ELSE 0) + Cardinality(P)
        BY <2>5
      <3>2. count[x] = Cardinality(Holding(roots, x)) + Cardinality(Pointing(G, x)) /\ count[x] # 0
        BY <1>1, <2>5
      <3> HIDE DEF P
      <3>3. QED BY <2>1, <2>2, <2>3, <2>4, <3>1, <3>2
    <2>6. CASE x \in N
      <3>1. after[x] = (IF x \in S THEN 1 ELSE 0) + Cardinality(P) /\ after[x] # 0
        BY <2>6
      <3>2. Holding(roots, x) = {} /\ Pointing(G, x) = {}
        BY <1>1, <2>6 DEF Holding, Pointing, IsGraph
      <3>3. Cardinality(Holding(roots, x)) = 0 /\ Cardinality(Pointing(G, x)) = 0
        BY <3>2, FS_EmptySet
      <3> HIDE DEF P
      <3>4. QED BY <2>2, <2>3, <2>4, <3>1, <3>3
    <2>7. QED BY <2>5, <2>6
  <1>6. QED BY <1>2, <1>3, <1>4, <1>5 DEF Shared
=============================================================================
