------------------------ MODULE OrderingModes_proofs ------------------------
(***************************************************************************)
(* The loops of computeTransitiveChangeOfMethodOrderings compute the       *)
(* closure and the reduction of every ordering.  What the flags of a       *)
(* problem promise holds for every network of the search, and the          *)
(* reduction carries over to the networks: for methods and networks of any *)
(* size, cyclic orderings included.                                        *)
(***************************************************************************)
EXTENDS OrderingModes, PointerGraph_proofs, TLAPS

(* The closure and the reduction of the orderings of methods.              *)

\* The closure loop has treated the positions below k.
ClosedBelow ==
  pc = "close" =>
    /\ method.given \subseteq trans
    /\ \A x, y \in Positions : \A i \in 1 .. k - 1 :
         (<<x, i>> \in trans /\ <<i, y>> \in trans) => <<x, y>> \in trans
    /\ \A R \in SUBSET (Positions \X Positions) :
         (method.given \subseteq R /\ Transitive(R)) => trans \subseteq R

\* The reduction loop has treated the positions below k.
ReducedBelow ==
  pc = "reduce" =>
    transRed = {e \in trans : \A i \in 1 .. k - 1 : ~(<<e[1], i>> \in trans /\ <<i, e[2]>> \in trans)}

IInv == TypeOK /\ ClosedBelow /\ ClosureCorrect /\ ReducedBelow /\ ReductionCorrect

\* What is joined through i is what comes before i with what comes after it.
LEMMA EndsThrough ==
  ASSUME NEW S, NEW R \in SUBSET (S \X S), NEW i \in S, NEW x, NEW y
  PROVE  <<x, y>> \in Ends(Through(R, i)) <=> (<<x, i>> \in R /\ <<i, y>> \in R)
<1>1. ASSUME <<x, i>> \in R, <<i, y>> \in R PROVE <<x, y>> \in Ends(Through(R, i))
  <2> DEFINE p == <<<<x, i>>, <<i, y>>>>
  <2>1. p \in Through(R, i)
    BY <1>1 DEF Through
  <2>2. <<x, y>> = <<p[1][1], p[2][2]>>
    OBVIOUS
  <2> QED
    BY <2>1, <2>2 DEF Ends
<1>2. ASSUME <<x, y>> \in Ends(Through(R, i)) PROVE <<x, i>> \in R /\ <<i, y>> \in R
  <2>1. PICK p \in Through(R, i) : <<x, y>> = <<p[1][1], p[2][2]>>
    BY <1>2 DEF Ends
  <2>2. p[1] \in R /\ p[2] \in R /\ p[1][2] = i /\ p[2][1] = i
    BY <2>1 DEF Through
  <2>3. p[1] = <<x, i>> /\ p[2] = <<i, y>>
    BY <2>1, <2>2
  <2> QED
    BY <2>2, <2>3
<1> QED
  BY <1>1, <1>2

\* Chains through i lead from subtasks to subtasks.
LEMMA EndsType ==
  ASSUME NEW S, NEW R \in SUBSET (S \X S), NEW i
  PROVE  Ends(Through(R, i)) \subseteq S \X S
BY DEF Ends, Through

\* What a method is made of.
LEMMA MethodType ==
  ASSUME NEW m \in Methods
  PROVE  /\ m.size \in Nat \ {0}
         /\ m.given \subseteq (1 .. m.size) \X (1 .. m.size)
BY MethodsAssumption

\* Before a method is read, nothing is closed or reduced.
LEMMA InitIInv == Init => IInv
<1> SUFFICES ASSUME Init PROVE IInv
  OBVIOUS
<1>1. TypeOK
  <2>1. method.size \in Nat \ {0} /\ method.given \subseteq Positions \X Positions
    BY MethodType DEF Init, Positions
  <2>2. k \in 1 .. method.size + 1
    BY <2>1 DEF Init
  <2> QED
    BY <2>1, <2>2 DEF Init, TypeOK
<1>2. ClosedBelow
  BY DEF Init, ClosedBelow
<1> QED
  BY <1>1, <1>2 DEF Init, IInv, ClosureCorrect, ReducedBelow, ReductionCorrect

\* A step of the closure loop.
LEMMA CloseIInv == IInv /\ Close => IInv'
<1> SUFFICES ASSUME IInv, Close PROVE IInv'
  OBVIOUS
<1> USE DEF IInv
<1>0. /\ method.size \in Nat /\ k \in Positions /\ k \in Nat
      /\ Positions' = Positions /\ method' = method
  BY MethodType DEF Close, TypeOK, Positions, More
<1>1. trans \in SUBSET (Positions \X Positions)
  BY DEF TypeOK
<1>2. trans' = trans \union Ends(Through(trans, k))
  BY DEF Close
<1>3. \A x, y : <<x, y>> \in trans' <=> \/ <<x, y>> \in trans
                                        \/ <<x, k>> \in trans /\ <<k, y>> \in trans
  BY <1>0, <1>1, <1>2, EndsThrough
<1>4. trans' \subseteq Positions \X Positions
  BY <1>1, <1>2, EndsType
<1>5. TypeOK'
  BY <1>0, <1>4, MethodType DEF TypeOK, Close, Positions, flags, More
<1>6. ClosedBelow'
  <2>1. method.given \subseteq trans'
    BY <1>2 DEF ClosedBelow, Close
  <2>2. ASSUME NEW x \in Positions, NEW y \in Positions, NEW i \in 1 .. k,
               <<x, i>> \in trans', <<i, y>> \in trans'
        PROVE  <<x, y>> \in trans'
    <3>1. CASE i = k
      BY <1>3, <2>2, <3>1
    <3>2. CASE i # k
      <4>1. i \in 1 .. k - 1 /\ i \in Positions
        BY <1>0, <3>2 DEF Positions
      <4>2. \A u, v \in Positions : (<<u, i>> \in trans /\ <<i, v>> \in trans) => <<u, v>> \in trans
        BY <4>1 DEF ClosedBelow, Close
      <4> QED
        BY <1>0, <1>3, <2>2, <4>2
    <3> QED
      BY <3>1, <3>2
  <2>3. ASSUME NEW R \in SUBSET (Positions \X Positions), method.given \subseteq R, Transitive(R)
        PROVE  trans' \subseteq R
    <3>1. trans \subseteq R
      BY <2>3 DEF ClosedBelow, Close
    <3>2. ASSUME NEW x, NEW y, <<x, y>> \in trans' PROVE <<x, y>> \in R
      <4>1. CASE <<x, y>> \in trans
        BY <3>1, <4>1
      <4>2. CASE <<x, k>> \in trans /\ <<k, y>> \in trans
        <5> DEFINE d == <<x, k>>
                   e == <<k, y>>
        <5>1. d \in R /\ e \in R
          BY <3>1, <4>2
        <5>2. d[2] = e[1] /\ d[1] = x /\ e[2] = y
          OBVIOUS
        <5> HIDE DEF d, e
        <5> QED
          BY <2>3, <5>1, <5>2 DEF Transitive
      <4> QED
        BY <1>3, <3>2, <4>1, <4>2
    <3>3. \A e \in trans' : e = <<e[1], e[2]>>
      BY <1>4
    <3> QED
      BY <3>2, <3>3
  <2>4. k' - 1 = k
    BY <1>0 DEF Close
  <2> QED
    BY <1>0, <2>1, <2>2, <2>3, <2>4 DEF ClosedBelow
<1> QED
  BY <1>5, <1>6 DEF Close, ClosureCorrect, ReducedBelow, ReductionCorrect

\* The closure loop ends.
LEMMA CopyIInv == IInv /\ Copy => IInv'
<1> SUFFICES ASSUME IInv, Copy PROVE IInv'
  OBVIOUS
<1> USE DEF IInv
<1>0. /\ method \in Methods /\ method' = method /\ Positions' = Positions /\ trans' = trans
      /\ pc = "close" /\ pc' = "reduce" /\ k' = 1 /\ transRed' = trans
  BY DEF Copy, Positions, TypeOK
<1>1. k = method.size + 1 /\ k - 1 = method.size
  BY MethodType DEF Copy, TypeOK, More
<1>2. TypeOK'
  BY <1>0, MethodType DEF TypeOK, Copy, Positions, flags
<1>3. Transitive(trans)
  <2> SUFFICES ASSUME NEW d \in trans, NEW e \in trans, d[2] = e[1] PROVE <<d[1], e[2]>> \in trans
    BY DEF Transitive
  <2>1. d \in Positions \X Positions /\ e \in Positions \X Positions
    BY DEF TypeOK
  <2>2. d = <<d[1], d[2]>> /\ e = <<d[2], e[2]>>
    BY <2>1
  <2>3. d[2] \in 1 .. k - 1
    BY <1>1, <2>1 DEF Positions
  <2> QED
    BY <1>0, <2>1, <2>2, <2>3 DEF ClosedBelow
<1>4. ClosureCorrect'
  <2>1. /\ method.given \subseteq trans
        /\ \A R \in SUBSET trans : (method.given \subseteq R /\ Transitive(R)) => R = trans
    BY <1>0 DEF ClosedBelow, TypeOK
  <2> QED
    BY <1>0, <1>3, <2>1 DEF ClosureCorrect, Transitive
<1>5. ReducedBelow'
  BY <1>0 DEF ReducedBelow
<1> QED
  BY <1>0, <1>2, <1>4, <1>5 DEF ClosedBelow, ReductionCorrect

\* A step of the reduction loop.
LEMMA ReduceIInv == IInv /\ Reduce => IInv'
<1> SUFFICES ASSUME IInv, Reduce PROVE IInv'
  OBVIOUS
<1> USE DEF IInv
<1>0. /\ k \in Positions /\ k \in Nat /\ Positions' = Positions /\ method' = method /\ trans' = trans
      /\ pc = "reduce" /\ pc' = "reduce" /\ k' = k + 1
      /\ transRed' = transRed \ Ends(Through(trans, k))
  BY MethodType DEF Reduce, TypeOK, Positions, Kept, More
<1>1. trans \in SUBSET (Positions \X Positions)
  BY DEF TypeOK
<1>2. TypeOK'
  BY <1>0, MethodType DEF TypeOK, Reduce, Positions, flags, More
<1>3. ReducedBelow'
  <2>1. \A e \in trans : e \in Ends(Through(trans, k))
                         <=> (<<e[1], k>> \in trans /\ <<k, e[2]>> \in trans)
    <3> SUFFICES ASSUME NEW e \in trans
                 PROVE  e \in Ends(Through(trans, k))
                        <=> (<<e[1], k>> \in trans /\ <<k, e[2]>> \in trans)
      OBVIOUS
    <3>1. e = <<e[1], e[2]>>
      BY <1>1
    <3> QED
      BY <1>0, <1>1, <3>1, EndsThrough
  <2>2. transRed = {e \in trans : \A i \in 1 .. k - 1 : ~(<<e[1], i>> \in trans /\ <<i, e[2]>> \in trans)}
    BY <1>0 DEF ReducedBelow
  <2>3. 1 .. k' - 1 = (1 .. k - 1) \union {k}
    BY <1>0 DEF Positions
  <2>4. transRed' = {e \in trans : \A i \in 1 .. k' - 1 : ~(<<e[1], i>> \in trans /\ <<i, e[2]>> \in trans)}
    BY <1>0, <2>1, <2>2, <2>3
  <2> QED
    BY <1>0, <2>4 DEF ReducedBelow
<1>4. ClosureCorrect'
  BY <1>0 DEF ClosureCorrect, Transitive
<1> QED
  BY <1>0, <1>2, <1>3, <1>4 DEF ClosedBelow, ReductionCorrect

\* The reduction loop ends.
LEMMA ClassifyIInv == IInv /\ Classify => IInv'
<1> SUFFICES ASSUME IInv, Classify PROVE IInv'
  OBVIOUS
<1> USE DEF IInv
<1>0. /\ method \in Methods /\ method' = method /\ Positions' = Positions /\ trans' = trans
      /\ pc = "reduce" /\ pc' = "read" /\ k' = k /\ transRed' = transRed
  BY DEF Classify, Positions, TypeOK
<1>1. 1 .. k - 1 = Positions
  BY <1>0, MethodType DEF Classify, TypeOK, Positions, More
<1>2. TypeOK'
  BY <1>0, MethodType DEF TypeOK, Classify, Positions
<1>3. ReductionCorrect'
  BY <1>0, <1>1 DEF ReducedBelow, ReductionCorrect
<1>4. ClosureCorrect'
  BY <1>0 DEF ClosureCorrect, Transitive
<1> QED
  BY <1>0, <1>2, <1>3, <1>4 DEF ClosedBelow, ReducedBelow

\* The next method.
LEMMA ReadIInv == IInv /\ Read => IInv'
<1> SUFFICES ASSUME IInv, Read PROVE IInv'
  OBVIOUS
<1> USE DEF IInv
<1>0. /\ method' \in Methods /\ trans' = method.given' /\ transRed' = {} /\ k' = 1 /\ pc' = "close"
      /\ UNCHANGED <<flags>>
  BY DEF Read
<1>1. TypeOK'
  <2>1. method'.size \in Nat \ {0} /\ method'.given \subseteq Positions' \X Positions'
    BY <1>0, MethodType DEF Positions
  <2> QED
    BY <1>0, <2>1 DEF TypeOK, Positions, flags
<1>2. ClosedBelow'
  BY <1>0 DEF ClosedBelow
<1> QED
  BY <1>0, <1>1, <1>2 DEF ClosureCorrect, ReducedBelow, ReductionCorrect

\* Every round of the closure and of the reduction leaves the invariant.
LEMMA NextIInv == IInv /\ [Next]_vars => IInv'
<1> SUFFICES ASSUME IInv, [Next]_vars PROVE IInv'
  OBVIOUS
<1>1. CASE UNCHANGED vars
  <2>1. /\ method' = method /\ trans' = trans /\ transRed' = transRed /\ k' = k /\ pc' = pc
        /\ Positions' = Positions
    BY <1>1 DEF vars, Positions
  <2>2. TypeOK'
    BY <1>1 DEF vars, flags, IInv, TypeOK, Positions
  <2>3. ClosedBelow'
    BY <2>1 DEF IInv, ClosedBelow, Transitive
  <2>4. ClosureCorrect'
    BY <2>1 DEF IInv, ClosureCorrect, Transitive
  <2>5. ReducedBelow' /\ ReductionCorrect'
    BY <2>1 DEF IInv, ReducedBelow, ReductionCorrect
  <2> QED
    BY <2>2, <2>3, <2>4, <2>5 DEF IInv
<1> QED
  BY <1>1, CloseIInv, CopyIInv, ReduceIInv, ClassifyIInv, ReadIInv DEF Next

\* Type correctness, for methods of every size.
THEOREM TypeCorrect == Spec => []TypeOK
<1>1. IInv => TypeOK
  BY DEF IInv
<1> QED
  BY InitIInv, NextIInv, <1>1, PTL DEF Spec

\* computeTransitiveChangeOfMethodOrderings: one pass over the matrix, changed in place,
\* yields the least transitive relation that holds the given pairs.
THEOREM ClosureIsCorrect == Spec => []ClosureCorrect
<1>1. IInv => ClosureCorrect
  BY DEF IInv
<1> QED
  BY InitIInv, NextIInv, <1>1, PTL DEF Spec

\* The reduction keeps exactly the pairs that no two pairs of the closure imply.
THEOREM ReductionIsCorrect == Spec => []ReductionCorrect
<1>1. IInv => ReductionCorrect
  BY DEF IInv
<1> QED
  BY InitIInv, NextIInv, <1>1, PTL DEF Spec
-----------------------------------------------------------------------------
(* Orderings as sets of pairs over a set X of subtasks or steps.           *)

NoFork(R) == \A x, y, z : <<x, y>> \in R /\ <<x, z>> \in R => y = z
NoJoin(R) == \A x, y, z : <<x, z>> \in R /\ <<y, z>> \in R => x = y

IsStart(R, x) == \A y : <<y, x>> \notin R
IsEnd(R, x) == \A y : <<x, y>> \notin R

OneStart(R, X) == \A x, y \in X : IsStart(R, x) /\ IsStart(R, y) => x = y
OneEnd(R, X) == \A x, y \in X : IsEnd(R, x) /\ IsEnd(R, y) => x = y

Row(R, X) == NoFork(R) /\ NoJoin(R) /\ OneStart(R, X) /\ OneEnd(R, X)

\* T is transitive, holds R, and implies no pair of R through a third member.
Reduces(T, R) ==
  /\ R \subseteq T
  /\ \A x, y, z : <<x, y>> \in T /\ <<y, z>> \in T => <<x, z>> \in T
  /\ \A x, y, z : ~ (<<x, y>> \in R /\ <<x, z>> \in T /\ <<z, y>> \in T)

IsReduced(R, X) == \E T \in SUBSET (X \X X) : Reduces(T, R)

\* The model's sets of pairs that leave x and enter y.
LEMMA EndsAndStarts ==
  ASSUME NEW X, NEW R \in SUBSET (X \X X), NEW x
  PROVE  /\ After(R, x) = {} <=> IsEnd(R, x)
         /\ Until(R, x) = {} <=> IsStart(R, x)
  <1>1. After(R, x) = {} <=> IsEnd(R, x)
    <2>1. ASSUME NEW y, <<x, y>> \in R
          PROVE  <<x, y>> \in After(R, x)
      BY <2>1 DEF After
    <2>2. ASSUME NEW e \in After(R, x)
          PROVE  \E y : <<x, y>> \in R
      <3>1. e \in R /\ e[1] = x /\ e = <<e[1], e[2]>>
        BY DEF After
      <3>2. QED BY <3>1
    <2>3. QED BY <2>1, <2>2 DEF IsEnd
  <1>2. Until(R, x) = {} <=> IsStart(R, x)
    <2>1. ASSUME NEW y, <<y, x>> \in R
          PROVE  <<y, x>> \in Until(R, x)
      BY <2>1 DEF Until
    <2>2. ASSUME NEW e \in Until(R, x)
          PROVE  \E y : <<y, x>> \in R
      <3>1. e \in R /\ e[2] = x /\ e = <<e[1], e[2]>>
        BY DEF Until
      <3>2. QED BY <3>1
    <2>3. QED BY <2>1, <2>2 DEF IsStart
  <1>3. QED BY <1>1, <1>2

\* They are as many as x has successors, or y predecessors.
LEMMA CountingPairs ==
  ASSUME NEW X, IsFiniteSet(X), NEW R \in SUBSET (X \X X)
  PROVE  \A x : /\ IsFiniteSet(After(R, x)) /\ Cardinality(After(R, x)) \in Nat
                /\ IsFiniteSet(Until(R, x)) /\ Cardinality(Until(R, x)) \in Nat
  <1>1. IsFiniteSet(R)
    <2>1. IsFiniteSet(X \X X)
      BY FS_Product
    <2>2. QED BY <2>1, FS_Subset
  <1>2. SUFFICES ASSUME NEW x
                 PROVE  /\ IsFiniteSet(After(R, x)) /\ Cardinality(After(R, x)) \in Nat
                        /\ IsFiniteSet(Until(R, x)) /\ Cardinality(Until(R, x)) \in Nat
    OBVIOUS
  <1>3. After(R, x) \in SUBSET R /\ Until(R, x) \in SUBSET R
    BY DEF After, Until
  <1>4. IsFiniteSet(After(R, x)) /\ IsFiniteSet(Until(R, x))
    BY <1>1, <1>3, FS_Subset
  <1>5. QED BY <1>4, FS_CardinalityType

\* A set of at most one element.
LEMMA AtMostOne ==
  ASSUME NEW S, IsFiniteSet(S)
  PROVE  Cardinality(S) <= 1 <=> \A d, e \in S : d = e
  <1>1. Cardinality(S) \in Nat
    BY FS_CardinalityType
  <1>2. CASE S = {}
    BY <1>2, FS_EmptySet
  <1>3. CASE S # {}
    <2>1. Cardinality(S) # 0
      BY <1>3, FS_EmptySet
    <2>2. Cardinality(S) = 1 <=> \E e : S = {e}
      BY FS_Singleton
    <2>3. (\E e : S = {e}) <=> \A d, e \in S : d = e
      BY <1>3
    <2>4. Cardinality(S) <= 1 <=> Cardinality(S) = 1
      BY <1>1, <2>1
    <2>5. QED BY <2>2, <2>3, <2>4, Zenon
  <1>4. QED BY <1>2, <1>3

\* No fork and no join, as numbers of successors and predecessors.
LEMMA NoForkCounted ==
  ASSUME NEW X, IsFiniteSet(X), NEW R \in SUBSET (X \X X)
  PROVE  /\ NoFork(R) <=> \A x \in X : Cardinality(After(R, x)) <= 1
         /\ NoJoin(R) <=> \A y \in X : Cardinality(Until(R, y)) <= 1
  <1>1. NoFork(R) <=> \A x \in X : \A d, e \in After(R, x) : d = e
    <2>1. ASSUME NoFork(R), NEW x \in X, NEW d \in After(R, x), NEW e \in After(R, x)
          PROVE  d = e
      <3>1. d \in R /\ e \in R /\ d = <<x, d[2]>> /\ e = <<x, e[2]>>
        BY DEF After
      <3>2. QED BY <2>1, <3>1 DEF NoFork
    <2>2. ASSUME \A x \in X : \A d, e \in After(R, x) : d = e,
                 NEW x, NEW y, NEW z, <<x, y>> \in R, <<x, z>> \in R
          PROVE  y = z
      <3>1. x \in X /\ <<x, y>> \in After(R, x) /\ <<x, z>> \in After(R, x)
        BY <2>2 DEF After
      <3>2. QED BY <2>2, <3>1
    <2>3. QED BY <2>1, <2>2 DEF NoFork
  <1>2. NoJoin(R) <=> \A y \in X : \A d, e \in Until(R, y) : d = e
    <2>1. ASSUME NoJoin(R), NEW y \in X, NEW d \in Until(R, y), NEW e \in Until(R, y)
          PROVE  d = e
      <3>1. d \in R /\ e \in R /\ d = <<d[1], y>> /\ e = <<e[1], y>>
        BY DEF Until
      <3>2. QED BY <2>1, <3>1 DEF NoJoin
    <2>2. ASSUME \A y \in X : \A d, e \in Until(R, y) : d = e,
                 NEW x, NEW y, NEW z, <<x, z>> \in R, <<y, z>> \in R
          PROVE  x = y
      <3>1. z \in X /\ <<x, z>> \in Until(R, z) /\ <<y, z>> \in Until(R, z)
        BY <2>2 DEF Until
      <3>2. QED BY <2>2, <3>1
    <2>3. QED BY <2>1, <2>2 DEF NoJoin
  <1>3. QED BY <1>1, <1>2, CountingPairs, AtMostOne

\* Reduced orderings have no cycles, so that they start and end somewhere.
LEMMA ReducedHasEnds ==
  ASSUME NEW X, IsFiniteSet(X), X # {}, NEW R, IsReduced(R, X)
  PROVE  /\ \E x \in X : IsStart(R, x)
         /\ \E x \in X : IsEnd(R, x)
  <1>1. PICK T \in SUBSET (X \X X) : Reduces(T, R)
    BY DEF IsReduced
  <1>2. \E x \in X : IsStart(R, x)
    <2> DEFINE Above(x) == {y \in X : <<x, y>> \in T}
               W == {Above(x) : x \in X}
    <2>1. PICK A \in W : \A B \in W : A \subseteq B => B = A
      <3>1. W \in SUBSET (SUBSET X) /\ W # {}
        OBVIOUS
      <3> HIDE DEF W
      <3>2. \E A \in W : \A B \in W : A \subseteq B => B = A
        BY <3>1, LargestSet
      <3>3. QED BY <3>2
    <2>2. PICK x \in X : A = Above(x)
      OBVIOUS
    <2>3. ASSUME NEW y, <<y, x>> \in R
          PROVE  FALSE
      <3>1. y \in X /\ <<y, x>> \in T
        BY <1>1, <2>3 DEF Reduces
      <3>2. Above(x) \subseteq Above(y)
        BY <1>1, <3>1 DEF Reduces
      <3>3. Above(y) \in W
        BY <3>1
      <3>4. Above(y) = Above(x)
        BY <2>1, <2>2, <3>2, <3>3
      <3>5. <<x, x>> \in T
        BY <3>1, <3>4
      <3>6. QED BY <1>1, <2>3, <3>1, <3>5 DEF Reduces
    <2>4. QED BY <2>3 DEF IsStart
  <1>3. \E x \in X : IsEnd(R, x)
    <2> DEFINE Below(x) == {y \in X : <<y, x>> \in T}
               W == {Below(x) : x \in X}
    <2>1. PICK A \in W : \A B \in W : A \subseteq B => B = A
      <3>1. W \in SUBSET (SUBSET X) /\ W # {}
        OBVIOUS
      <3> HIDE DEF W
      <3>2. \E A \in W : \A B \in W : A \subseteq B => B = A
        BY <3>1, LargestSet
      <3>3. QED BY <3>2
    <2>2. PICK x \in X : A = Below(x)
      OBVIOUS
    <2>3. ASSUME NEW y, <<x, y>> \in R
          PROVE  FALSE
      <3>1. y \in X /\ <<x, y>> \in T
        BY <1>1, <2>3 DEF Reduces
      <3>2. Below(x) \subseteq Below(y)
        BY <1>1, <3>1 DEF Reduces
      <3>3. Below(y) \in W
        BY <3>1
      <3>4. Below(y) = Below(x)
        BY <2>1, <2>2, <3>2, <3>3
      <3>5. <<x, x>> \in T
        BY <3>1, <3>4
      <3>6. QED BY <1>1, <2>3, <3>1, <3>5 DEF Reduces
    <2>4. QED BY <2>3 DEF IsEnd
  <1>4. QED BY <1>2, <1>3

\* What Classify finds out about the ordering of a method.
LEMMA RowIsRow ==
  ASSUME method \in Methods, NEW R \in SUBSET (Positions \X Positions), IsReduced(R, Positions)
  PROVE  /\ InOneRow(R) => Row(R, Positions)
         /\ ~ Forks(R) => NoFork(R)
         /\ ~ Joins(R) => NoJoin(R)
  <1> DEFINE P == Positions
  <1>1. IsFiniteSet(P) /\ P # {}
    <2>1. method.size \in Nat \ {0}
      BY MethodType
    <2>2. 1 \in 1 .. method.size /\ IsFiniteSet(1 .. method.size)
      BY <2>1, FS_Interval
    <2>3. QED BY <2>2 DEF Positions
  <1>2. R \in SUBSET (P \X P) /\ IsReduced(R, P)
    OBVIOUS
  <1>3. \A x : /\ Cardinality(After(R, x)) \in Nat /\ Cardinality(Until(R, x)) \in Nat
               /\ Cardinality(After(R, x)) = 0 <=> IsEnd(R, x)
               /\ Cardinality(Until(R, x)) = 0 <=> IsStart(R, x)
    BY <1>1, <1>2, CountingPairs, EndsAndStarts, FS_EmptySet
  <1>4. /\ NoFork(R) <=> \A x \in P : Cardinality(After(R, x)) <= 1
        /\ NoJoin(R) <=> \A x \in P : Cardinality(Until(R, x)) <= 1
    BY <1>1, <1>2, NoForkCounted
  <1>5. (~ Forks(R) => NoFork(R)) /\ (~ Joins(R) => NoJoin(R))
    BY <1>3, <1>4 DEF Forks, Joins
  <1>6. ASSUME InOneRow(R)
        PROVE  Row(R, P)
    <2>1. /\ IsFiniteSet(NotOneSuccessor(R)) /\ IsFiniteSet(NotOnePredecessor(R))
          /\ NotOneSuccessor(R) \subseteq P /\ NotOnePredecessor(R) \subseteq P
      <3>1. NotOneSuccessor(R) \in SUBSET P /\ NotOnePredecessor(R) \in SUBSET P
        BY DEF NotOneSuccessor, NotOnePredecessor
      <3>2. QED BY <1>1, <3>1, FS_Subset
    <2>2. /\ \A x, y \in NotOneSuccessor(R) : x = y
          /\ \A x, y \in NotOnePredecessor(R) : x = y
      BY <1>6, <2>1, AtMostOne DEF InOneRow
    <2>3. /\ \A x \in P : x \in NotOneSuccessor(R) <=> Cardinality(After(R, x)) # 1
          /\ \A x \in P : x \in NotOnePredecessor(R) <=> Cardinality(Until(R, x)) # 1
      BY DEF NotOneSuccessor, NotOnePredecessor
    <2>4. PICK a \in P, z \in P : IsStart(R, a) /\ IsEnd(R, z)
      BY <1>1, <1>2, ReducedHasEnds
    <2>5. /\ \A x \in P : x # z => Cardinality(After(R, x)) = 1
          /\ \A x \in P : x # a => Cardinality(Until(R, x)) = 1
          /\ Cardinality(After(R, z)) = 0 /\ Cardinality(Until(R, a)) = 0
      BY <1>3, <2>2, <2>3, <2>4
    <2>6. NoFork(R) /\ NoJoin(R)
      <3>1. /\ \A x \in P : Cardinality(After(R, x)) <= 1
            /\ \A x \in P : Cardinality(Until(R, x)) <= 1
        BY <2>5
      <3>2. QED BY <1>4, <3>1
    <2>7. OneStart(R, P) /\ OneEnd(R, P)
      BY <1>3, <2>5 DEF OneStart, OneEnd
    <2>8. QED BY <2>6, <2>7 DEF Row
  <1>7. QED BY <1>5, <1>6
-----------------------------------------------------------------------------
(* A step is replaced by the subtasks of a method.                         *)

\* E2 is E with the members of P, at new places, for the first step s of X; they are
\* ordered by R, and its ends precede what s preceded.
Replaces(E2, Y, E, X, s, R, P, id) ==
  /\ E \in SUBSET (X \X X) /\ s \in X /\ IsStart(E, s)
  /\ R \in SUBSET (P \X P)
  /\ \A i \in P : id[i] \notin X
  /\ \A i, j \in P : id[i] = id[j] => i = j
  /\ Y = (X \ {s}) \union {id[i] : i \in P}
  /\ \A e \in E2 : e = <<e[1], e[2]>>
  /\ \A x, y : <<x, y>> \in E2 <=> \/ <<x, y>> \in E /\ x # s
                                   \/ \E i, j \in P : x = id[i] /\ y = id[j] /\ <<i, j>> \in R
                                   \/ \E i \in P : x = id[i] /\ IsEnd(R, i) /\ <<s, y>> \in E

\* A decomposed network is ordered by pairs of its steps.
LEMMA ReplacedIsOrdering ==
  ASSUME NEW E2, NEW Y, NEW E, NEW X, NEW s, NEW R, NEW P, NEW id,
         Replaces(E2, Y, E, X, s, R, P, id)
  PROVE  E2 \in SUBSET (Y \X Y)
  <1>1. SUFFICES ASSUME NEW x, NEW y, <<x, y>> \in E2
                 PROVE  x \in Y /\ y \in Y
    BY DEF Replaces
  <1>2. CASE <<x, y>> \in E /\ x # s
    BY <1>2 DEF Replaces, IsStart
  <1>3. CASE \E i, j \in P : x = id[i] /\ y = id[j] /\ <<i, j>> \in R
    BY <1>3 DEF Replaces
  <1>4. CASE \E i \in P : x = id[i] /\ IsEnd(R, i) /\ <<s, y>> \in E
    BY <1>4 DEF Replaces, IsStart
  <1>5. QED BY <1>1, <1>2, <1>3, <1>4 DEF Replaces

\* Pairs between the old steps, between the new ones, and from new to old ones.
LEMMA ReplacedPairs ==
  ASSUME NEW E2, NEW Y, NEW E, NEW X, NEW s, NEW R, NEW P, NEW id,
         Replaces(E2, Y, E, X, s, R, P, id)
  PROVE  /\ \A x, y : x \in X /\ <<x, y>> \in E2 => x # s /\ <<x, y>> \in E
         /\ \A i \in P : \A y : <<id[i], y>> \in E2 =>
              \/ \E j \in P : y = id[j] /\ <<i, j>> \in R
              \/ IsEnd(R, i) /\ <<s, y>> \in E
         /\ \A j \in P : \A x : <<x, id[j]>> \in E2 => \E i \in P : x = id[i] /\ <<i, j>> \in R
         /\ \A y \in X : \A x : <<x, y>> \in E2 =>
              \/ x # s /\ <<x, y>> \in E
              \/ \E i \in P : x = id[i] /\ IsEnd(R, i) /\ <<s, y>> \in E
  <1>1. ASSUME NEW x, NEW y, x \in X, <<x, y>> \in E2
        PROVE  x # s /\ <<x, y>> \in E
    <2>1. \A i \in P : x # id[i]
      BY <1>1 DEF Replaces
    <2>2. \/ <<x, y>> \in E /\ x # s
          \/ \E i, j \in P : x = id[i] /\ y = id[j] /\ <<i, j>> \in R
          \/ \E i \in P : x = id[i] /\ IsEnd(R, i) /\ <<s, y>> \in E
      BY <1>1 DEF Replaces
    <2>3. QED BY <2>1, <2>2
  <1>2. ASSUME NEW i \in P, NEW y, <<id[i], y>> \in E2
        PROVE  \/ \E j \in P : y = id[j] /\ <<i, j>> \in R
               \/ IsEnd(R, i) /\ <<s, y>> \in E
    <2>1. <<id[i], y>> \notin E
      BY DEF Replaces
    <2>2. CASE \E a, j \in P : id[i] = id[a] /\ y = id[j] /\ <<a, j>> \in R
      BY <2>2 DEF Replaces
    <2>3. CASE \E a \in P : id[i] = id[a] /\ IsEnd(R, a) /\ <<s, y>> \in E
      BY <2>3 DEF Replaces
    <2>4. QED BY <1>2, <2>1, <2>2, <2>3 DEF Replaces
  <1>3. ASSUME NEW j \in P, NEW x, <<x, id[j]>> \in E2
        PROVE  \E i \in P : x = id[i] /\ <<i, j>> \in R
    <2>1. <<x, id[j]>> \notin E /\ <<s, id[j]>> \notin E
      BY DEF Replaces
    <2>2. PICK i \in P, b \in P : x = id[i] /\ id[j] = id[b] /\ <<i, b>> \in R
      BY <1>3, <2>1 DEF Replaces
    <2>3. b = j
      BY <2>2 DEF Replaces
    <2>4. QED BY <2>2, <2>3
  <1>4. ASSUME NEW y \in X, NEW x, <<x, y>> \in E2
        PROVE  \/ x # s /\ <<x, y>> \in E
               \/ \E i \in P : x = id[i] /\ IsEnd(R, i) /\ <<s, y>> \in E
    <2>1. \A j \in P : y # id[j]
      BY DEF Replaces
    <2>2. \/ <<x, y>> \in E /\ x # s
          \/ \E i, j \in P : x = id[i] /\ y = id[j] /\ <<i, j>> \in R
          \/ \E i \in P : x = id[i] /\ IsEnd(R, i) /\ <<s, y>> \in E
      BY <1>4 DEF Replaces
    <2>3. QED BY <2>1, <2>2
  <1>5. QED BY <1>1, <1>2, <1>3, <1>4

\* Networks without forks or joins stay so when a method without them is used; not to join,
\* several ends of the method must have nothing to precede.
LEMMA ReplacedShape ==
  ASSUME NEW E2, NEW Y, NEW E, NEW X, NEW s, NEW R, NEW P, NEW id,
         Replaces(E2, Y, E, X, s, R, P, id)
  PROVE  /\ NoFork(E) /\ NoFork(R) => NoFork(E2)
         /\ NoJoin(E) /\ NoJoin(R) /\ (OneEnd(R, P) \/ IsEnd(E, s)) => NoJoin(E2)
         /\ OneStart(E, X) /\ OneStart(R, P) /\ (\E i \in P : IsEnd(R, i)) => OneStart(E2, Y)
  <1>1. ASSUME NoFork(E), NoFork(R), NEW x, NEW y, NEW z, <<x, y>> \in E2, <<x, z>> \in E2
        PROVE  y = z
    <2>1. x \in Y
      BY <1>1, ReplacedIsOrdering
    <2>2. CASE x \in X
      BY <1>1, <2>2, ReplacedPairs DEF NoFork
    <2>3. CASE \E i \in P : x = id[i]
      <3>1. PICK i \in P : x = id[i]
        BY <2>3
      <3>2. ASSUME NEW v, <<id[i], v>> \in E2
            PROVE  \/ \E j \in P : v = id[j] /\ <<i, j>> \in R
                   \/ IsEnd(R, i) /\ <<s, v>> \in E
        BY <3>2, ReplacedPairs
      <3>3. /\ \/ \E j \in P : y = id[j] /\ <<i, j>> \in R
               \/ IsEnd(R, i) /\ <<s, y>> \in E
            /\ \/ \E j \in P : z = id[j] /\ <<i, j>> \in R
               \/ IsEnd(R, i) /\ <<s, z>> \in E
        BY <1>1, <3>1, <3>2
      <3>4. QED BY <1>1, <3>3 DEF NoFork, IsEnd
    <2>4. QED BY <2>1, <2>2, <2>3 DEF Replaces
  <1>2. ASSUME NoJoin(E), NoJoin(R), OneEnd(R, P) \/ IsEnd(E, s), NEW x, NEW y, NEW z, <<x, z>> \in E2, <<y, z>> \in E2
        PROVE  x = y
    <2>1. z \in Y
      BY <1>2, ReplacedIsOrdering
    <2>2. CASE z \in X
      <3>1. /\ \/ x # s /\ <<x, z>> \in E
               \/ \E i \in P : x = id[i] /\ IsEnd(R, i) /\ <<s, z>> \in E
            /\ \/ y # s /\ <<y, z>> \in E
               \/ \E i \in P : y = id[i] /\ IsEnd(R, i) /\ <<s, z>> \in E
        BY <1>2, <2>2, ReplacedPairs
      <3>2. QED BY <1>2, <3>1 DEF NoJoin, OneEnd, IsEnd
    <2>3. CASE \E j \in P : z = id[j]
      <3>1. PICK j \in P : z = id[j]
        BY <2>3
      <3>2. /\ \E i \in P : x = id[i] /\ <<i, j>> \in R
            /\ \E i \in P : y = id[i] /\ <<i, j>> \in R
        BY <1>2, <3>1, ReplacedPairs
      <3>3. QED BY <1>2, <3>2 DEF NoJoin
    <2>4. QED BY <2>1, <2>2, <2>3 DEF Replaces
  <1>3. ASSUME OneStart(E, X), OneStart(R, P), \E i \in P : IsEnd(R, i),
               NEW x \in Y, NEW y \in Y, IsStart(E2, x), IsStart(E2, y)
        PROVE  x = y
    <2>1. ASSUME NEW v \in Y, IsStart(E2, v)
          PROVE  \E j \in P : v = id[j] /\ IsStart(R, j)
      <3>1. CASE v \in X
        <4>1. v \in X /\ v # s /\ s \in X /\ IsStart(E, s)
          BY <3>1 DEF Replaces
        <4>2. PICK u : <<u, v>> \in E
          BY <1>3, <4>1 DEF OneStart, IsStart
        <4>3. u = s
          BY <2>1, <4>2 DEF Replaces, IsStart
        <4>4. PICK i \in P : IsEnd(R, i)
          BY <1>3
        <4>5. <<id[i], v>> \in E2
          BY <4>2, <4>3, <4>4 DEF Replaces
        <4>6. QED BY <2>1, <4>5 DEF IsStart
      <3>2. CASE \E j \in P : v = id[j]
        <4>1. PICK j \in P : v = id[j]
          BY <3>2
        <4>2. ASSUME NEW i, <<i, j>> \in R
              PROVE  FALSE
          <5>1. i \in P /\ <<id[i], id[j]>> \in E2
            BY <4>2 DEF Replaces
          <5>2. QED BY <2>1, <4>1, <5>1 DEF IsStart
        <4>3. QED BY <4>1, <4>2 DEF IsStart
      <3>3. QED BY <2>1, <3>1, <3>2 DEF Replaces
    <2>2. PICK i \in P : x = id[i] /\ IsStart(R, i)
      BY <1>3, <2>1
    <2>3. PICK j \in P : y = id[j] /\ IsStart(R, j)
      BY <1>3, <2>1
    <2>4. QED BY <1>3, <2>2, <2>3 DEF OneStart
  <1>4. QED BY <1>1, <1>2, <1>3 DEF NoFork, NoJoin, OneStart

\* What T implies of the old steps, and M of the new ones.
Implied(T, s, R, P, M, id, x, y) ==
  \/ x # s /\ y # s /\ <<x, y>> \in T
  \/ \E i, j \in P : x = id[i] /\ y = id[j] /\ ~ IsEnd(R, i) /\ <<i, j>> \in M
  \/ \E i \in P : x = id[i] /\ y # s /\ <<s, y>> \in T

\* No pair of the new network is implied by others.
LEMMA ReplacedIsReduced ==
  ASSUME NEW E2, NEW Y, NEW E, NEW X, NEW s, NEW R, NEW P, NEW id,
         Replaces(E2, Y, E, X, s, R, P, id), IsReduced(E, X), IsReduced(R, P)
  PROVE  IsReduced(E2, Y)
  <1>1. PICK T \in SUBSET (X \X X) : Reduces(T, E)
    BY DEF IsReduced
  <1>2. PICK M \in SUBSET (P \X P) : Reduces(M, R)
    BY DEF IsReduced
  <1> DEFINE Old == {e \in T : e[1] # s /\ e[2] # s}
             New == {e \in Y \X Y : \E i, j \in P : e = <<id[i], id[j]>> /\ ~ IsEnd(R, i) /\ <<i, j>> \in M}
             Out == {e \in Y \X Y : \E i \in P : e[1] = id[i] /\ e[2] # s /\ <<s, e[2]>> \in T}
             All == Old \union New \union Out
  <1>3. All \in SUBSET (Y \X Y)
    BY DEF Replaces
  <1>4. ASSUME NEW x, NEW y
        PROVE  <<x, y>> \in All <=> Implied(T, s, R, P, M, id, x, y)
    <2>1. <<x, y>> \in Old <=> x # s /\ y # s /\ <<x, y>> \in T
      OBVIOUS
    <2>2. <<x, y>> \in New <=> \E i, j \in P : x = id[i] /\ y = id[j] /\ ~ IsEnd(R, i) /\ <<i, j>> \in M
      <3>1. \A i \in P : id[i] \in Y
        BY DEF Replaces
      <3>2. \A i, j : <<x, y>> = <<id[i], id[j]>> <=> x = id[i] /\ y = id[j]
        OBVIOUS
      <3>3. QED BY <3>1, <3>2
    <2>3. <<x, y>> \in Out <=> \E i \in P : x = id[i] /\ y # s /\ <<s, y>> \in T
      BY DEF Replaces
    <2>4. QED BY <2>1, <2>2, <2>3 DEF Implied
  <1> HIDE DEF All
  <1> PICK N \in SUBSET (Y \X Y) : \A x, y : <<x, y>> \in N <=> Implied(T, s, R, P, M, id, x, y)
    BY <1>3, <1>4
  <1> HIDE DEF Old, New, Out
  \* What follows from a new step, or precedes an old one.
  <1>5. ASSUME NEW x \in X, NEW y, <<x, y>> \in N
        PROVE  y \in X /\ y # s /\ x # s /\ <<x, y>> \in T
    <2>1. \A i \in P : x # id[i]
      BY DEF Replaces
    <2>2. Implied(T, s, R, P, M, id, x, y)
      BY <1>5
    <2>3. x # s /\ y # s /\ <<x, y>> \in T
      BY <2>1, <2>2 DEF Implied
    <2>4. QED BY <2>3
  <1>6. ASSUME NEW i \in P, NEW y, <<id[i], y>> \in N
        PROVE  \/ \E j \in P : y = id[j] /\ ~ IsEnd(R, i) /\ <<i, j>> \in M
               \/ y \in X /\ y # s /\ <<s, y>> \in T
    <2>1. id[i] \notin X /\ \A j \in P : id[i] = id[j] => i = j
      BY DEF Replaces
    <2>2. Implied(T, s, R, P, M, id, id[i], y)
      BY <1>6
    <2>3. CASE id[i] # s /\ y # s /\ <<id[i], y>> \in T
      BY <2>1, <2>3
    <2>4. CASE \E a, j \in P : id[i] = id[a] /\ y = id[j] /\ ~ IsEnd(R, a) /\ <<a, j>> \in M
      BY <2>1, <2>4
    <2>5. CASE \E a \in P : id[i] = id[a] /\ y # s /\ <<s, y>> \in T
      BY <2>5
    <2>6. QED BY <2>2, <2>3, <2>4, <2>5 DEF Implied
  <1>7. ASSUME NEW j \in P, NEW x, <<x, id[j]>> \in N
        PROVE  \E i \in P : x = id[i] /\ ~ IsEnd(R, i) /\ <<i, j>> \in M
    <2>1. id[j] \notin X /\ \A i \in P : id[i] = id[j] => i = j
      BY DEF Replaces
    <2>2. Implied(T, s, R, P, M, id, x, id[j])
      BY <1>7
    <2>3. <<x, id[j]>> \notin T /\ <<s, id[j]>> \notin T
      BY <2>1
    <2>4. PICK i \in P, b \in P : x = id[i] /\ id[j] = id[b] /\ ~ IsEnd(R, i) /\ <<i, b>> \in M
      BY <2>2, <2>3 DEF Implied
    <2>5. b = j
      BY <2>1, <2>4
    <2>6. QED BY <2>4, <2>5
  <1>8. \A x, y : <<x, y>> \in E2 => <<x, y>> \in N
    <2>1. SUFFICES ASSUME NEW x, NEW y, <<x, y>> \in E2
                   PROVE  <<x, y>> \in N
      OBVIOUS
    <2>2. CASE <<x, y>> \in E /\ x # s
      <3>1. y # s /\ <<x, y>> \in T
        BY <1>1, <2>2 DEF Reduces, Replaces, IsStart
      <3>2. QED BY <2>2, <3>1 DEF Implied
    <2>3. CASE \E i, j \in P : x = id[i] /\ y = id[j] /\ <<i, j>> \in R
      BY <1>2, <2>3 DEF Reduces, IsEnd, Implied
    <2>4. CASE \E i \in P : x = id[i] /\ IsEnd(R, i) /\ <<s, y>> \in E
      <3>1. y # s /\ <<s, y>> \in T
        BY <1>1, <2>4 DEF Reduces, Replaces, IsStart
      <3>2. Implied(T, s, R, P, M, id, x, y)
        BY <2>4, <3>1 DEF Implied
      <3>3. QED BY <3>2
    <2>5. \/ <<x, y>> \in E /\ x # s
          \/ \E i, j \in P : x = id[i] /\ y = id[j] /\ <<i, j>> \in R
          \/ \E i \in P : x = id[i] /\ IsEnd(R, i) /\ <<s, y>> \in E
      BY <2>1 DEF Replaces
    <2>6. QED BY <2>2, <2>3, <2>4, <2>5
  <1>9. ASSUME NEW x, NEW y, NEW z, <<x, y>> \in N, <<y, z>> \in N
        PROVE  <<x, z>> \in N
    <2>1. x \in X \/ \E i \in P : x = id[i]
      BY <1>9 DEF Replaces
    <2>2. CASE x \in X
      <3>1. y \in X /\ y # s /\ x # s /\ <<x, y>> \in T
        BY <1>5, <1>9, <2>2
      <3>2. z # s /\ <<y, z>> \in T
        BY <1>5, <1>9, <3>1
      <3>3. <<x, z>> \in T
        BY <1>1, <3>1, <3>2 DEF Reduces
      <3>4. QED BY <3>1, <3>2, <3>3 DEF Implied
    <2>3. CASE \E i \in P : x = id[i]
      <3>1. PICK i \in P : x = id[i]
        BY <2>3
      <3>2. CASE y \in X /\ y # s /\ <<s, y>> \in T
        <4>1. z # s /\ <<y, z>> \in T
          BY <1>5, <1>9, <3>2
        <4>2. <<s, z>> \in T
          BY <1>1, <3>2, <4>1 DEF Reduces
        <4>3. QED BY <3>1, <4>1, <4>2 DEF Implied
      <3>3. CASE \E j \in P : y = id[j] /\ ~ IsEnd(R, i) /\ <<i, j>> \in M
        <4>1. PICK j \in P : y = id[j] /\ ~ IsEnd(R, i) /\ <<i, j>> \in M
          BY <3>3
        <4>2. CASE z \in X /\ z # s /\ <<s, z>> \in T
          BY <3>1, <4>2 DEF Implied
        <4>3. CASE \E k2 \in P : z = id[k2] /\ ~ IsEnd(R, j) /\ <<j, k2>> \in M
          <5>1. PICK k2 \in P : z = id[k2] /\ <<j, k2>> \in M
            BY <4>3
          <5>2. <<i, k2>> \in M
            BY <1>2, <4>1, <5>1 DEF Reduces
          <5>3. QED BY <3>1, <4>1, <5>1, <5>2 DEF Implied
        <4>4. QED BY <1>6, <1>9, <4>1, <4>2, <4>3
      <3>4. QED BY <1>6, <1>9, <3>1, <3>2, <3>3
    <2>4. QED BY <2>1, <2>2, <2>3
  <1>10. ASSUME NEW x, NEW y, NEW z, <<x, y>> \in E2, <<x, z>> \in N, <<z, y>> \in N
         PROVE  FALSE
    <2>1. CASE <<x, y>> \in E /\ x # s
      <3>1. x \in X
        BY <2>1 DEF Replaces
      <3>2. z \in X /\ <<x, z>> \in T
        BY <1>5, <1>10, <3>1
      <3>3. <<z, y>> \in T
        BY <1>5, <1>10, <3>2
      <3>4. QED BY <1>1, <2>1, <3>2, <3>3 DEF Reduces
    <2>2. CASE \E i, j \in P : x = id[i] /\ y = id[j] /\ <<i, j>> \in R
      <3>1. PICK i \in P, j \in P : x = id[i] /\ y = id[j] /\ <<i, j>> \in R
        BY <2>2
      <3>2. PICK c \in P : z = id[c] /\ <<c, j>> \in M
        BY <1>7, <1>10, <3>1
      <3>3. PICK a \in P : x = id[a] /\ <<a, c>> \in M
        BY <1>7, <1>10, <3>2
      <3>4. a = i
        BY <3>1, <3>3 DEF Replaces
      <3>5. QED BY <1>2, <3>1, <3>2, <3>3, <3>4 DEF Reduces
    <2>3. CASE \E i \in P : x = id[i] /\ IsEnd(R, i) /\ <<s, y>> \in E
      <3>1. PICK i \in P : x = id[i] /\ IsEnd(R, i) /\ <<s, y>> \in E
        BY <2>3
      <3>2. z \in X /\ <<s, z>> \in T
        BY <1>6, <1>10, <3>1
      <3>3. <<z, y>> \in T
        BY <1>5, <1>10, <3>2
      <3>4. QED BY <1>1, <3>1, <3>2, <3>3 DEF Reduces
    <2>4. QED BY <1>10, <2>1, <2>2, <2>3 DEF Replaces
  <1>11. E2 \subseteq N
    BY <1>8 DEF Replaces
  <1>12. Reduces(N, E2)
    BY <1>9, <1>10, <1>11 DEF Reduces
  <1>13. QED BY <1>12 DEF IsReduced
-----------------------------------------------------------------------------
(* A first step leaves.                                                    *)

\* E2 is E without s, the first step, and its pairs.
Leaves(E2, Y, E, X, s) ==
  /\ E \in SUBSET (X \X X) /\ s \in X /\ IsStart(E, s)
  /\ Y = X \ {s}
  /\ E2 = {e \in E : e[1] # s}

\* A step without predecessors that leaves takes nothing from what is known of the network.
LEMMA LeavingKeeps ==
  ASSUME NEW E2, NEW Y, NEW E, NEW X, NEW s, Leaves(E2, Y, E, X, s)
  PROVE  /\ E2 \in SUBSET (Y \X Y)
         /\ NoFork(E) => NoFork(E2)
         /\ NoJoin(E) => NoJoin(E2)
         /\ OneStart(E, X) /\ NoFork(E) => OneStart(E2, Y)
         /\ IsReduced(E, X) => IsReduced(E2, Y)
  <1>1. ASSUME NEW x, NEW y
        PROVE  <<x, y>> \in E2 <=> <<x, y>> \in E /\ x # s
    BY DEF Leaves
  <1>2. ASSUME NEW x, NEW y, <<x, y>> \in E
        PROVE  y # s
    BY <1>2 DEF Leaves, IsStart
  <1>3. E2 \in SUBSET (Y \X Y)
    <2>1. SUFFICES ASSUME NEW e \in E2
                   PROVE  e \in Y \X Y
      OBVIOUS
    <2>2. e \in E /\ e[1] # s /\ e = <<e[1], e[2]>> /\ e[1] \in X /\ e[2] \in X
      BY DEF Leaves
    <2>3. e[2] # s
      BY <1>2, <2>2
    <2>4. QED BY <2>2, <2>3 DEF Leaves
  <1>4. (NoFork(E) => NoFork(E2)) /\ (NoJoin(E) => NoJoin(E2))
    BY <1>1 DEF NoFork, NoJoin
  <1>5. ASSUME OneStart(E, X), NoFork(E), NEW x \in Y, NEW y \in Y, IsStart(E2, x), IsStart(E2, y)
        PROVE  x = y
    <2>1. ASSUME NEW v \in Y, IsStart(E2, v)
          PROVE  <<s, v>> \in E
      <3>1. v \in X /\ v # s /\ s \in X /\ IsStart(E, s)
        BY DEF Leaves
      <3>2. PICK u : <<u, v>> \in E
        BY <1>5, <3>1 DEF OneStart, IsStart
      <3>3. u = s
        BY <1>1, <2>1, <3>2 DEF IsStart
      <3>4. QED BY <3>2, <3>3
    <2>2. QED BY <1>5, <2>1 DEF NoFork
  <1>6. ASSUME IsReduced(E, X)
        PROVE  IsReduced(E2, Y)
    <2>1. PICK T \in SUBSET (X \X X) : Reduces(T, E)
      BY <1>6 DEF IsReduced
    <2> DEFINE U == {e \in T : e[1] # s /\ e[2] # s}
    <2>2. U \in SUBSET (Y \X Y)
      BY DEF Leaves
    <2>3. ASSUME NEW x, NEW y
          PROVE  <<x, y>> \in U <=> <<x, y>> \in T /\ x # s /\ y # s
      OBVIOUS
    <2>4. E2 \subseteq U
      <3>1. SUFFICES ASSUME NEW e \in E2
                     PROVE  e \in U
        OBVIOUS
      <3>2. e \in E /\ e[1] # s /\ e = <<e[1], e[2]>>
        BY DEF Leaves
      <3>3. e[2] # s
        BY <1>2, <3>2
      <3>4. QED BY <2>1, <3>2, <3>3 DEF Reduces
    <2> HIDE DEF U
    <2>5. ASSUME NEW x, NEW y, NEW z, <<x, y>> \in U, <<y, z>> \in U
          PROVE  <<x, z>> \in U
      BY <2>1, <2>3, <2>5 DEF Reduces
    <2>6. ASSUME NEW x, NEW y, NEW z, <<x, y>> \in E2, <<x, z>> \in U, <<z, y>> \in U
          PROVE  FALSE
      BY <1>1, <2>1, <2>3, <2>6 DEF Reduces
    <2>7. Reduces(U, E2)
      BY <2>4, <2>5, <2>6 DEF Reduces
    <2>8. QED BY <2>2, <2>7 DEF IsReduced
  <1>7. QED BY <1>3, <1>4, <1>5, <1>6 DEF OneStart
-----------------------------------------------------------------------------
(* The invariant.                                                          *)

\* What is known of an ordering that the reader has classified.
Classified(m, R) ==
  LET P == 1 .. m.size
  IN  /\ R \in SUBSET (P \X P) /\ IsReduced(R, P)
      /\ isTotallyOrdered => Row(R, P)
      /\ isUniquePaths => NoFork(R)
      /\ isParallelSequences => Row(R, P) \/ (m.task = initialTask /\ (NoFork(R) \/ NoJoin(R)))

OrdersFit ==
  /\ orderings \in Seq([of : Methods, ordering : SUBSET (Nat \X Nat)])
  /\ \A o \in 1 .. Len(orderings) : Classified(orderings[o].of, orderings[o].ordering)

NetFits ==
  /\ IsFiniteSet(Steps)
  /\ net.succ \in SUBSET (Steps \X Steps) /\ IsReduced(net.succ, Steps)
  /\ isTotallyOrdered => NoFork(net.succ) /\ NoJoin(net.succ) /\ OneStart(net.succ, Steps)
  /\ isUniquePaths => NoFork(net.succ)
  /\ isParallelSequences => NoFork(net.succ) \/ NoJoin(net.succ)
  /\ \/ net.succ = {} /\ \A x, y \in Steps : x = y
     \/ \A x \in Steps : net.task[x] # initialTask

ModesInv == /\ OrdersFit
            /\ IF pc = "search" THEN NetFits ELSE IInv /\ net = NoSteps

\* Flags are only ever taken back, and the method that was read is what they say.
LEMMA ClassifyKeeps == IInv /\ OrdersFit /\ Classify => OrdersFit'
  <1> SUFFICES ASSUME IInv, OrdersFit, Classify
               PROVE  OrdersFit'
    OBVIOUS
  <1> DEFINE P == 1 .. method.size
             R == transRed
  <1>1. IInv' /\ pc' = "read" /\ method' = method /\ trans' = trans /\ transRed' = transRed
    BY ClassifyIInv DEF Classify
  <1>2. Positions' = P /\ Positions = P
    BY <1>1 DEF Positions
  <1>3. method \in Methods /\ method.size \in Nat \ {0} /\ trans \in SUBSET (P \X P) /\ R \in SUBSET (P \X P)
    BY <1>2, MethodType DEF IInv, TypeOK
  <1>4. /\ Transitive(trans)
        /\ R = {e \in trans : \A x \in P : ~ (<<e[1], x>> \in trans /\ <<x, e[2]>> \in trans)}
    BY <1>1, <1>2 DEF IInv, ClosureCorrect, ReductionCorrect, Transitive
  <1>5. IsReduced(R, P)
    <2>1. R \subseteq trans
      BY <1>4
    <2>2. ASSUME NEW x, NEW y, NEW z, <<x, y>> \in trans, <<y, z>> \in trans
          PROVE  <<x, z>> \in trans
      BY <1>4, <2>2 DEF Transitive
    <2>3. ASSUME NEW x, NEW y, NEW z, <<x, y>> \in R, <<x, z>> \in trans, <<z, y>> \in trans
          PROVE  FALSE
      <3>1. z \in P
        BY <1>3, <2>3
      <3>2. ~ (<<x, z>> \in trans /\ <<z, y>> \in trans)
        BY <1>4, <2>3, <3>1
      <3>3. QED BY <2>3, <3>2
    <2> HIDE DEF P, R
    <2>4. Reduces(trans, R)
      BY <2>1, <2>2, <2>3 DEF Reduces
    <2>5. QED BY <1>3, <2>4 DEF IsReduced
  <1>6. /\ InOneRow(R) => Row(R, P)
        /\ ~ Forks(R) => NoFork(R)
        /\ ~ Joins(R) => NoJoin(R)
    BY <1>2, <1>3, <1>5, RowIsRow
  <1>7. /\ isTotallyOrdered' => isTotallyOrdered /\ Row(R, P)
        /\ isUniquePaths' => isUniquePaths /\ NoFork(R)
        /\ isParallelSequences' =>
             isParallelSequences /\ (Row(R, P) \/ (method.task = initialTask /\ (NoFork(R) \/ NoJoin(R))))
    BY <1>6 DEF Classify, ForksInside, JoinsInside, Row
  <1>8. Classified(method, R)'
    BY <1>1, <1>3, <1>5, <1>7 DEF Classified
  <1>9. \A m, S : Classified(m, S) => (Classified(m, S))'
    BY <1>7 DEF Classified
  <1> DEFINE new == [of |-> method, ordering |-> transRed]
  <1>10. /\ orderings' = Append(orderings, new)
         /\ new \in [of : Methods, ordering : SUBSET (Nat \X Nat)]
    <2>1. R \in SUBSET (Nat \X Nat)
      BY <1>3
    <2>2. QED BY <1>3, <2>1 DEF Classify
  <1> DEFINE S == Seq([of : Methods, ordering : SUBSET (Nat \X Nat)])
  <1>11. orderings' \in S
    BY <1>10 DEF OrdersFit
  <1>12. ASSUME NEW o \in 1 .. Len(orderings')
         PROVE  (Classified(orderings[o].of, orderings[o].ordering))'
    <2>1. orderings \in S
      BY DEF OrdersFit
    <2>2. CASE o \in 1 .. Len(orderings)
      <3>1. orderings'[o] = orderings[o]
        BY <1>10, <2>1, <2>2
      <3>2. Classified(orderings[o].of, orderings[o].ordering)
        BY <2>2 DEF OrdersFit
      <3>3. QED BY <1>9, <3>1, <3>2
    <2>3. CASE o = Len(orderings) + 1
      <3>1. orderings'[o] = new
        BY <1>10, <2>1, <2>3
      <3>2. QED BY <1>1, <1>8, <3>1
    <2>4. o \in 1 .. Len(orderings) \/ o = Len(orderings) + 1
      BY <1>10, <2>1
    <2>5. QED BY <2>2, <2>3, <2>4
  <1>13. QED BY <1>11, <1>12 DEF OrdersFit

\* Reading, and a search on the problem that was read.
LEMMA OrdersStay ==
  OrdersFit /\ UNCHANGED <<orderings, flags>> => OrdersFit'
  <1> SUFFICES ASSUME OrdersFit, UNCHANGED <<orderings, flags>>
               PROVE  OrdersFit'
    OBVIOUS
  <1>1. /\ orderings' = orderings /\ isTotallyOrdered' = isTotallyOrdered
        /\ isUniquePaths' = isUniquePaths /\ isParallelSequences' = isParallelSequences
    BY DEF flags
  <1>2. \A m, R : (Classified(m, R))' <=> Classified(m, R)
    BY <1>1 DEF Classified
  <1>3. QED BY <1>1, <1>2 DEF OrdersFit

\* The next method is read; what is known of the others stays.
LEMMA ReadOnKeeps == ModesInv /\ ReadOn => ModesInv'
  <1> SUFFICES ASSUME ModesInv, ReadOn
               PROVE  ModesInv'
    OBVIOUS
  <1>1. IInv /\ OrdersFit /\ net' = NoSteps
    BY DEF ModesInv, ReadOn, Next, Close, Copy, Reduce, Classify, Read
  <1>2. IInv' /\ pc' # "search"
    <2>1. IInv'
      BY <1>1, NextIInv DEF ReadOn
    <2>2. QED BY <2>1 DEF IInv, TypeOK
  <1>3. OrdersFit'
    <2>1. CASE Classify
      BY <1>1, <2>1, ClassifyKeeps
    <2>2. CASE Close \/ Copy \/ Reduce \/ Read
      BY <1>1, <2>2, OrdersStay DEF Close, Copy, Reduce, Read
    <2>3. QED BY <2>1, <2>2 DEF ReadOn, Next
  <1>4. QED BY <1>1, <1>2, <1>3 DEF ModesInv, NoSteps

\* A network of one step has every shape.
LEMMA StartKeeps == ModesInv /\ Start => ModesInv'
  <1> SUFFICES ASSUME ModesInv, Start
               PROVE  ModesInv'
    OBVIOUS
  <1>1. pc' = "search" /\ Steps' = {1} /\ net'.succ = {}
    BY DEF Start, Steps
  <1>2. OrdersFit'
    BY OrdersStay DEF ModesInv, Start
  <1>3. IsReduced({}, {1})
    BY DEF IsReduced, Reduces
  <1>4. NetFits'
    BY <1>1, <1>3, FS_Singleton DEF NetFits, NoFork, NoJoin, OneStart
  <1>5. QED BY <1>1, <1>2, <1>4 DEF ModesInv

\* Progression of an action.
LEMMA ApplyKeeps == ModesInv /\ Apply => ModesInv'
  <1> SUFFICES ASSUME ModesInv, Apply
               PROVE  ModesInv'
    OBVIOUS
  <1>1. /\ pc = "search" /\ pc' = "search" /\ OrdersFit /\ NetFits
        /\ isTotallyOrdered' = isTotallyOrdered
        /\ isUniquePaths' = isUniquePaths /\ isParallelSequences' = isParallelSequences
    BY DEF ModesInv, Apply, vars, flags
  <1>2. PICK s \in First(net) : net' = [task |-> [x \in Steps \ {s} |-> net.task[x]],
                                        succ |-> {e \in net.succ : e[1] # s}]
    BY DEF Apply
  <1> DEFINE E == net.succ
             X == Steps
             E2 == net'.succ
             Y == Steps'
  <1>3. /\ Y = X \ {s} /\ E2 = {e \in E : e[1] # s}
        /\ \A x \in Y : net'.task[x] = net.task[x]
    BY <1>2 DEF Steps
  <1>4. s \in X /\ E \in SUBSET (X \X X) /\ IsStart(E, s)
    BY <1>1, EndsAndStarts DEF First, Steps, NetFits
  <1>5. Leaves(E2, Y, E, X, s)
    BY <1>3, <1>4 DEF Leaves
  <1>6. OrdersFit'
    BY <1>1, OrdersStay DEF Apply, vars
  <1>7. IsFiniteSet(Y)
    BY <1>1, <1>3, FS_RemoveElement DEF NetFits
  <1>8. /\ E2 \in SUBSET (Y \X Y)
        /\ NoFork(E) => NoFork(E2)
        /\ NoJoin(E) => NoJoin(E2)
        /\ OneStart(E, X) /\ NoFork(E) => OneStart(E2, Y)
        /\ IsReduced(E, X) => IsReduced(E2, Y)
    BY <1>5, LeavingKeeps
  <1>9. \/ E2 = {} /\ \A x, y \in Y : x = y
        \/ \A x \in Y : net'.task[x] # initialTask
    <2>1. CASE E = {} /\ \A x, y \in X : x = y
      BY <1>3, <2>1
    <2>2. CASE \A x \in X : net.task[x] # initialTask
      BY <1>3, <2>2
    <2>3. QED BY <1>1, <2>1, <2>2 DEF NetFits
  <1>10. NetFits'
    <2> HIDE DEF E, X, E2, Y
    <2>1. /\ IsReduced(E, X)
          /\ isTotallyOrdered => NoFork(E) /\ NoJoin(E) /\ OneStart(E, X)
          /\ isUniquePaths => NoFork(E)
          /\ isParallelSequences => NoFork(E) \/ NoJoin(E)
      BY <1>1 DEF NetFits, E, X
    <2>2. /\ isTotallyOrdered' => NoFork(E2) /\ NoJoin(E2) /\ OneStart(E2, Y)
          /\ isUniquePaths' => NoFork(E2)
          /\ isParallelSequences' => NoFork(E2) \/ NoJoin(E2)
          /\ IsReduced(E2, Y)
      BY <1>1, <1>8, <2>1
    <2>3. QED BY <1>7, <1>8, <1>9, <2>2 DEF NetFits, E2, Y
  <1>11. QED BY <1>1, <1>6, <1>10 DEF ModesInv

Numbers(f, n, fresh) == f \in [1 .. n -> fresh] /\ \A i, j \in 1 .. n : f[i] = f[j] => i = j

\* New numbers for the subtasks of a method can be found.
LEMMA NumbersExist ==
  ASSUME NEW X, IsFiniteSet(X), X # {}, NEW n \in Nat \ {0}, Cardinality(X) - 1 + n <= MaxSteps,
         NEW fresh, fresh = (1 .. MaxSteps + n) \ X
  PROVE  \E f : Numbers(f, n, fresh)
  <1> DEFINE all == 1 .. MaxSteps + n
  <1>1. /\ IsFiniteSet(all) /\ Cardinality(all) = MaxSteps + n
        /\ Cardinality(X) \in Nat /\ MaxSteps \in Nat
    <2>1. MaxSteps \in Nat /\ Cardinality(X) \in Nat
      BY FS_CardinalityType, StepsAssumption
    <2>2. 1 \in Int /\ MaxSteps + n \in Int /\ ~ (1 > MaxSteps + n) /\ MaxSteps + n - 1 + 1 = MaxSteps + n
      BY <2>1
    <2>3. IsFiniteSet(all) /\ Cardinality(all) = MaxSteps + n
      BY <2>2, FS_Interval
    <2>4. QED BY <2>1, <2>3
  <1>2. IsFiniteSet(fresh) /\ Cardinality(fresh) \in Nat /\ ExistsBijection(1 .. Cardinality(fresh), fresh)
    BY <1>1, FS_Difference, FS_CardinalityType
  <1>3. Cardinality(fresh) >= n
    <2>1. IsFiniteSet(all \intersect X) /\ Cardinality(all \intersect X) <= Cardinality(X)
      BY FS_Subset
    <2>2. Cardinality(fresh) = Cardinality(all) - Cardinality(all \intersect X)
      BY <1>1, FS_Difference
    <2>3. Cardinality(all \intersect X) \in Nat
      BY <2>1, FS_CardinalityType
    <2> HIDE DEF all
    <2>4. QED BY <1>1, <1>2, <2>1, <2>2, <2>3
  <1>4. PICK g : /\ g \in [1 .. Cardinality(fresh) -> fresh]
                 /\ \A i, j \in 1 .. Cardinality(fresh) : g[i] = g[j] => i = j
    BY <1>2 DEF ExistsBijection, Bijection, Injection, IsInjective
  <1> DEFINE f == [i \in 1 .. n |-> g[i]]
  <1>5. 1 .. n \subseteq 1 .. Cardinality(fresh)
    BY <1>2, <1>3
  <1>6. f \in [1 .. n -> fresh] /\ \A i, j \in 1 .. n : f[i] = f[j] => i = j
    BY <1>4, <1>5
  <1> HIDE DEF f
  <1>7. QED BY <1>6 DEF Numbers

\* The pairs of the network after a decomposition, as Decompose computes them.
LEMMA DecomposedReplaces ==
  ASSUME NEW E2, NEW Y, NEW X, NEW E \in SUBSET (X \X X), NEW s \in X, IsStart(E, s),
         NEW m \in Methods, NEW R \in SUBSET ((1 .. m.size) \X (1 .. m.size)), NEW id,
         \A i \in 1 .. m.size : id[i] \notin X,
         \A i, j \in 1 .. m.size : id[i] = id[j] => i = j,
         Y = (X \ {s}) \union {id[i] : i \in 1 .. m.size},
         E2 = {e \in E : e[1] # s}
              \union {<<id[e[1]], id[e[2]]>> : e \in R}
              \union {<<id[p[1]], p[2][2]>> : p \in Preceding(m, R) \X After(E, s)}
  PROVE  Replaces(E2, Y, E, X, s, R, 1 .. m.size, id)
  <1> DEFINE P == 1 .. m.size
             Old == {e \in E : e[1] # s}
             New == {<<id[e[1]], id[e[2]]>> : e \in R}
             Out == {<<id[p[1]], p[2][2]>> : p \in Preceding(m, R) \X After(E, s)}
  <1>1. \A i : i \in Preceding(m, R) <=> i \in P /\ IsEnd(R, i)
    BY EndsAndStarts DEF Preceding, LastOf
  <1>2. ASSUME NEW x, NEW y
        PROVE  <<x, y>> \in New <=> \E i, j \in P : x = id[i] /\ y = id[j] /\ <<i, j>> \in R
    <2>1. ASSUME <<x, y>> \in New
          PROVE  \E i, j \in P : x = id[i] /\ y = id[j] /\ <<i, j>> \in R
      <3>1. PICK e \in R : <<x, y>> = <<id[e[1]], id[e[2]]>>
        BY <2>1
      <3>2. e[1] \in P /\ e[2] \in P /\ <<e[1], e[2]>> \in R /\ x = id[e[1]] /\ y = id[e[2]]
        BY <3>1
      <3>3. QED BY <3>2
    <2>2. ASSUME NEW i \in P, NEW j \in P, x = id[i], y = id[j], <<i, j>> \in R
          PROVE  <<x, y>> \in New
      <3> DEFINE e == <<i, j>>
      <3>1. e \in R /\ e[1] = i /\ e[2] = j
        BY <2>2
      <3>2. <<x, y>> = <<id[e[1]], id[e[2]]>>
        BY <2>2, <3>1
      <3>3. QED BY <3>1, <3>2
    <2>3. QED BY <2>1, <2>2
  <1>3. ASSUME NEW x, NEW y
        PROVE  <<x, y>> \in Out <=> \E i \in P : x = id[i] /\ IsEnd(R, i) /\ <<s, y>> \in E
    <2>1. ASSUME <<x, y>> \in Out
          PROVE  \E i \in P : x = id[i] /\ IsEnd(R, i) /\ <<s, y>> \in E
      <3>1. PICK p \in Preceding(m, R) \X After(E, s) : <<x, y>> = <<id[p[1]], p[2][2]>>
        BY <2>1
      <3>2. p[1] \in P /\ IsEnd(R, p[1]) /\ p[2] \in E /\ p[2][1] = s
        BY <1>1 DEF After
      <3>3. p[2] = <<s, p[2][2]>> /\ x = id[p[1]] /\ y = p[2][2]
        BY <3>1, <3>2
      <3>4. QED BY <3>2, <3>3
    <2>2. ASSUME NEW i \in P, x = id[i], IsEnd(R, i), <<s, y>> \in E
          PROVE  <<x, y>> \in Out
      <3> DEFINE p == <<i, <<s, y>>>>
      <3>1. p \in Preceding(m, R) \X After(E, s) /\ p[1] = i /\ p[2][2] = y
        BY <1>1, <2>2 DEF After
      <3>2. <<x, y>> = <<id[p[1]], p[2][2]>>
        BY <2>2, <3>1
      <3>3. QED BY <3>1, <3>2
    <2>3. QED BY <2>1, <2>2
  <1>4. E2 = Old \union New \union Out
    OBVIOUS
  <1>5. \A x, y : <<x, y>> \in Old <=> <<x, y>> \in E /\ x # s
    OBVIOUS
  <1>6. \A e \in E2 : e = <<e[1], e[2]>>
    OBVIOUS
  <1> HIDE DEF Old, New, Out
  <1>7. \A x, y : <<x, y>> \in E2 <=> \/ <<x, y>> \in E /\ x # s
                                      \/ \E i, j \in P : x = id[i] /\ y = id[j] /\ <<i, j>> \in R
                                      \/ \E i \in P : x = id[i] /\ IsEnd(R, i) /\ <<s, y>> \in E
    BY <1>2, <1>3, <1>4, <1>5
  <1>8. QED BY <1>6, <1>7 DEF Replaces

\* Decomposition.
LEMMA DecomposeKeeps == ModesInv /\ Decompose => ModesInv'
  <1> SUFFICES ASSUME ModesInv, Decompose
               PROVE  ModesInv'
    OBVIOUS
  <1>1. /\ pc = "search" /\ pc' = "search" /\ OrdersFit /\ NetFits
        /\ isTotallyOrdered' = isTotallyOrdered
        /\ isUniquePaths' = isUniquePaths /\ isParallelSequences' = isParallelSequences
    BY DEF ModesInv, Decompose, vars, flags
  <1>2. PICK s \in First(net), o \in 1 .. Len(orderings) :
          LET m == orderings[o].of
              R == orderings[o].ordering
              fresh == (1 .. MaxSteps + m.size) \ Steps
              id == CHOOSE f \in [1 .. m.size -> fresh] :
                      \A i, j \in 1 .. m.size : f[i] = f[j] => i = j
              new == {id[j] : j \in 1 .. m.size}
          IN  /\ m.task = net.task[s]
              /\ Cardinality(Steps) - 1 + m.size <= MaxSteps
              /\ net' = [task |-> [x \in (Steps \ {s}) \union new |->
                                     IF x \in new THEN m.sub[CHOOSE j \in 1 .. m.size : id[j] = x]
                                     ELSE net.task[x]],
                         succ |-> {e \in net.succ : e[1] # s}
                           \union {<<id[e[1]], id[e[2]]>> : e \in R}
                           \union {<<id[p[1]], p[2][2]>> : p \in Preceding(m, R) \X After(net.succ, s)}]
    BY DEF Decompose
  <1> DEFINE E == net.succ
             X == Steps
             E2 == net'.succ
             Y == Steps'
             m == orderings[o].of
             P == 1 .. m.size
             R == orderings[o].ordering
             fresh == (1 .. MaxSteps + m.size) \ X
             id == CHOOSE f \in [P -> fresh] : \A i, j \in P : f[i] = f[j] => i = j
             new == {id[j] : j \in P}
  <1>3. /\ s \in X /\ E \in SUBSET (X \X X) /\ IsStart(E, s) /\ IsFiniteSet(X)
        /\ m \in Methods /\ m.size \in Nat \ {0} /\ Classified(m, R)
    <2>1. s \in X /\ E \in SUBSET (X \X X) /\ Until(E, s) = {} /\ IsFiniteSet(X)
      BY <1>1 DEF First, Steps, NetFits
    <2>2. m \in Methods /\ Classified(m, R)
      <3> DEFINE Orders == [of : Methods, ordering : SUBSET (Nat \X Nat)]
      <3>1. orderings[o] \in Orders
        <4>1. orderings \in Seq(Orders)
          BY <1>1 DEF OrdersFit
        <4> HIDE DEF Orders
        <4>2. QED BY <4>1
      <3>2. QED BY <1>1, <3>1 DEF OrdersFit
    <2>3. QED BY <2>1, <2>2, EndsAndStarts, MethodType
  <1>4. id \in [P -> fresh] /\ \A i, j \in P : id[i] = id[j] => i = j
    <2>1. Cardinality(X) - 1 + m.size <= MaxSteps
      BY <1>2
    <2>2. \E f \in [P -> fresh] : \A i, j \in P : f[i] = f[j] => i = j
      <3>1. X # {} /\ IsFiniteSet(X) /\ m.size \in Nat \ {0} /\ fresh = (1 .. MaxSteps + m.size) \ X
        BY <1>3
      <3> DEFINE n == m.size
      <3> HIDE DEF X, m, fresh
      <3>2. n \in Nat \ {0} /\ Cardinality(X) - 1 + n <= MaxSteps /\ fresh = (1 .. MaxSteps + n) \ X
        BY <2>1, <3>1
      <3> HIDE DEF n
      <3>3. \E f : Numbers(f, n, fresh)
        BY <3>1, <3>2, NumbersExist
      <3>4. QED BY <3>3 DEF n, Numbers
    <2> HIDE DEF P, fresh
    <2>3. QED BY <2>2
  <1>5. /\ Y = (X \ {s}) \union new
        /\ E2 = {e \in E : e[1] # s}
                \union {<<id[e[1]], id[e[2]]>> : e \in R}
                \union {<<id[p[1]], p[2][2]>> : p \in Preceding(m, R) \X After(E, s)}
        /\ \A x \in Y : net'.task[x] = IF x \in new THEN m.sub[CHOOSE j \in P : id[j] = x]
                                       ELSE net.task[x]
        /\ m.task = net.task[s]
    BY <1>2 DEF Steps
  <1> HIDE DEF E, X, E2, Y, m, P, R, id, new
  <1>6. \A i \in P : id[i] \notin X
    BY <1>4
  <1> HIDE DEF fresh
  <1>7. /\ R \in SUBSET (P \X P) /\ IsReduced(R, P)
        /\ isTotallyOrdered => Row(R, P)
        /\ isUniquePaths => NoFork(R)
        /\ isParallelSequences => Row(R, P) \/ (m.task = initialTask /\ (NoFork(R) \/ NoJoin(R)))
    BY <1>3 DEF Classified, P
  <1>8. Replaces(E2, Y, E, X, s, R, P, id)
    BY <1>3, <1>4, <1>5, <1>6, <1>7, DecomposedReplaces DEF P, new
  <1>9. IsFiniteSet(P) /\ P # {}
    <2>1. 1 \in P
      BY <1>3 DEF P
    <2>2. IsFiniteSet(1 .. m.size)
      <3>1. 1 \in Int /\ m.size \in Int
        BY <1>3
      <3>2. QED BY <3>1, FS_Interval
    <2>3. QED BY <2>1, <2>2 DEF P
  <1>10. IsFiniteSet(Y)
    <2>1. [j \in P |-> id[j]] \in Surjection(P, new)
      BY DEF Surjection, new
    <2>2. IsFiniteSet(new) /\ IsFiniteSet(X \ {s})
      BY <1>3, <1>9, <2>1, FS_Surjection, FS_RemoveElement
    <2>3. QED BY <1>5, <2>2, FS_Union
  <1>11. \A x \in Y : net'.task[x] # initialTask
    <2>1. SUFFICES ASSUME NEW x \in Y
                   PROVE  net'.task[x] # initialTask
      OBVIOUS
    <2>2. CASE x \in new
      <3>1. \E j \in P : id[j] = x
        BY <2>2 DEF new
      <3>2. (CHOOSE j \in P : id[j] = x) \in P
        BY <3>1
      <3>3. QED BY <1>3, <1>5, <2>2, <3>2, InitialTaskAssumption DEF P
    <2>3. CASE x \notin new
      <3>1. x \in X /\ x # s /\ net'.task[x] = net.task[x]
        BY <1>5, <2>3
      <3>2. net.task[x] # initialTask
        BY <1>1, <1>3, <3>1 DEF NetFits, X
      <3>3. QED BY <3>1, <3>2
    <2>4. QED BY <2>2, <2>3
  <1>12. /\ IsReduced(E, X)
         /\ isTotallyOrdered => NoFork(E) /\ NoJoin(E) /\ OneStart(E, X)
         /\ isUniquePaths => NoFork(E)
         /\ isParallelSequences => NoFork(E) \/ NoJoin(E)
         /\ E = {} \/ m.task # initialTask
    BY <1>1, <1>3, <1>5 DEF NetFits, E, X
  <1>13. /\ NoFork(E) /\ NoFork(R) => NoFork(E2)
         /\ NoJoin(E) /\ NoJoin(R) /\ (OneEnd(R, P) \/ IsEnd(E, s)) => NoJoin(E2)
         /\ OneStart(E, X) /\ OneStart(R, P) => OneStart(E2, Y)
    <2>1. \E i \in P : IsEnd(R, i)
      BY <1>7, <1>9, ReducedHasEnds
    <2>2. QED BY <1>8, <2>1, ReplacedShape
  <1>14. E2 \in SUBSET (Y \X Y) /\ IsReduced(E2, Y)
    BY <1>7, <1>8, <1>12, ReplacedIsOrdering, ReplacedIsReduced
  <1>15. /\ isTotallyOrdered' => NoFork(E2) /\ NoJoin(E2) /\ OneStart(E2, Y)
         /\ isUniquePaths' => NoFork(E2)
    BY <1>1, <1>7, <1>12, <1>13 DEF Row
  <1>16. isParallelSequences' => NoFork(E2) \/ NoJoin(E2)
    <2>1. E = {} => NoFork(E) /\ NoJoin(E) /\ IsEnd(E, s)
      BY DEF NoFork, NoJoin, IsEnd
    <2>2. QED BY <1>1, <1>7, <1>12, <1>13, <2>1 DEF Row
  <1>17. NetFits'
    BY <1>10, <1>11, <1>14, <1>15, <1>16 DEF NetFits, E2, Y
  <1>18. OrdersFit'
    BY <1>1, OrdersStay DEF Decompose, vars
  <1>19. QED BY <1>1, <1>17, <1>18 DEF ModesInv

\* Nothing has been classified at first, and the network is one step.
LEMMA ModesInitFits == ModesInit => ModesInv
  <1> SUFFICES ASSUME ModesInit
               PROVE  ModesInv
    OBVIOUS
  <1>1. Init /\ net = NoSteps /\ pc = "close" /\ orderings = <<>>
    BY DEF ModesInit, Init
  <1>2. OrdersFit
    BY <1>1 DEF OrdersFit
  <1>3. QED BY <1>1, <1>2, InitIInv DEF ModesInv

\* Reading, classifying and searching leave the invariant.
LEMMA ModesStep == ModesInv /\ [ModesNext]_<<vars, net>> => ModesInv'
  <1> SUFFICES ASSUME ModesInv, [ModesNext]_<<vars, net>>
               PROVE  ModesInv'
    OBVIOUS
  <1>1. CASE UNCHANGED <<vars, net>>
    <2>1. pc' = pc /\ net' = net /\ UNCHANGED <<orderings, flags>> /\ Steps' = Steps /\ UNCHANGED vars
      BY <1>1 DEF vars, Steps
    <2>2. OrdersFit'
      BY <2>1, OrdersStay DEF ModesInv
    <2>3. NetFits => NetFits'
      BY <2>1 DEF NetFits, flags
    <2>4. IInv => IInv'
      BY <2>1, NextIInv
    <2>5. QED BY <2>1, <2>2, <2>3, <2>4 DEF ModesInv, NoSteps
  <1>2. QED BY <1>1, ReadOnKeeps, StartKeeps, DecomposeKeeps, ApplyKeeps DEF ModesNext
-----------------------------------------------------------------------------
(* What the model's own properties say.                                    *)

\* The invariant says what the flags promise of methods and networks.
LEMMA FlagsFollow == ModesInv => FlagsHold
  <1> SUFFICES ASSUME ModesInv
               PROVE  FlagsHold
    OBVIOUS
  <1>1. CASE pc = "search"
    <2> DEFINE E == net.succ
               X == Steps
    <2>1. /\ IsFiniteSet(X) /\ E \in SUBSET (X \X X)
          /\ isTotallyOrdered => NoFork(E) /\ NoJoin(E) /\ OneStart(E, X)
          /\ isUniquePaths => NoFork(E)
          /\ isParallelSequences => NoFork(E) \/ NoJoin(E)
      BY <1>1 DEF ModesInv, NetFits
    <2> HIDE DEF E, X
    <2>2. /\ NoFork(E) <=> \A x \in X : Cardinality(After(E, x)) <= 1
          /\ NoJoin(E) <=> \A y \in X : Cardinality(Until(E, y)) <= 1
      BY <2>1, NoForkCounted
    <2>3. OneStart(E, X) => Cardinality(First(net)) <= 1
      <3>1. First(net) = {s \in X : IsStart(E, s)}
        BY <2>1, EndsAndStarts DEF First, X, E, Steps
      <3>2. IsFiniteSet(First(net))
        BY <2>1, <3>1, FS_Subset
      <3>3. OneStart(E, X) => \A x, y \in First(net) : x = y
        BY <3>1 DEF OneStart
      <3>4. QED BY <3>2, <3>3, AtMostOne
    <2>4. (NoFork(E) <=> AtMostOneSuccessor) /\ (NoJoin(E) <=> AtMostOnePredecessor)
      BY <2>2 DEF AtMostOneSuccessor, AtMostOnePredecessor, E, X
    <2>5. QED BY <2>1, <2>3, <2>4 DEF FlagsHold, PathsHold, ForkOrJoin
  <1>2. CASE pc # "search"
    <2>1. Steps = {} /\ First(net) = {}
      BY <1>2 DEF ModesInv, NoSteps, Steps, First
    <2>2. QED
      BY <2>1, FS_EmptySet DEF FlagsHold, PathsHold, ForkOrJoin, AtMostOneSuccessor, AtMostOnePredecessor
  <1>3. QED BY <1>1, <1>2

\* The invariant says that networks have no pair that others imply.
LEMMA ReducedFollows == ModesInv => StaysReduced
  <1> SUFFICES ASSUME ModesInv, NEW e \in net.succ
               PROVE  e[2] \notin Reached(net.succ \ {e}, e[1])
    BY DEF StaysReduced
  <1> DEFINE E == net.succ
             X == Steps
             D == E \ {e}
             G == Pairs(D)
             x == e[1]
             y == e[2]
  <1>1. pc = "search"
    BY DEF ModesInv, NoSteps
  <1>2. IsFiniteSet(X) /\ E \in SUBSET (X \X X) /\ IsReduced(E, X)
    BY <1>1 DEF ModesInv, NetFits
  <1>3. e = <<x, y>> /\ x \in X /\ y \in X /\ <<x, y>> \in E
    BY <1>2
  <1>4. PICK T \in SUBSET (X \X X) : Reduces(T, E)
    BY <1>2 DEF IsReduced
  <1>5. DOMAIN G = X /\ \A v \in X : \A w : w \in G[v] <=> <<v, w>> \in D
    <2>1. ASSUME NEW v \in X, NEW w
          PROVE  w \in {d[2] : d \in After(D, v)} <=> <<v, w>> \in D
      <3>1. ASSUME NEW d \in After(D, v), w = d[2]
            PROVE  <<v, w>> \in D
        BY <1>2, <3>1 DEF After
      <3>2. ASSUME <<v, w>> \in D
            PROVE  \E d \in After(D, v) : w = d[2]
        BY <3>2 DEF After
      <3>3. QED BY <3>1, <3>2
    <2>2. QED BY <2>1 DEF Pairs
  <1> HIDE DEF E, X, D, G, x, y
  <1>6. IsGraph(G)
    <2>1. ASSUME NEW v \in X, NEW w \in G[v]
          PROVE  w \in X
      <3>1. <<v, w>> \in E
        BY <1>5, <2>1 DEF D
      <3>2. QED BY <1>2, <3>1
    <2>2. QED BY <1>2, <1>5, <2>1 DEF IsGraph
  <1> DEFINE C == {w \in X : <<x, w>> \in D \/ \E z \in X : <<x, z>> \in D /\ <<z, w>> \in T}
  <1>7. \A v \in {x} \intersect DOMAIN G : G[v] \subseteq C
    BY <1>5, <1>6 DEF IsGraph
  <1>8. \A v \in C \intersect DOMAIN G : G[v] \subseteq C
    <2>1. SUFFICES ASSUME NEW v \in C, NEW w \in G[v]
                   PROVE  w \in C
      OBVIOUS
    <2>2. v \in X /\ w \in X /\ <<v, w>> \in T
      BY <1>4, <1>5, <1>6, <2>1 DEF IsGraph, Reduces, D
    <2>3. QED BY <1>4, <2>1, <2>2 DEF Reduces
  <1>9. ReachedFrom(G, {x}) \subseteq C
    <2> HIDE DEF C
    <2>1. QED BY <1>6, <1>7, <1>8, ReachedIsLeast
  <1>10. <<x, y>> \notin D
    BY <1>3 DEF D
  <1>11. \A z : <<x, z>> \in D => <<x, z>> \in T
    BY <1>4 DEF Reduces, D
  <1>12. y \notin C
    BY <1>3, <1>4, <1>10, <1>11 DEF Reduces
  <1>13. y # x
    BY <1>3, <1>4 DEF Reduces
  <1>14. QED BY <1>9, <1>12, <1>13 DEF Reached, E, D, G, x, y
-----------------------------------------------------------------------------
(* The theorems.                                                           *)

\* What is known of the classified methods carries over to every network of the search.
THEOREM ShapesAreKept == ModesSpec => []ModesInv
  <1>1. QED BY ModesInitFits, ModesStep, PTL DEF ModesSpec

\* isTotallyOrdered, isUniquePaths and isParallelSequences, found out about methods, hold for
\* every network that decomposition and progression make: to_dfs meets the shapes it was chosen for.
THEOREM FlagsHoldAlways == ModesSpec => []FlagsHold
  <1>1. QED BY ShapesAreKept, FlagsFollow, PTL

\* Successor lists never hold a step that others of them lead to, as methods were reduced once.
THEOREM NetworksStayReduced == ModesSpec => []StaysReduced
  <1>1. QED BY ShapesAreKept, ReducedFollows, PTL
=============================================================================
